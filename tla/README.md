# A verification project for the Content Distribution Network

Clients keep a directory synchronised through a central file storage server
(FSS); CDN nodes cache the files on the way, and a Meta server knows which file
has which hash and time stamp and which CDNs have a copy. The modules here model
the caching, the storage down to blocks and list nodes, the bookkeeping, the choice of a CDN and the
synchronisation of that system, TLC checks them on small instances, and TLAPS proves the most important results for every value of
the constants. References such as `CDN/CDNReceiver.cpp:146` are relative to `src/`.

Contents: 1 the system, 2 the modules, 3 how the model corresponds to the code,
4 the runs, 5 fairness, 6 the proofs, 7 what the code does that is worth knowing,
8 what is not modelled, 9 the plan.

## 1. The system

### Components, their state and operations

| component | state | operations |
|---|---|---|
| CDN request handlers (`CDN/CDNReceiver.cpp`) | none of their own: local variables of a handler | `handle_get`, `handle_put`, `handle_delete` |
| CDN message sender (`CDN/CDNSender.cpp`) | none | messages to Meta and the FSS; `getFileFromFSS`, which fetches, stores and advertises |
| CDN storage (`CDN/CDN_Node.cpp`) | the directory `./cache`, the id Meta has given | look up, delete, write and load a file; `managing_files`, the eviction loop |
| LRU tracker (`CDN/CDN_Cache.h`) | a linked list of keys, a map from keys to nodes | `set`, `get`, `remove(key)`, `remove(from the tail)` |
| Meta message handlers (`Meta/MetaCDNReceiver.cpp`) | none | `handle_update`, with the invalidation loop; `handle_delete`; `handle_register` |
| Meta tables (`Meta/MetaServer.cpp`) | the map from CDN ids to addresses; two tables in version files; two version numbers | add, change and remove an entry, a CDN of an entry, a time stamp; the lists computed for clients; the closest CDN |
| FSS (`FSS/fss.cpp`) | the directory `./files` | GET, POST |
| Origin (`Origin/`) | none | turns a client's list of files into Meta's lists of what to upload and download |
| Client (`Client/client.cpp`) | its directory, the list after the last synchronisation, the deleted files | `syncUpload`, `syncDownload`, `autoSync` |
| hashing and encryption, location data, the programs | none, or constant tables | pure functions, start and stop |

### How they interact

Every HTTP call is a blocking `.get()`. A PUT at a CDN makes room (evicting),
writes the copy, sends one message to Meta per evicted file, POSTs the content to
the FSS and sends an update to Meta. The thread of Meta that handles the update
changes the entry and the time stamp and then sends a DELETE to every other
registered CDN; the thread of that CDN that handles the DELETE removes the copy
and, before it answers, sends a message to Meta. So one client request is a chain
of nested calls through up to four processes, and Meta waits for CDNs that wait
for Meta. A GET that misses fetches the file from the FSS, makes room, writes the
copy, reports the evictions and advertises the copy to Meta.

Each server runs its handlers on the thread pool of cpprest. No component takes a
lock, no message carries a version, nothing is retried, no answer of Meta is
looked at. CDNs and Meta keep their files when they stop and forget their memory.

### What is hard, and what makes each component correct

* **Handlers and storage.** Concurrent requests for one file; an upload passing a
  fetch; eviction between look-up and load; requests that stop half-way.
  Correct: no stale copy, OK answers carry the content, an upload reaches
  the FSS before Meta announces it, the directory stays within its capacity.
* **LRU tracker.** A long sequence of operations must keep list and directory
  the same; a key that is mapped to a NULL node kills the process when the node is
  followed, which a restart over a full directory makes possible.
  Correct: next and prev make one list of the mapped nodes, in the order of their
  last use; what is on the disk is tracked, and the other way round.
* **Disks.** Files are written in place, in pieces, without a lock, and removed while
  others have them open; a write may stop half-way. Correct: a content is not mixed
  with another by eviction and re-creation.
* **Meta handlers.** The invalidation loop and its aborts; CDNs that register
  during it, or again under a new id. Correct: Meta lists what is there,
  its hash and time stamp are those of the stored content, every request ends.
* **Map of CDNs.** Registrations, lists for clients and loops use one map at the same
  time; a look-up inserts what it does not find; a distance may not be a number.
  Correct: a CDN runs under the id Meta has it under, every listed id can be reached,
  a loop passes over nobody, and a client is sent to the nearest CDN.
* **Meta tables.** Two handlers bump the version and copy files at the same time;
  the ring of versions wraps; a restart begins at version 0 over old files.
  Correct: the files implement one table that changes atomically, a CDN
  is listed once, an acknowledged upload stays listed, every message is answered.
* **Client and Origin.** The lists are computed at one time and used later, the
  local list is compared with one from an earlier time, a file is read and hashed
  separately, time stamps are whole seconds. Correct: what is transferred is not
  older than what it replaces, a deleted file stays deleted, and both sides come
  to agree.

`PROJECT.json` lists the hazards of each, at their lines, with the properties that
cover them or the reason why none does.

## 2. The modules

| module | what it is |
|---|---|
| `ContentNetwork` | CDNs, tracker, FSS, Meta's table and the requests that run through them, with crashes, restarts and failed calls |
| `ContentProperties` | what that system guarantees and under which use of files |
| `ContentInvariants` | the inductive invariants behind those guarantees |
| `MetaTable` | abstract: what Meta promises the others, as four atomic operations |
| `MetaStore` | how MetaServer keeps the tables in version files, with concurrent handlers, lists for clients and restarts |
| `ClientSync` | clients that synchronise a directory users change, and the lists Origin and Meta compute for them |
| `CdnDirectory` | Meta's map of CDNs: registration, the choice of a CDN for a client, the invalidation loop over the map, a restart of Meta |
| `LruOrder` | abstract: the tracked keys in the order of their last use |
| `LruList` | the tracker as it is: a map and a doubly linked list of nodes |
| `CdnDisk` | one CDN's storage and the FSS's: handlers of several threads, files written block by block, failing disks, over the tracker of `LruList` |
| `MCContent`, `MCMetaStore`, `MCClientSync`, `MCDirectory`, `MCDisk` | constants and symmetry for TLC |
| `DiskInvariants` | the inductive invariants behind the properties of `CdnDisk` |
| `SequenceLemmas` | what the operators on sequences and the sums over finite sets yield, for the proofs |
| `ContentProofs` | type correctness of `ContentNetwork`; Meta and the FSS agree; Meta is used as `MetaTable` says |
| `CacheProofs` | no stale copies, answers are what is stored; for one request at a time: tracker and directory agree, copies are listed, the capacity is kept |
| `MetaStoreProofs` | type correctness of `MetaStore`, a CDN is listed once; for one handler: one line per file, all answered, uploads stay listed, `MetaTable` is implemented |
| `DirectoryProofs` | all five invariants of `CdnDirectory` |
| `LruProofs` | the pointers of the tracker are a list, and the list refines `LruOrder` |
| `DiskProofs` | type correctness of `CdnDisk`, contents are whole, and storage is exact as long as handlers do not overlap |
| `ClientProofs` | type correctness of `ClientSync`, deleted files stay deleted, a lone client uploads nothing older and downloads over none of its files |

`MetaTable` is where the two halves meet. `ContentNetwork` only takes steps of the
table (`UsesTable`, checked and proved); `MetaStore` implements the table when its
handlers run one at a time (`ImplementsTable`, checked and proved), and the violation runs show
what is lost when they do not. `ClientSync` stands above both: it takes a request
for one file, and the lists, as atomic.

`CdnDirectory` and `CdnDisk` look closer at two things `ContentNetwork` takes as one step.
`CdnDirectory` opens up registration and the choice of a CDN: `ContentNetwork` sends a request to any
CDN, and gives out an id in one step. `CdnDisk` opens up one CDN and the FSS: a file is a
sequence of blocks in an inode, and the tracker is the list of nodes. `LruOrder` is
what `ContentNetwork` has as `lru` and `nulls`; that the nodes keep it is a refinement,
checked and proved. Operators called "mutant" in a comment are wrong
versions of the definition that follows, used to make sure that each property can
fail; no specification uses them.

## 3. Model and code

### ContentNetwork

*A request is a process.* Since calls block and nest, the handlers a request runs
through never run at the same time for that request. `pc[r]` says where in the chain it is:

    GET   lookup -> [fetch -> manage -> write -> report... ] -> relookup -> load -> ok
    PUT   manage -> write -> report... -> update -> stamp -> invalidate <-> revoke -> ok

`req`, `body`, `evicted`, `targets` and `peer` are the local variables of its
handlers. A request that ends stays in `ok`, `notFound` or `error` until its client
sends another. Slots may read and write the files `Reads[r]` and `Writes[r]`; this
is how the runs and theorems say who shares files.

| actions | code |
|---|---|
| `StartGet`, `Lookup`, `Relookup`, `Load`, `LoadCrashes` | `CDNReceiver::handle_get`, `CDN_Node::load_file`, `LRUCache::get` |
| `Fetch`, `Advertise` | `CDNSender::getFileFromFSS` |
| `Manage`, `ManageFails`, `ManageCrashes` | `CDN_Node::managing_files`, `LRUCache::remove`, `LRUCache::set` |
| `WriteCopy`, `WriteFails`, `Report` | `CDN_Node::write_file`, `sendCacheDeleteMsgToMeta` for each of `deletedFiles` |
| `StartPut`, `Upload`, `UploadRefused`, `RollbackCrashes` | `CDNReceiver::handle_put` |
| `Update`, `Stamp`, `Invalidate`, `InvalidateCrashes`, `Unreachable`, `Reply` | `MetaCDNReceiver::handle_update` |
| `Invalidate`, `Revoke`, `RevokeLost` | `CDNReceiver::handle_delete`, `MetaCDNReceiver::handle_delete` |
| `CdnStart`, `CdnStop` | constructor of `CDN_Node`, `handle_register`, `CDN/main.cpp` |
| `Abandon`, `CallThrows`, `DeleteThrows`, `RevokeThrows` | calls that throw: a process that is gone, a time-out |

*Grain.* A step is one call of the tracker together with the file operations around
it, one write of a file, or one operation on a table of Meta. Races inside the file operations
are the subject of `CdnDisk`, races inside Meta's tables of `MetaStore`; two threads inside the
`unordered_map` of the tracker are not modelled.

*The tracker* is the sequence of its keys (`lru`) and the set of keys that are
mapped to a NULL node (`nulls`). `LRUCache::get` of a key that was never set makes
such a node through `operator[]`; `update` of it follows the pointer unless the list is
empty, and `set` and `remove` of it always do. These are the `...Crashes` actions: the process dies, its
directory stays, and it may register again under a new id (`CdnStart`).

*Sizes.* `managing_files` tests what `get_size_of_storage` measures. For files in
the storage directory itself that is their size; for files in a subdirectory `stat` is called
with the bare name, fails, and the size of the entry before is counted again. The directory's own
entries add a constant, which is taken as part of `Capacity`.
`Measured` is therefore a constant of its own. In the runs it equals `Size`; `CapacityKept` assumes only
that no file is measured as smaller than it is (`MeasuredInFull`), which flat storage satisfies, and no
other theorem relies on what it is.

*Refusals.* The FSS answers a POST with an error only when its handler throws;
`UploadRefused` may happen at any upload. `CDN_Node::path_maker` returns a pointer into a
local array; it is taken to work.

*Failures.* `CallThrows` lets a call fail before it takes effect. A call that took
effect and whose answer was lost is the same for the rest of the system as one that
succeeded and was followed by a failure of the next call. A process that dies fails
all calls to it.

*Ids.* Ids count from 1 here (0 is "not registered") and from 0 in the code. A CDN
that restarts gets a new id while the old one stays mapped to its address, as in
`registerCdn`. The invalidation loop iterates over the map while a registration may insert into it:
the loop may or may not come to the new id. That a rehash invalidates the iterator
is undefined behaviour and not modelled.

### CdnDirectory

    CDN      off -> mapped -> taken -> up     (Enter, Take, Bump; a CDN that starts again enters again)
    handler  idle -> loop -> done | failed    (BeginUpdate, Invalidate, Finish | Unreachable)

| actions | code |
|---|---|
| `Enter`, `Take`, `Bump`, `RegisterFss` | `MetaCDNReceiver::handle_register`, `MetaServer::registerCdn`, `setFssAddr` |
| `UploadEntry`, `DownloadEntry` with `Closest`, `CloserThanFss`, `Chosen`, `Answer` | one entry of `processListFromOriginUpload`, `processListFromOriginDownload`; `getClosestCDN`, `isCDN_closerThanFSS` |
| `BeginUpdate`, `Invalidate`, `Unreachable`, `Finish` | the loop of `MetaCDNReceiver::handle_update` |
| `Advertise`, `Report` | `handle_update` (type 0), `MetaCDNReceiver::handle_delete` |
| `RestartMeta` | the constructor of `MetaServer` |

`registerCdn` reads `m_nextCDNId` twice and writes it once, and the thread of another registration may run in
between: three steps. `addrOf` is `m_cdnIdToAddrMap`; what inserts a key of its own into it is either a registration or
`operator[]` with the id -1, which `getClosestCDN` returns when there is no CDN (`Answer`). A loop that is under way may or may
not come to a key that is inserted (`Put`). Distances are a constant, any numbers; a pair in `Unmeasured` is one for which
`calculateDistance` rounds the cosine above 1 or below -1, so that `acos` is not a number and every comparison is false: the first such
distance is taken and nothing replaces it, and the order in which a list is gone through is not known, so `Closest` is the set of the
ids that may come out. Nothing is assumed about `Unmeasured`. It happens for places that are the same or opposite (evaluated in doubles,
a place and itself give a cosine above 1 for about one latitude in 26), so with the smallest distance as well as with
the largest. When no holder is found that is as near as the FSS, the code takes the nearest of all CDNs, those that have the file included.
`due[h]` records for the properties which CDNs were running
when a loop began and have not been called; `overlapped` whether two registrations have met.

### LruList and CdnDisk

`LruList` has the fields of `LRUCache`: the keys that are mapped to a node or to `NULL`, the pointers of each node, head
and tail. A node is named by its key. A call is one operator (`ListSet`, `ListGet`, `RemoveTail`, `ListRemove`), its
assignments in the order of the code; where the code follows a `NULL` node there is a `...Crashes` instead.

    GET   lookup -> [fetch -> fetching -> manage <-> evict ; open -> write ->] relookup -> load -> loading -> reply
    PUT   manage <-> evict ; open -> write -> post -> store            (post -> forget -> unlink if refused)
    DEL   forget -> unlink

| actions | code |
|---|---|
| `Start`, `Lookup`, `Relookup`, `Reply`, `PostRefused` | `handle_get`, `handle_put`, `handle_delete` of `CDNReceiver` |
| `Fetch`, `ReadBlock`, `ReadEnd` | `FSS::handle_get`, `get_file_contents`, `getFileFromFSS` |
| `Evict`, `RemoveVictim`, `Refuse`, `Track` | `CDN_Node::managing_files` |
| `OpenCopy`, `WriteBlock`, `WriteEnd` | `CDN_Node::write_file` |
| `Load`, `ReadBlock`, `ReadEnd` | `CDN_Node::load_file` |
| `Post`, `WriteBlock`, `WriteEnd` | `FSS::handle_post` |
| `Forget`, `RemoveFile` | `CDN_Node::delete_file` |
| `Crash`, `RacedCrash`, `Stop`, `Restart`, `DiskError` | following a `NULL` node, two threads in one `DIR`, the process, the disk |

A file is a name (`dir`) and an inode (`data`), because an `ofstream` cuts the inode that is there and a file whose name is removed stays
with those who have it open (`Reclaim`, `FreeInode`). `get_size_of_storage` sums up in a member of `CDN_Node` and keeps its `DIR` in
another: threads that are in it together (`raced`) find any size or die. `orderly` and `disturbed` record for the properties whether
handlers have overlapped or anything has failed, and which files had a write that met another access to its inode,
an error or the end of the process.

### MetaStore

`store[k][v]` is the version file `v` of table `k`: the set of its lines, or nothing
when there is no such file. A handler goes through the accesses another can see, in
the order of the code: test the table (`Test`); make the name of the old file, read the version,
write it back and read it again for the name of the new file (`Bump`: `NameOld`, `LoadVersion`, `SaveVersion`, `NameNew`, so
that bumps of two handlers can be lost or count twice); open the old file
and create the new one (`Open`, `OpenFails`), copy and close (`Rewrite`), look again
(`Recheck`) and append (`AppendLine`). `updateMetaEntry` and `updateTimeStamp` are one message, as in
`handle_update`. The lists computed for clients read the tables; the
only thing they change is that they create the current version file when there is none
(`ListForClient`). Lines that another handler has appended to a new file are overlaid by the
copy from the start: any of them may be left, and one that is covered in part belongs to
no file (`Uncovered`). A file is a set: no operation depends on the order of the lines or tells
a line from an identical one. `reply` is the answer; `"lost"` is a handler that
returns without one.

### ClientSync

    start -> asleep -> scan -> ask -> transfer <-> send -> record -> asleep
             (autoSync: download, first time only; sync; upload, if there are new files)

| actions | code |
|---|---|
| `Start`, `Finish`, `Stop`, `Wake` | `Client/main.cpp`, the beginning of `Client::autoSync` |
| `Scan` | `getListOfFilesFromDirectory`, `compareLocalFileLists` |
| `Ask`, `AskFails` | `compareListOfFiles_explicit`, `compareListOfFiles_sync`, the handlers of `OriginClientReceiver`, the lists of `MetaServer` |
| `Skip`, `Download`, `DownloadFails` | `downloadFile` |
| `Read`, `Send`, `SendFails` | `uploadFile`: reading the file, then hashing it again and sending it |
| `NextPass`, `Record` | the rest of `autoSync` and `syncExplicit` |
| `Edit`, `Delete` | a user, at any moment |

`pass[c]` is the call a client is in (`syncDownload`, the body of `autoSync`, `syncUpload`),
`seen[c]` the list of files it has made, with hashes and time stamps, and `first`,
`post`, `deleted`, `needs` the fields of `Client` and the local variable of `main`.
The storage side is one record per file: content (FSS), hash and time
stamp (Meta). They are three fields because `uploadFile` reads the content before it
computes the hash, and sends the stamp of the listing.

A content is the number of the act that made it, and stands for its hash; a file that is gone
has a hash of its own (`NoHash`: the empty string). So "older" in a property compares what users did,
and the model is free to disagree with it through time stamps, as the code is. `Coarse`
lets changes fall in the same second; a pass of `autoSync` begins at least ten seconds
after the last, so that the clock then differs from every stamp (`Wake`). The listing of a directory, and
a download with the write of the file, are one step each. The order of a list is free, downloads before uploads.

## 4. The runs

| run | instance | what it shows |
|---|---|---|
| `single` | 1 client, 2 CDNs, 3 files of size 1, 2, 3, capacity 2, 2 contents | eviction, refusal, upload and invalidation, no failures: types, tracker = directory, capacity, Meta lists every copy, no answer lacks its content |
| `private` | 2 clients with a file each, 2 CDNs, capacity for one of them | the clients evict each other's copies: no stale copy of a file at rest, answers are what is stored |
| `shared` | 1 uploader, 2 readers of one file, 2 CDNs, 3 registrations, 1 failure | Meta never lists what the FSS lacks; Meta = FSS while nothing failed; Meta is used as `MetaTable` |
| `live` | 2 clients, 1 CDN, 3 registrations, 2 failures | every request is answered |
| `meta_serial` | 1 handler, 2 files, 2 contents, 2 CDNs, ring of 2, 1 restart at any moment | until the restart the version files implement `MetaTable` and uploads stay listed; after it as well, types, one line per file, CDNs listed once, all answered |
| `directory` | 2 CDNs, 3 registrations, 3 places, 1 loop, 1 restart of Meta | ids, listed ids, loops and the choice of a CDN, with registrations, lists and a loop at any moment |
| `storage` | 2 threads, 2 files, contents of 1 and 2 blocks, capacity 2, 1 fault | the tracker's pointers and order, whole contents, and an exact storage as long as handlers do not overlap |
| `client_one` | 1 client, 2 files, 5 acts of the user, 1 failure, several changes in a second | nothing older is uploaded, only a copy with the recorded stamp is downloaded over, deleted files stay deleted, client and server come to agree |

The other runs each find one sentence of the documentation violated by what the
code does; `PROJECT.json` quotes it.

| run | violated | how |
|---|---|---|
| `stale` | `Coherent` with a shared file | a GET fetches the old content, an upload and its invalidation pass, the GET writes the old content: it stays until the next upload or eviction |
| `phantom` | `EveryListedHolds` | one client, no failures: files are evicted for one that can never fit, and Meta is not told |
| `meta_lost` | `RecordedStaysListed` | a handler of Meta bumps the version, another appends its new entry to the file of that version, the first creates the file anew: an acknowledged upload is missing from the list |
| `poisoned` | `InvalidationSent` | a client asks for its upload list before a CDN has registered: an empty address is in the map from then on, and a loop that comes to it stops before it has reached the others |

`meta_serial`/`meta_lost` and `private`/`stale` are pairs: the second shows that the condition under which the first
holds is needed. The same can be seen of the others with configurations that are kept beside the runs and
give more clients or handlers to a property of the table above; TLC finds each of these violated.

| configuration | violated | how |
|---|---|---|
| `MCContentGarbage.cfg` | `ContentServed` with two clients | a copy is evicted between the look-up of a GET and `load_file`: the error text is the answer, with status OK |
| `MCContentCrossed.cfg` | `MetaMatchesFss` with two uploaders | the FSS stores two contents of a file in one order, Meta records them in the other |
| `MCContentOverfull.cfg` | `StorageWithinCapacity` with two clients | both measure before either has written |
| `MCContentUnlisted.cfg` | `EveryCopyListed` with a shared file | a message about a copy comes to Meta after another request has changed the copy or the entry |
| `MCMetaUnanswered.cfg` | `EveryMessageAnswered` with two handlers | one looks for the file of a version the other has announced and not created yet, or finds the entry the other has just added |
| `MCClientOlder.cfg` | `UploadsNotOlder` with two clients | a copy downloaded after the other client's edit, and before it arrives, counts as more recent than the edit |

`MCClientFine.cfg` is `client_one` where no two changes fall in one second: `OwnFilesKept` then has no exception, and holds.

### Bounds, and why they are enough

* *Two CDNs*: one that acts and one that is invalidated. A third is like the
  second: the loop visits each independently. *Two slots*: every race found or excluded is between two
  requests. The theorems cover any number of either.
* *Files of size 1, 2 and 3 for a capacity of 2* (`single`): two that exclude each other, so
  that each evicts the other, and one that can never fit. *Two contents*: old and new.
* `MaxIds` bounds registrations: one per CDN, or one more so that a CDN can come back
  under a second id. `MaxFaults` bounds stops and failed calls; crashes that the code
  causes itself are counted in `faults` and not bounded.
* *Ring of 2* with one handler makes every operation wrap around; *ring of 3* with two handlers (`meta_lost`)
  lets both be in flight at different versions. The code has ten. One restart may come at any step of a
  handler; a second begins like the first, over whatever files there are.
* *Directory*: three ids let one CDN register twice, or two at the same time and one of them again. `p1` is next to one
  CDN, so near that the distance is not a number, and nearer to the other than to the FSS; `p2` is opposite the first
  CDN, so that the largest distance is not a number; from `p3` both CDNs are farther than the FSS, and from `p2` the
  default address is nearest: every branch of the choice is taken. One loop, against two registrations and lists; the theorems cover any number of
  loops. `MaxIds` above 13 would stand for a map that rehashes.
* *Storage*: capacity for one file of the two, so that each new one evicts; a content of two blocks, so
  that there is a middle; one thread that uploads against one that does anything. The requests of a thread are a
  constant (`Jobs`) to keep the run within minutes; they repeat without bound. One fault is a disk error or a stop and restart;
  crashes the code causes itself are not bounded.
* *Five acts* (`client_one`): starting the client, creating, changing, deleting a file and creating it
  again; or two commands and three changes. Properties of one client do not depend on how many passes
  have gone before, and passes are not bounded. *Two files*, because passes
  transfer several files and users act in between.
* Symmetry is used for CDNs and contents, handlers and contents, in runs
  whose properties and specifications do not tell them apart; not in the liveness run.
* `CHECK_DEADLOCK FALSE` where all CDNs may have stopped and used up
  their registrations, or where no CDN may come back: then the system really stops.

## 5. Fairness

`FairSpec` adds weak fairness of `Step(r)` for each request and nothing else: a
handler that has started is a thread that runs, and calls return or throw. Clients
need not send anything, a CDN that has died need not be started again, and nothing
is sure to fail. `RequestAnswered` then means that no chain of calls is stuck: in
particular that the invalidation loop ends when a CDN in it dies, has restarted
under another id or crashes while it handles the delete. Each request has a thread of its own here: that all threads of Meta
wait for deletes that wait for a thread of Meta is not covered.

`ClientSync` assumes weak fairness of `Step(c)`: a running client takes its next step,
sleeping included. Users need do nothing, failures are not sure to happen, and since acts and failures are bounded both
cease in the end, which is when `Converges` says something.

## 6. The proofs

All are checked by TLAPS for every value of the constants that meets the
assumptions of the modules: sizes and the capacity are numbers, slots read and write sets
of files, the markers are no contents, the ring has at least two
versions, the keys of `LruList` and the threads of `CdnDisk` are finitely many; distances are numbers, and which of them the code fails to compute is arbitrary.
`OneSlot` and `OneHandler` say that there is one request, or one handler of Meta, at a time: what a single client
gives, and what the runs `single` and `meta_serial` check; section 7 says what happens without them.

| theorem | statement |
|---|---|
| `TypeCorrect`, `TypesHold` | `Spec => []TypeInv`, `Spec => []TypeOK` |
| `ListedFilesAreStored` | `Spec => []NoDanglingEntry` |
| `MetaFollowsFss` | `SingleWriters /\ Spec => []MetaMatchesFss` |
| `NoStaleCopies` | `PrivateFiles /\ Spec => []Coherent` |
| `AnswersAreStored` | `PrivateFiles /\ Spec => []ServedIsStored` |
| `TrackerFollowsDisk`, `ServedIsContent`, `CopiesAreListed` | `OneSlot /\ Spec => []TrackerExact`, `[]ContentServed`, `[]EveryCopyListed` |
| `CapacityKept` | `OneSlot /\ MeasuredInFull /\ Spec => []StorageWithinCapacity` |
| `RequestsUseTable` | `Spec => UsesTable`, the refinement of `MetaTable` |
| `LinesStayDistinct`, `StoreTyped`, `CdnsListedOnce` | `Spec => []AllLinesDistinct`, `[]TypeOK`, `[]OneEntryPerCdn` of `MetaStore` |
| `SerialHolds`, `MessagesAnswered`, `FilesListedOnce`, `RecordedStays` | `OneHandler /\ Spec => []SerialInv`, `[]EveryMessageAnswered`, `[]OneLinePerFile`, `[]RecordedStaysListed` of `MetaStore` |
| `StoreIsTable` | `OneHandler /\ Spec => ImplementsTable`, the refinement of `MetaTable` by `MetaStore` |
| `DirectoryTyped`, `DirectoryIds`, `DirectoryHolders`, `DirectoryLoops`, `DirectoryNearest` | `Spec => []TypeOK`, `[]IdsExact`, `[]HoldersRegistered`, `[]LoopsReachAll`, `[]NearestChosen` of `CdnDirectory` |
| `DiskWellFormed`, `DiskImplementsOrder` | `Spec => []WellFormed`, `Spec => ImplementsOrder` of `CdnDisk` |
| `DiskTypes`, `DiskWhole`, `DiskOrderly` | `Spec => []TypeOK`, `[]WholeContents`, `[]OrderlyExact` of `CdnDisk` |
| `ClientTypesHold`, `DeletedStayDeleted` | `Spec => []TypeOK`, `Spec => NoResurrection` of `ClientSync` |
| `LoneUploadsNotOlder`, `LoneFilesKept` | `LoneClient /\ Spec => UploadsNotOlder`, `=> OwnFilesKept` |

*Types.* `TypeOK` is not inductive: that `addr[req[r].self]` is a CDN needs
`Registered`, which says that requests, loops and running CDNs only use ids that have
been given out, that a slot keeps to its files, and what each step carries. `TypeInv` is both.

*Meta and the FSS.* `NoDanglingEntry` needs that an upload that has come to Meta has
passed the FSS (`StoredFirst`); it holds with crashes and failures. `MetaMatchesFss` needs `MetaInv`:
hash and time stamp may lag only while a request is between the FSS and the time
stamp, and what that request carries is what the FSS stores. With two uploaders of one file the
last conjunct fails, and so does the property.

*No stale copies.* `CacheInv` says what is true in the middle of an upload: the copy of the
uploading CDN may be new before the FSS has the content, then every other
CDN may be old, then only those the loop has still to visit (`Exempt`). That a
fetched content is still the stored one when it is written (`BodyInv`) needs that no other slot
uploads the file, hence `PrivateFiles`; `stale` is the run without it.
These results are for behaviours without failures so far (`faults = 0`): a CDN
that dies can break the loop and leave stale copies, section 7.

*One request at a time.* Four invariants of `ContentInvariants`, none of which survives a second slot.
`TrackerInv` adds to `TrackerExact` that no key is twice in the list, so that removing the tail leaves no second occurrence
behind. `ServedInv`: between `Relookup` and `Load` the file is on the disk, since the one request that
could evict it is the one that reads it. `ListingInv`: a copy that Meta does not list is the requesting CDN's
own until its message arrives, or one that the invalidation loop has still to visit (`Unlisted`), and the
files whose listing is about to be taken away are gone. `RoomInv`: from `Manage` to `WriteCopy` there is room for the
file with everything else. A second slot could evict, write or report in each of those gaps. `CapacityKept` and
`ServedIsContent` hold with crashes and failures, the other two until the first. Sizes are sums over finite sets; what is needed of them
(a sum over a larger set is larger, an element adds its size) is in `SequenceLemmas`, by a set of least
cardinality for which it would fail instead of an induction theorem.

*Refinement.* Each action that changes `hash`, `stamp` or `holders` is one
operation of `MetaTable` on a file and an id in `1..MaxIds`; all others stutter.

*Version files.* `OneEntryPerCdn` is about the current file; the invariant is about every file, since any
of them can become current after a bump, a wrap or a restart. `WithCdn` keeps a list
free of repetitions because it looks first, `WithoutCdn` because `RemoveFirst` keeps
the order of the rest; the lemma about it unfolds the library's definitions.

*One handler of Meta.* `SerialInv` says what the handler may rely on: while it bumps, `from` is the current version and then the one before; between the bump and the copy, `to` is the
current version and `from` another, which needs a ring of two; for an upload, the file it bumps from exists, because the
test before found it, which is why every upload is answered; between the copy and the append
the current file is the old one without the line of the file. Every version file has one line for a
file, not only the current one, since a restart may make any of them current. `FirstInv` is for the time before the first
restart: a version file that is missing then is one of a table that has never had a line. The table the
files stand for is that of `from` while a change is under way (`Effective`), and every step keeps it, edits a line by a copy, or replaces
the line of an upload: `Keeps`, `Edits` and `Adds` are mapped to the operations of `MetaTable`.
After a restart the change under way is neither undone nor completed, and the tables go back to an old file: `ImplementsTable` ends there.

*The map of CDNs.* The invariant of `DirectoryProofs` says what an id stands for while its CDN registers: until it is
bumped, the next id is in the map with the address of the one CDN that is registering, and all ids below it stay as they are. A loop still has
in `todo` an id of every CDN in `due`; an insertion only adds to `todo`, so nobody is lost. `NearestChosen` needs
no invariant but the types: it is about `Chosen` in every state, and follows from what `Closest` returns (`ClosestNear`) for any set
of distances that are not numbers.

*The tracker.* `WellFormed` says that there is an order of the mapped nodes which head, tail, next and prev spell out. The
lemmas `ShapeCut` and `ShapeAdd` show that taking a node out and putting one in front turn such an order into the expected one, on functions over
`1..n`; `update` is both in turn. The order is unique (the keys are distinct and next determines the rest), which is what makes
the refinement mapping `ListOrder`, a `CHOOSE`, the same before and after. Every action of `CdnDisk`
is one call of the tracker, a reset, or leaves it alone.

*Disk.* That there is always an inode for a new file is a pigeonhole argument: there are as many inodes as names and
threads, and a thread that creates a file has none open. `WholeContents` needs that no two names have one inode and that a thread has its own file open, even if the
name is gone since (`HandleInv`); that who writes an inode is alone with it unless the file is `disturbed`
(`AloneInv`); and that what was read is a prefix of what is read, what was written a prefix of what is carried
(`ThreadInv`). Steps that leave the inodes alone are dealt with together; those that open, read and write are a lemma each.
`OrderlyExact` is about states between requests. Within one, `OrderlyAt` says how far the handler has got: by which file the tracker is ahead of
the directory or behind it, that there is room for the copy that is being written, and which file is not yet what the FSS
has. Room is the cardinality of the set of blocks, so that bounds follow from the library's facts on finite sets.

*Clients.* `NoResurrection` needs `Remembers`: once a pass has listed the directory, what is missing from it and was
in the last list is in `deleted`; before the end of the first pass there is no last list, which is why
`needs` must be false until then. For a lone client `LoneInv` says that its directory is at least as recent as the
server, in content and in time stamp, and its list as well when the Origin answers. `OwnFilesKept` needs more, since a copy that differs from
the record with an equal stamp would be downloaded over: `Stamped` says that, when no two changes share a second, a copy that
has the recorded stamp is the recorded content; so what differs is later and is uploaded. Where stamps are whole seconds
this fails, which is the exception in `OwnFilesKept`. With two clients both properties fail (section 7).

Only model-checked: the liveness properties `RequestAnswered` and `Converges`, since TLAPS has no rules for `ENABLED`. Every invariant,
every action property and every refinement that a passing run checks is also a theorem. No theorem relies on a recursive operator.

## 7. What the code does that is worth knowing

Besides the violation runs, from writing the model:

* *The error text as content*. With two clients a copy may be evicted or invalidated between the look-up of
  `handle_get` and `load_file`: the text "Can't load the file" (`CDN_Node.cpp:199`) is sent with status OK, and
  the client takes it for the content. `single` shows that one client never gets it.
* *The time of a download*. A copy is as new as its download: if a client downloads a content after another client has
  edited the file and before that edit has arrived, its copy has a later time stamp than the edit, counts as "more recent" (`MetaServer.cpp:530`) and is uploaded over it.
  `LoneUploadsNotOlder` is the theorem for one client.
* *Holders*. An entry and the copies are brought together by two messages, after the write and after the eviction. Another request
  for the file in between, an upload or a fetch by a second client, makes the later message undo the wrong one: copies that are
  not listed, and listed CDNs without a copy. `EveryCopyListed` is stated for one request at a time.
* *Two uploaders of one file*. The FSS may store A then B while Meta records B then A:
  hash and time stamp are those of a content nobody has until the next upload.
  `MetaMatchesFss` is stated for one uploader.
* *Dirty reads.* The copy is on the CDN before it is at the FSS: a GET on the same
  CDN by another client returns it, and the FSS may then refuse it.
* *Capacity*. Two requests measure before either has written; together they
  exceed the capacity, until the next eviction. `StorageWithinCapacity` is stated for one request at a time.
* *Own invalidation.* After a restart a CDN is listed under two ids; the loop of its own
  upload skips the new one and deletes its copy under the old one.
* *Unreachable CDNs.* The first CDN that cannot be reached ends the loop: CDNs after
  it keep their old copies, and serve them.
* *Restart of Meta.* The version starts at 0 again: the tables go back to whatever
  `_v0` last held. The map is empty and ids start at 0 again as well: no CDN and no FSS registers
  again by itself, entries list ids that mean nobody, and a CDN that goes on running under an id that is given out
  anew is skipped by the loop of the CDN that got it. `IdsExact` and what follows from it are stated for one run of Meta.
* *Overlapping registrations*. Two CDNs that start together may be given the same id, or one the id under which the
  other's address is: `registerCdn` reads `m_nextCDNId` twice. Lists then send clients to the wrong CDN and a loop skips one.
* *Registration in the middle of a loop.* A CDN is in the map before it listens: a loop that comes to it then is ended by the
  exception, as by an unreachable one, and the uploading CDN gets no answer but an error.
* *Places that cannot be measured.* A client at the very place of a CDN may have a distance that is not a number: then
  the CDN that has the file and is next door is passed over for the nearest of all, or one that is next door is chosen although it does not have the file.
  A client at the opposite place may have one too, and the farthest CDN is chosen when it comes first in the list, since no
  comparison with its distance succeeds. `NearestChosen` says what is left: every CDN that is chosen at a distance that is a number is the nearest holder, or the nearest of all.
* *The fallback*. When all holders are farther than the FSS, README.md:21 sends the client to the closest CDN without the file; the
  code to the closest of all, which may be one of those holders.
* *Disks*. A GET that reads a file while an upload writes it gets a part, with status OK, and a part that was read from the FSS is then
  cached; two uploads of one file mix their blocks. A disk that is full at the FSS is not noticed (`fss.cpp:149`): the upload is
  announced and every reader gets what was stored. A CDN that stops while it writes serves the part after
  it has started again. `WholeContents` excepts these files (`disturbed`) and no others.
* *Between tracker and directory.* An eviction takes a file from the tracker before it removes it. A GET in between
  finds the copy, and `LRUCache::get` makes a NULL node, or follows it and kills the CDN; a PUT in between has its
  new copy removed, or tracks a file that is gone. Measuring is not safe either: `size_of_storage` and `dir` are members, so two
  handlers that measure at the same time evict too much, too little, or crash.
* *Unanswered updates*. When a handler of Meta bumps past a version file that does not exist yet,
  `updateMetaEntry` of a second one fails and `handle_update` returns without `message.reply`, although
  `MetaCDNReceiver.cpp:71` says "Response: status OK or Forbidden". `meta_serial` shows that one handler always answers.
* *Edits within a second*. A copy whose time stamp equals the recorded one counts as older: an edit in the second in which
  the file was listed for its upload is downloaded over by the next pass. `OwnFilesKept` says that a client that is alone is told
  to download over a copy it has listed in no other way, and never where stamps differ.
* *Edits after the listing.* With two clients a file that the other has changed is on the list of downloads; what the user writes to it
  between the listing and the download is lost.
* *Read, then hashed.* An edit between reading and hashing leaves the FSS with the old content under the hash of the
  new: the client never sends the new one, since the hashes agree. `Converges` is about hashes for this reason.
* *Deleted while listed.* A file deleted between listing and upload is uploaded as an empty one.
* *Forgotten files.* A file created while a pass runs, or whose upload fails, is taken for synchronised
  (`client.cpp:174`) and not uploaded; a file once noted as deleted is not transferred again while the client runs;
  a client that starts downloads every file that differs, over newer local copies.
* *Explicit uploads.* `syncUpload` sends every file that differs, also one the server has a later version of;
  `autoSync` calls it whenever there is a new file.
* *Untracked copies.* A CDN that restarts over copies does not track them: they are never evicted,
  and reading one kills the process once the tracker is not empty.

## 8. What is not modelled

Data races inside the tracker, Meta's map of CDNs and the version counters, beyond the order of their
reads and writes; exhaustion of thread pools, and with it all threads of Meta waiting for handlers of CDNs that wait for
a thread of Meta; reads that fail. Type 2 of `handle_update` (`sendNewFileMsgToMeta`)
and `unregisterCdn` are never called. Prefetching (README.md:28) is not in the
code. The formula of `calculateDistance` and the places are constants; how a CDN or a client finds its own place
(`ipToLatLng`, `get_gps_info`) is a request to a web service and a table look-up. `CdnDisk` has no Meta, and `CdnDirectory` no copies: what they find
is not fed back into `ContentNetwork`. `ClientSync` takes requests as atomic and CDNs as coherent: what `ContentNetwork`
finds about stale copies is not fed into it. Hashing, encryption, the CSV reader and the location tables are pure
functions or data: a content stands for its hash and its time stamp.

## 9. The plan

Done: `ContentNetwork`, its properties and invariants, `MetaTable`, `MetaStore`, `ClientSync`,
`CdnDirectory`, `LruOrder`, `LruList`, `CdnDisk`, and the proofs above. Next, in this order:

1. What the liveness properties rest on and does not need `ENABLED`: that the number of steps a request has left
   decreases with each of its steps, unless it starts again; that a request that runs has a step that it can take.
2. `SharedDirectory`: an abstract directory in which each file has one content, which `ClientSync`
   implements for one client.
3. `MetaThreads`: thread pools of fixed size and the nested calls of `handle_update` with their time-outs,
   for the deadlock at `Meta/MetaCDNReceiver.cpp:106`.
