------------------------- MODULE ContentProperties -------------------------
(***************************************************************************)
(* What the composed system of ContentNetwork is meant to guarantee, and   *)
(* under which use of it.  The code takes no lock and keeps no version of  *)
(* a copy, so most guarantees depend on who uses a file at the same time:  *)
(* the conditions are stated here once, over the constants.                *)
(***************************************************************************)
EXTENDS ContentNetwork

\* Each file is used by one client slot: README.md:38, "the files will only
\* be readable by the client who uploaded them", and one client has "a single
\* file request outstanding at once".
PrivateFiles ==
  \A r, s \in Reqs : r # s => (Reads[r] \cup Writes[r]) \cap (Reads[s] \cup Writes[s]) = {}

\* Each file is uploaded by one client slot, and read by any.
SingleWriters == \A r, s \in Reqs : r # s => Writes[r] \cap Writes[s] = {}

\* No file is counted with less than its size, as it may be if get_size_of_storage
\* stats it in another directory.
MeasuredInFull == \A f \in Files : Measured[f] >= Size[f]

\* One request at a time.
OneSlot == \A r, s \in Reqs : r = s

Active(r)      == pc[r] \notin Final
Quiet(f)       == \A r \in Reqs : Active(r) => FileOf(r) # f
NoUpload(f)    == \A r \in Reqs : Active(r) /\ req[r].op = "put" => FileOf(r) # f
NothingRunning == \A r \in Reqs : ~Active(r)

-----------------------------------------------------------------------------
\* A file that Meta lists can be fetched from the FSS, whatever crashes and
\* fails: handle_put stores the file before it tells Meta.
NoDanglingEntry ==
  \A f \in Files : hash[f] # Absent \/ stamp[f] # Absent => fss[f] # Absent

\* While nothing has crashed and no call has failed, and no upload of the file
\* runs, Meta's hash and time stamp are those of the content the FSS stores:
\* a client that compares with Meta neither misses a change nor loops.
MetaMatchesFss ==
  faults = 0 => \A f \in Files : NoUpload(f) => hash[f] = fss[f] /\ stamp[f] = fss[f]

\* While nothing has crashed and no call has failed, every cached copy of a
\* file that no request is using equals the content the FSS stores: the
\* invalidation loop of handle_update leaves no stale copy behind.
Coherent ==
  faults = 0 => \A f \in Files, c \in Cdns : Quiet(f) => disk[c][f] \in {Absent, fss[f]}

\* A request that was answered with OK has uploaded or returned the content
\* the FSS stores (or, for a GET that lost its copy to an eviction, Garbage).
ServedIsStored ==
  faults = 0 => \A r \in Reqs :
    pc[r] = "ok" => body[r] \in {fss[FileOf(r)]}
                                \cup (IF req[r].op = "get" THEN {Garbage} ELSE {})

\* An OK answer carries the contents of the file: CDN_Node.cpp:186, "Return
\* contents of file".
ContentServed == \A r \in Reqs : pc[r] = "ok" => body[r] # Garbage

\* Between requests, Meta lists every CDN that has a copy ("inform Meta Server
\* with the up-to-date list of files they have", README.md:26): no client is
\* sent past a copy that is there.
EveryCopyListed ==
  faults = 0 /\ NothingRunning =>
    \A c \in Cdns, f \in Files : disk[c][f] # Absent => myId[c] \in holders[f]

\* Between requests, every CDN that Meta lists has a copy (README.md:26).
EveryListedHolds ==
  faults = 0 /\ NothingRunning =>
    \A f \in Files : \A d \in holders[f] : disk[addr[d]][f] # Absent

\* The tracker knows exactly the files on the disk, but for those a request
\* has made room for and not yet written: what is not tracked is never
\* evicted, and crashes the CDN when it is read.
TrackerExact ==
  faults = 0 => \A c \in Cdns :
    /\ nulls[c] = {}
    /\ Tracked(c) = OnDisk(c) \cup
         {FileOf(r) : r \in {x \in Reqs : pc[x] = "write" /\ CdnOf(x) = c}}

\* The eviction loop keeps the storage within its capacity.
StorageWithinCapacity ==
  \A c \in Cdns : SumFunctionOnSet(Size, OnDisk(c)) <= Capacity

\* Meta as the requests see it.
Table == INSTANCE MetaTable WITH Contents <- Versions, Ids <- 1..MaxIds

\* Whatever crashes or fails, the requests use Meta as the table of MetaTable:
\* each of their messages is one of its operations, on an id it has given out.
UsesTable == Table!Spec

\* Every request that starts is answered, with an error at worst.
RequestAnswered == \A r \in Reqs : Active(r) ~> ~Active(r)

=============================================================================
