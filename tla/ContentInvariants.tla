------------------------- MODULE ContentInvariants -------------------------
(***************************************************************************)
(* The inductive invariants behind the properties of ContentProperties:    *)
(* what is true in the middle of a request, not only between requests.     *)
(***************************************************************************)
EXTENDS ContentProperties

\* Requests and loops only name CDNs that have registered, a request keeps to
\* the files of its slot, and what is being stored is a content.
Registered ==
  /\ \A c \in Cdns : up[c] => myId[c] \in DOMAIN addr /\ addr[myId[c]] = c
  /\ \A r \in Reqs : pc[r] # "idle" =>
       /\ req[r].self \in DOMAIN addr
       /\ req[r].file \in Files
       /\ \/ req[r].op = "get" /\ req[r].file \in Reads[r]
          \/ req[r].op = "put" /\ req[r].file \in Writes[r]
  /\ \A r \in Reqs : pc[r] \in {"update"} \cup MetaSteps => req[r].op = "put"
  /\ \A r \in Reqs : pc[r] \in {"lookup", "fetch", "relookup", "load"} => req[r].op = "get"
  /\ \A r \in Reqs : pc[r] \in {"manage", "write", "report", "update", "stamp"}
                       => body[r] \in Versions
  /\ \A r \in Reqs : targets[r] \subseteq DOMAIN addr
  /\ \A r \in Reqs : pc[r] = "revoke" => peer[r] \in DOMAIN addr

\* Type correctness, and what makes it inductive.
TypeInv == TypeOK /\ Registered

\* The FSS stores a file before Meta hears of it.
StoredFirst ==
  /\ NoDanglingEntry
  /\ \A r \in Reqs : pc[r] \in {"update", "stamp"} => fss[FileOf(r)] # Absent

\* While nothing has failed, the CDN of every id runs and still has that id.
Unbroken == faults = 0 => \A i \in DOMAIN addr : Alive(i)

\* Meta lags the FSS only between the upload of a content and the recording
\* of its hash and time stamp.
MetaInv ==
  faults = 0 =>
    /\ \A f \in Files :
         \/ hash[f] = fss[f] /\ stamp[f] = fss[f]
         \/ \E r \in Reqs : pc[r] \in {"update", "stamp"} /\ FileOf(r) = f
    /\ \A r \in Reqs : pc[r] \in {"update", "stamp"} => fss[FileOf(r)] = body[r]
    /\ \A r \in Reqs : pc[r] = "stamp" => hash[FileOf(r)] = body[r]

\* The CDNs whose copy of the file may differ from what the FSS stores: the
\* uploading CDN before the upload, every other CDN after it, until the
\* invalidation loop has visited it.
Exempt(r) ==
  CASE pc[r] = "report" /\ req[r].op = "put" -> {CdnOf(r)}
    [] pc[r] \in {"update", "stamp"}         -> Cdns \ {CdnOf(r)}
    [] pc[r] \in {"invalidate", "revoke"}    -> {addr[d] : d \in targets[r]}
    [] OTHER                                 -> {}

\* What a request knows of the content it carries.
BodyInv(r) ==
  /\ pc[r] \in {"manage", "write", "report"} /\ req[r].op = "get" => body[r] = fss[FileOf(r)]
  /\ pc[r] = "report" /\ req[r].op = "put" => disk[CdnOf(r)][FileOf(r)] \in {Absent, body[r]}
  /\ pc[r] \in {"update"} \cup MetaSteps => body[r] = fss[FileOf(r)]
  /\ pc[r] = "ok" => \/ body[r] = fss[FileOf(r)]
                     \/ body[r] = Garbage /\ req[r].op = "get"

\* While nothing has failed, the only copies that differ from what the FSS
\* stores are those that a running upload is still going to deal with.
CacheInv ==
  faults = 0 =>
    /\ \A c \in Cdns, f \in Files :
         \/ disk[c][f] \in {Absent, fss[f]}
         \/ \E r \in Reqs : FileOf(r) = f /\ c \in Exempt(r)
    /\ \A c \in Cdns, f \in Files : ~up[c] => disk[c][f] = Absent
    /\ \A r \in Reqs : BodyInv(r)

-----------------------------------------------------------------------------
(* One request at a time.                                                  *)

\* No tracker lists a file twice, so that what is evicted is gone from it.
TrackerInv == /\ \A c \in Cdns : IsInjective(lru[c])
              /\ TrackerExact

\* A GET that has found a copy still has it, and what a PUT stored is what it
\* is answered for: Garbage is not a content.
ServedInv ==
  \A r \in Reqs : /\ pc[r] = "load" => FileOf(r) \in OnDisk(CdnOf(r))
                  /\ pc[r] \in {"invalidate", "revoke", "ok"} => body[r] \in Versions

\* The CDNs that Meta may not list for the file of a request: its own until Meta
\* is told, and after an upload the others, until the invalidation loop has
\* visited them.
Unlisted(r) ==
  CASE pc[r] \in {"report", "update"}     -> {CdnOf(r)}
    [] pc[r] = "stamp"                    -> Cdns \ {CdnOf(r)}
    [] pc[r] \in {"invalidate", "revoke"} -> {addr[d] : d \in targets[r]}
    [] OTHER                              -> {}

\* While nothing has failed, the only copies that Meta does not list are those
\* that the request is still going to deal with, and it takes no listing away
\* of a copy that is there.
ListingInv ==
  faults = 0 =>
    /\ \A c \in Cdns, f \in Files : disk[c][f] # Absent =>
         myId[c] \in holders[f] \/ \E r \in Reqs : FileOf(r) = f /\ c \in Unlisted(r)
    /\ \A r \in Reqs : pc[r] \in {"write", "report"} =>
         \A f \in ToSet(evicted[r]) : f = FileOf(r) \/ disk[CdnOf(r)][f] = Absent
    /\ \A r \in Reqs : pc[r] = "revoke" => disk[addr[peer[r]]][FileOf(r)] = Absent

\* The storage has room for the copy that is going to be written.
RoomInv ==
  \A c \in Cdns :
    /\ SumFunctionOnSet(Size, OnDisk(c)) <= Capacity
    /\ \A r \in Reqs : pc[r] = "write" /\ CdnOf(r) = c =>
         SumFunctionOnSet(Size, OnDisk(c) \cup {FileOf(r)}) <= Capacity

=============================================================================
