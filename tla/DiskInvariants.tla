-------------------------- MODULE DiskInvariants --------------------------
(***************************************************************************)
(* The inductive invariants behind the properties of CdnDisk: who has what *)
(* open, and what is known of a content that is half read or half written. *)
(***************************************************************************)
EXTENDS CdnDisk

\* Where a thread has a file open, and where it carries a content to store.
Holding  == {"fetching", "loading", "write", "store"}
Carrying == {"manage", "raced", "evict", "open", "write", "post", "store"}

\* What a thread that carries a content has is one that can be written.
GotTyped ==
  \A t \in Threads : pc[t] \in Carrying \cup {"fetching"} => got[t] \in Seq(Versions \cup {Hole})

\* Who is in the middle of a file, and nobody else, has one open.
OpenInv == \A t \in Threads : fh[t] # None <=> pc[t] \in Holding

\* No two names have the same inode, and a thread that has a file open has the one
\* of its request, even if the name was removed since.
HandleInv ==
  /\ \A r, s \in Stores, f, g \in Files :
       dir[r][f] = dir[s][g] /\ dir[r][f] # None => r = s /\ f = g
  /\ \A t \in Threads, s \in Stores, f \in Files :
       fh[t] # None /\ dir[s][f] = fh[t] => f = FileOf(t)
  /\ \A t, u \in Threads : fh[t] # None /\ fh[t] = fh[u] => FileOf(t) = FileOf(u)

\* Who writes an inode is alone with it.
AloneInv ==
  \A t, u \in Threads : t # u /\ fh[t] = fh[u] /\ Writing(t) => FileOf(t) \in disturbed

\* What a thread has read is the beginning of what it reads, what it has written is
\* the beginning of what it carries, and the latter is whole.
ThreadInv(t) ==
  pc[t] # "idle" /\ FileOf(t) \notin disturbed =>
    /\ pc[t] \in Carrying => Whole(got[t])
    /\ pc[t] \in {"fetching", "loading"} =>
         /\ Whole(data[fh[t]]) /\ Len(got[t]) <= Len(data[fh[t]])
         /\ \A i \in 1..Len(got[t]) : got[t][i] = data[fh[t]][i]
    /\ Writing(t) => /\ pos[t] <= Len(got[t])
                     /\ data[fh[t]] = [i \in 1..pos[t] |-> got[t][i]]
    /\ pc[t] = "reply" => got[t] = <<Garbage>> \/ Whole(got[t])

NamesWhole ==
  \A s \in Stores, f \in Files \ disturbed :
    dir[s][f] # None /\ ~BeingWritten(dir[s][f]) => Whole(data[dir[s][f]])

ContentInv == NamesWhole /\ \A t \in Threads : ThreadInv(t)

-----------------------------------------------------------------------------
(* Handlers that never overlap.                                            *)

\* The blocks that the copies of some files take, in directories d with inodes x.
Blocked(F, d, x) == UNION {{f} \X DOMAIN x[d["cdn"][f]] : f \in F}
Space(F, d, x)   == Cardinality(Blocked(F, d, x))

\* The copies of some files are what the FSS has.
Exact(F, d, x) == \A f \in F : d["fss"][f] # None /\ x[d["cdn"][f]] = x[d["fss"][f]]

RestInv ==
  nodes = OnDisk /\ Space(OnDisk, dir, data) <= Capacity /\ Exact(OnDisk, dir, data)

\* How far the only handler has got: the tracker is behind the directory from
\* an eviction or a removal to its second half, ahead of it from the tracking of a
\* file to its creation, and the file it writes is not yet what the FSS has.
OrderlyAt(t) ==
  LET f == FileOf(t) IN
  /\ pc[t] # "raced"
  /\ nodes = CASE pc[t] = "evict"  -> OnDisk \ {victim[t]}
               [] pc[t] = "open"   -> OnDisk \cup {f}
               [] pc[t] = "unlink" -> OnDisk \ {f}
               [] OTHER            -> OnDisk
  /\ IF pc[t] \in {"open", "write"}
     THEN Space(OnDisk \ {f}, dir, data) + Len(got[t]) <= Capacity
     ELSE Space(OnDisk, dir, data) <= Capacity
  /\ Exact(IF pc[t] \in {"write", "post", "store", "forget", "unlink"} THEN OnDisk \ {f}
                                                                       ELSE OnDisk, dir, data)
  /\ pc[t] = "fetching" \/ (pc[t] \in {"manage", "evict", "open", "write"} /\ job[t].op # "put")
       => dir["fss"][f] # None
  /\ pc[t] = "fetching" => fh[t] = dir["fss"][f]
  /\ pc[t] \in {"manage", "evict", "open", "write"} /\ job[t].op # "put"
       => got[t] = data[dir["fss"][f]]
  /\ pc[t] = "write" => f \in OnDisk /\ fh[t] = dir["cdn"][f]
  /\ pc[t] = "store" => dir["fss"][f] # None /\ fh[t] = dir["fss"][f]
  /\ pc[t] \in {"post", "store"} => f \in OnDisk /\ data[dir["cdn"][f]] = got[t]

OrderlyInv ==
  orderly => /\ up /\ nulls = {} /\ disturbed = {}
             /\ \A t, u \in Threads : pc[t] # "idle" /\ pc[u] # "idle" => t = u
             /\ Idle => RestInv
             /\ \A t \in Threads : pc[t] # "idle" => OrderlyAt(t)

=============================================================================
