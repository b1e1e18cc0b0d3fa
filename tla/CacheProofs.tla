---------------------------- MODULE CacheProofs ----------------------------
(***************************************************************************)
(* The caches: when each file is used by one client slot and nothing has   *)
(* failed, no stale copy survives an upload and every OK answer carries    *)
(* the stored content, however the requests for different files interleave *)
(* and evict each other's copies.                                          *)
(***************************************************************************)
EXTENDS ContentProofs

USE DEF metaVars, nodeVars, cacheVars, callVars, Goto, Request, Final, CdnSteps, MetaSteps

\* With private files, two requests never use the same file.
LEMMA OneUser ==
  ASSUME TypeInv, PrivateFiles, NEW r \in Reqs, NEW s \in Reqs,
         pc[r] # "idle", pc[s] # "idle", FileOf(r) = FileOf(s)
  PROVE  r = s
BY DEF TypeInv, Registered, PrivateFiles, FileOf

\* A request is the only one that may exempt a CDN from holding the stored
\* content of its file.
LEMMA OwnCopies ==
  ASSUME TypeInv, PrivateFiles, CacheInv, faults = 0, NEW r \in Reqs, pc[r] # "idle"
  PROVE  \A c \in Cdns : \/ disk[c][FileOf(r)] \in {Absent, fss[FileOf(r)]}
                         \/ c \in Exempt(r)
<1>1. FileOf(r) \in Files
  BY DEF TypeInv, Registered, FileOf
<1>2. ASSUME NEW s \in Reqs, NEW c \in Exempt(s) PROVE pc[s] # "idle"
  BY <1>2 DEF Exempt
<1> QED BY <1>1, <1>2, OneUser DEF CacheInv

\* A step of request r that touches the copies and the stored content of its
\* own file only, but for erasing copies, keeps CacheInv if it keeps it for r.
LEMMA LocalStep ==
  ASSUME PrivateFiles, TypeInv, CacheInv, faults = 0, NEW r \in Reqs, pc[r] # "idle",
         UNCHANGED <<addr, up, req>>,
         \A s \in Reqs : s # r =>
           pc'[s] = pc[s] /\ body'[s] = body[s] /\ targets'[s] = targets[s],
         \A g \in Files : g # FileOf(r) =>
           /\ fss'[g] = fss[g]
           /\ \A c \in Cdns : disk'[c][g] \in {Absent, disk[c][g]},
         \A c \in Cdns : \/ disk'[c][FileOf(r)] \in {Absent, fss'[FileOf(r)]}
                         \/ c \in Exempt(r)',
         \A c \in Cdns : ~up[c] => disk'[c][FileOf(r)] = Absent,
         BodyInv(r)'
  PROVE  CacheInv'
<1>1. \A s \in Reqs : FileOf(s)' = FileOf(s) /\ CdnOf(s)' = CdnOf(s)
  BY DEF FileOf, CdnOf
<1>2. \A s \in Reqs : s # r => Exempt(s)' = Exempt(s)
  BY <1>1 DEF Exempt
<1>3. \A s \in Reqs : s # r /\ pc[s] # "idle" =>
        FileOf(s) # FileOf(r) /\ FileOf(s) \in Files /\ CdnOf(s) \in Cdns
  BY OneUser, AtCdn
<1>4. ASSUME NEW c \in Cdns, NEW g \in Files
      PROVE  \/ disk'[c][g] \in {Absent, fss'[g]}
             \/ \E s \in Reqs : FileOf(s)' = g /\ c \in Exempt(s)'
  <2>1. CASE g = FileOf(r)
    BY <1>1, <2>1
  <2>2. CASE g # FileOf(r)
    <3>1. \/ disk[c][g] \in {Absent, fss[g]}
          \/ \E s \in Reqs : FileOf(s) = g /\ c \in Exempt(s)
      BY DEF CacheInv
    <3>2. fss'[g] = fss[g] /\ disk'[c][g] \in {Absent, disk[c][g]}
      BY <2>2
    <3> QED BY <1>1, <1>2, <2>2, <3>1, <3>2
  <2> QED BY <2>1, <2>2
<1>5. ASSUME NEW c \in Cdns, NEW g \in Files, ~up'[c] PROVE disk'[c][g] = Absent
  <2>1. disk[c][g] = Absent
    BY <1>5 DEF CacheInv
  <2> QED BY <1>5, <2>1
<1>6. ASSUME NEW s \in Reqs, s # r PROVE BodyInv(s)'
  <2>1. BodyInv(s)
    BY DEF CacheInv
  <2>2. CASE pc[s] = "idle"
    BY <1>6, <2>2 DEF BodyInv
  <2>3. CASE pc[s] # "idle"
    <3>1. /\ pc'[s] = pc[s] /\ body'[s] = body[s] /\ req'[s] = req[s]
          /\ FileOf(s)' = FileOf(s) /\ CdnOf(s)' = CdnOf(s)
          /\ fss'[FileOf(s)] = fss[FileOf(s)]
          /\ disk'[CdnOf(s)][FileOf(s)] \in {Absent, disk[CdnOf(s)][FileOf(s)]}
      BY <1>1, <1>3, <1>6, <2>3
    <3> QED BY <2>1, <3>1 DEF BodyInv
  <2> QED BY <2>2, <2>3
<1> QED BY <1>4, <1>5, <1>6 DEF CacheInv

-----------------------------------------------------------------------------
\* The steps of a GET that touch no copy.
LEMMA CacheGet ==
  ASSUME PrivateFiles, TypeInv, CacheInv, faults = 0, NEW r \in Reqs, GetStep(r), faults' = 0
  PROVE  CacheInv'
<1> DEFINE c == CdnOf(r)  f == FileOf(r)
<1>1. pc[r] # "idle"
  BY DEF GetStep, Lookup, Fetch, Advertise, Relookup, Load, LoadCrashes, At
<1>2. c \in Cdns /\ f \in Files
  BY <1>1, AtCdn
<1>3. \A d \in Cdns : disk[d][f] \in {Absent, fss[f]} \/ d \in Exempt(r)
  BY <1>1, OwnCopies
<1>4. \A d \in Cdns : ~up[d] => disk[d][f] = Absent
  BY <1>2 DEF CacheInv
<1>5. BodyInv(r)
  BY DEF CacheInv
<1>6. ASSUME Lookup(r) \/ Fetch(r) \/ Advertise(r) \/ Relookup(r) \/ Load(r)
      PROVE  /\ UNCHANGED <<fss, disk, addr, up, req, targets>>
             /\ FileOf(r)' = f /\ CdnOf(r)' = c
             /\ \A s \in Reqs : s # r => pc'[s] = pc[s] /\ body'[s] = body[s]
  BY <1>6 DEF Lookup, Fetch, Advertise, Relookup, Load, CdnOf, FileOf, TypeInv, TypeOK
<1>7. ASSUME Exempt(r) = {}, UNCHANGED <<fss, disk>>,
             Lookup(r) \/ Fetch(r) \/ Advertise(r) \/ Relookup(r) \/ Load(r), BodyInv(r)'
      PROVE  CacheInv'
  <2>1. \A d \in Cdns : disk'[d][FileOf(r)] \in {Absent, fss'[FileOf(r)]}
    BY <1>3, <1>7
  <2>2. \A d \in Cdns : ~up[d] => disk'[d][FileOf(r)] = Absent
    BY <1>4, <1>7
  <2>3. UNCHANGED <<addr, up, req>>
    BY <1>6, <1>7
  <2>4. \A s \in Reqs : s # r =>
           pc'[s] = pc[s] /\ body'[s] = body[s] /\ targets'[s] = targets[s]
    BY <1>6, <1>7
  <2>5. \A g \in Files : g # FileOf(r) =>
           /\ fss'[g] = fss[g]
           /\ \A d \in Cdns : disk'[d][g] \in {Absent, disk[d][g]}
    BY <1>7
  <2> QED BY <1>1, <1>7, <2>1, <2>2, <2>3, <2>4, <2>5, LocalStep
<1>8. CASE Lookup(r)
  <2>1. pc[r] = "lookup" /\ pc'[r] \in {"relookup", "fetch"} /\ UNCHANGED <<fss, disk>>
    BY <1>8 DEF Lookup, At, TypeInv, TypeOK
  <2>2. Exempt(r) = {} /\ BodyInv(r)'
    BY <2>1 DEF Exempt, BodyInv
  <2> QED BY <1>7, <1>8, <2>1, <2>2
<1>9. CASE Fetch(r)
  <2>1. /\ pc[r] = "fetch" /\ UNCHANGED <<fss, disk>>
        /\ \/ pc'[r] = "notFound"
           \/ pc'[r] = "manage" /\ body'[r] = fss[f]
    BY <1>9 DEF Fetch, At, TypeInv, TypeOK
  <2>2. Exempt(r) = {} /\ BodyInv(r)'
    BY <1>6, <1>9, <2>1 DEF Exempt, BodyInv
  <2> QED BY <1>7, <1>9, <2>1, <2>2
<1>10. CASE Advertise(r)
  <2>1. pc[r] = "report" /\ req[r].op = "get" /\ pc'[r] = "relookup" /\ UNCHANGED <<fss, disk>>
    BY <1>10 DEF Advertise, At, TypeInv, TypeOK
  <2>2. Exempt(r) = {} /\ BodyInv(r)'
    BY <2>1 DEF Exempt, BodyInv
  <2> QED BY <1>7, <1>10, <2>1, <2>2
<1>11. CASE Relookup(r)
  <2>1. pc[r] = "relookup" /\ pc'[r] \in {"load", "notFound"} /\ UNCHANGED <<fss, disk>>
    BY <1>11 DEF Relookup, At, TypeInv, TypeOK
  <2>2. Exempt(r) = {} /\ BodyInv(r)'
    BY <2>1 DEF Exempt, BodyInv
  <2> QED BY <1>7, <1>11, <2>1, <2>2
<1>12. CASE Load(r)
  <2>1. pc[r] = "load" /\ pc'[r] = "ok" /\ UNCHANGED <<fss, disk, req>>
    BY <1>12 DEF Load, At, TypeInv, TypeOK
  <2>2. Exempt(r) = {} /\ req[r].op = "get"
    BY <2>1 DEF Exempt, TypeInv, Registered
  <2>3. \/ f \in OnDisk(c) /\ body'[r] = disk[c][f]
        \/ body'[r] = Garbage
    BY <1>12 DEF Load, TypeInv, TypeOK
  <2>4. body'[r] \in {fss[f], Garbage}
    BY <1>2, <1>3, <2>2, <2>3 DEF OnDisk
  <2>5. BodyInv(r)'
    BY <1>6, <1>12, <2>1, <2>2, <2>4 DEF BodyInv
  <2> QED BY <1>7, <1>12, <2>1, <2>2, <2>5
<1>13. CASE LoadCrashes(r)
  BY <1>13 DEF LoadCrashes, Crash
<1> QED BY <1>8, <1>9, <1>10, <1>11, <1>12, <1>13 DEF GetStep

\* Making room for a copy and writing it.
LEMMA CacheStore ==
  ASSUME PrivateFiles, TypeInv, CacheInv, faults = 0, NEW r \in Reqs, StoreStep(r), faults' = 0
  PROVE  CacheInv'
<1> DEFINE c == CdnOf(r)  f == FileOf(r)
<1>1. At(r, "manage") \/ At(r, "write") \/ At(r, "report")
  BY DEF StoreStep, Manage, ManageFails, ManageCrashes, WriteCopy, Report
<1>2. pc[r] \in {"manage", "write", "report"} /\ c \in Cdns /\ f \in Files /\ up[c]
  BY <1>1, AtCdn DEF At, Alive, CdnOf
<1>3. \A d \in Cdns : disk[d][f] \in {Absent, fss[f]} \/ d \in Exempt(r)
  BY <1>2, OwnCopies
<1>4. \A d \in Cdns : ~up[d] => disk[d][f] = Absent
  BY <1>2 DEF CacheInv
<1>5. BodyInv(r)
  BY DEF CacheInv
<1>6. ~ManageCrashes(r)
  BY DEF ManageCrashes, Crash
<1>7. /\ UNCHANGED <<fss, addr, up, req, body, targets>>
      /\ FileOf(r)' = f /\ CdnOf(r)' = c
      /\ \A s \in Reqs : s # r => pc'[s] = pc[s]
  BY <1>6 DEF StoreStep, Manage, ManageFails, WriteCopy, Report, CdnOf, FileOf, TypeInv, TypeOK
\* Erasing copies of any file is no harm.
<1>8. ASSUME \A d \in Cdns, g \in Files : disk'[d][g] \in {Absent, disk[d][g]},
             Exempt(r) \subseteq Exempt(r)', BodyInv(r)'
      PROVE  CacheInv'
  <2>1. \A d \in Cdns : disk'[d][FileOf(r)] \in {Absent, fss'[FileOf(r)]} \/ d \in Exempt(r)'
    BY <1>2, <1>3, <1>7, <1>8
  <2>2. \A d \in Cdns : ~up[d] => disk'[d][FileOf(r)] = Absent
    BY <1>2, <1>4, <1>8
  <2>3. \A g \in Files : g # FileOf(r) =>
          /\ fss'[g] = fss[g]
          /\ \A d \in Cdns : disk'[d][g] \in {Absent, disk[d][g]}
    BY <1>7, <1>8
  <2>4. \A s \in Reqs : s # r =>
           pc'[s] = pc[s] /\ body'[s] = body[s] /\ targets'[s] = targets[s]
    BY <1>7
  <2>5. pc[r] # "idle" /\ UNCHANGED <<addr, up, req>>
    BY <1>2, <1>7
  <2> QED BY <1>8, <2>1, <2>2, <2>3, <2>4, <2>5, LocalStep
<1>9. CASE Manage(r)
  <2>1. PICK k : disk' = [disk EXCEPT ![c] = Erase(disk[c], Gone(lru[c], k))]
    BY <1>9 DEF Manage
  <2>2. \A d \in Cdns, g \in Files : disk'[d][g] \in {Absent, disk[d][g]}
    BY <1>2, <2>1 DEF Erase, TypeInv, TypeOK
  <2>3. pc[r] = "manage" /\ pc'[r] = "write"
    BY <1>9 DEF Manage, At, TypeInv, TypeOK
  <2>4. Exempt(r) = {} /\ BodyInv(r)'
    BY <1>5, <1>7, <2>3 DEF Exempt, BodyInv
  <2> QED BY <1>8, <2>2, <2>4
<1>10. CASE ManageFails(r)
  <2>1. disk' = [disk EXCEPT ![c] = Erase(disk[c], Tracked(c))]
    BY <1>10 DEF ManageFails
  <2>2. \A d \in Cdns, g \in Files : disk'[d][g] \in {Absent, disk[d][g]}
    BY <1>2, <2>1 DEF Erase, TypeInv, TypeOK
  <2>3. pc[r] = "manage" /\ pc'[r] = "notFound"
    BY <1>10 DEF ManageFails, At, TypeInv, TypeOK
  <2>4. Exempt(r) = {} /\ BodyInv(r)'
    BY <2>3 DEF Exempt, BodyInv
  <2> QED BY <1>8, <2>2, <2>4
<1>11. CASE Report(r)
  <2>1. UNCHANGED <<disk, pc, req, addr>>
    BY <1>11 DEF Report
  <2>2. \A d \in Cdns, g \in Files : disk'[d][g] \in {Absent, disk[d][g]}
    BY <2>1
  <2>3. Exempt(r)' = Exempt(r)
    BY <1>7, <2>1 DEF Exempt
  <2>4. BodyInv(r)'
    BY <1>5, <1>7, <2>1 DEF BodyInv
  <2> QED BY <1>8, <2>2, <2>3, <2>4
<1>12. CASE WriteCopy(r)
  <2>1. /\ pc[r] = "write" /\ pc'[r] = "report"
        /\ disk' = [disk EXCEPT ![c] = [disk[c] EXCEPT ![f] = body[r]]]
    BY <1>12 DEF WriteCopy, At, TypeInv, TypeOK
  <2>2. /\ disk'[c][f] = body[r]
        /\ \A d \in Cdns, g \in Files : d # c \/ g # f => disk'[d][g] = disk[d][g]
    BY <1>2, <2>1 DEF TypeInv, TypeOK
  <2>3. req[r].op \in {"get", "put"} /\ Exempt(r) = {}
    BY <1>2, <2>1 DEF Exempt, TypeInv, Registered
  <2>4. CASE req[r].op = "get"
    <3>1. body[r] = fss[f]
      BY <1>5, <2>1, <2>4 DEF BodyInv
    <3> QED BY <1>7, <2>1, <2>2, <2>4, <3>1, <1>2, <1>3, <1>4, <2>3, LocalStep DEF BodyInv
  <2>5. CASE req[r].op = "put"
    <3>1. Exempt(r)' = {c}
      BY <1>7, <2>1, <2>5 DEF Exempt
    <3>2. BodyInv(r)'
      BY <1>7, <2>1, <2>2, <2>5 DEF BodyInv
    <3>3. \A d \in Cdns : disk'[d][FileOf(r)] \in {Absent, fss'[FileOf(r)]} \/ d \in Exempt(r)'
      BY <1>2, <1>3, <1>7, <2>2, <2>3, <3>1
    <3>4. \A d \in Cdns : ~up[d] => disk'[d][FileOf(r)] = Absent
      BY <1>2, <1>4, <2>2
    <3> QED BY <1>2, <1>7, <2>2, <3>2, <3>3, <3>4, LocalStep
  <2> QED BY <2>3, <2>4, <2>5
<1> QED BY <1>6, <1>9, <1>10, <1>11, <1>12 DEF StoreStep

\* Storing an upload, telling Meta, and the messages of the invalidation loop.
LEMMA CachePut ==
  ASSUME PrivateFiles, TypeInv, Unbroken, CacheInv, faults = 0,
         NEW r \in Reqs, PutStep(r), faults' = 0
  PROVE  CacheInv'
<1> DEFINE c == CdnOf(r)  f == FileOf(r)
<1>1. \/ pc[r] = "report" /\ req[r].op = "put"
      \/ pc[r] \in {"update"} \cup MetaSteps
  BY DEF PutStep, Upload, UploadRefused, RollbackCrashes, Update, Stamp,
         Revoke, RevokeLost, Reply, At
<1>2. c \in Cdns /\ f \in Files /\ req[r].op = "put" /\ pc[r] # "idle"
  BY <1>1, AtCdn DEF TypeInv, Registered
<1>3. \A d \in Cdns : disk[d][f] \in {Absent, fss[f]} \/ d \in Exempt(r)
  BY <1>2, OwnCopies
<1>4. \A d \in Cdns : ~up[d] => disk[d][f] = Absent
  BY <1>2 DEF CacheInv
<1>5. BodyInv(r)
  BY DEF CacheInv
<1>6. ~RollbackCrashes(r)
  BY DEF RollbackCrashes, Crash
<1>7. ~RevokeLost(r)
  BY DEF RevokeLost, Unbroken, TypeInv, Registered
<1>8. /\ UNCHANGED <<addr, up, myId, req, body>>
      /\ FileOf(r)' = f /\ CdnOf(r)' = c
      /\ \A s \in Reqs : s # r => pc'[s] = pc[s] /\ targets'[s] = targets[s]
  BY <1>6, <1>7 DEF PutStep, Upload, UploadRefused, Update, Stamp, Revoke, Reply,
                    DeleteFile, CdnOf, FileOf, TypeInv, TypeOK
<1>9. ASSUME UNCHANGED <<fss, disk>>, BodyInv(r)',
             \A d \in Exempt(r) \cap Cdns : d \in Exempt(r)' \/ disk[d][f] \in {Absent, fss[f]}
      PROVE  CacheInv'
  <2>1. \A d \in Cdns : disk'[d][FileOf(r)] \in {Absent, fss'[FileOf(r)]} \/ d \in Exempt(r)'
    BY <1>3, <1>9
  <2>2. \A d \in Cdns : ~up[d] => disk'[d][FileOf(r)] = Absent
    BY <1>4, <1>9
  <2> QED BY <1>2, <1>8, <1>9, <2>1, <2>2, LocalStep
<1>10. CASE Upload(r)
  <2>1. /\ pc[r] = "report" /\ pc'[r] = "update" /\ UNCHANGED disk
        /\ fss' = [fss EXCEPT ![f] = body[r]]
    BY <1>10 DEF Upload, At, TypeInv, TypeOK
  <2>2. Exempt(r)' = Cdns \ {c} /\ disk[c][f] \in {Absent, body[r]}
    BY <1>2, <1>5, <1>8, <2>1 DEF Exempt, BodyInv
  <2>3. fss'[f] = body[r] /\ \A g \in Files : g # f => fss'[g] = fss[g]
    BY <1>2, <2>1 DEF TypeInv, TypeOK
  <2>4. \A d \in Cdns : disk'[d][FileOf(r)] \in {Absent, fss'[FileOf(r)]} \/ d \in Exempt(r)'
    BY <2>1, <2>2, <2>3
  <2>5. BodyInv(r)'
    BY <1>8, <2>1, <2>3 DEF BodyInv
  <2>6. \A d \in Cdns : ~up[d] => disk'[d][FileOf(r)] = Absent
    BY <1>4, <2>1
  <2> QED BY <1>2, <1>8, <2>1, <2>3, <2>4, <2>5, <2>6, LocalStep
<1>11. CASE UploadRefused(r)
  <2>1. /\ pc[r] = "report" /\ pc'[r] = "notFound" /\ UNCHANGED fss
        /\ disk' = [disk EXCEPT ![c] = [disk[c] EXCEPT ![f] = Absent]]
    BY <1>11 DEF UploadRefused, DeleteFile, At, TypeInv, TypeOK
  <2>2. /\ disk'[c][f] = Absent
        /\ \A d \in Cdns, g \in Files : d # c \/ g # f => disk'[d][g] = disk[d][g]
    BY <1>2, <2>1 DEF TypeInv, TypeOK
  <2>3. Exempt(r) = {c} /\ BodyInv(r)'
    BY <1>2, <2>1 DEF Exempt, BodyInv
  <2>4. \A d \in Cdns : disk'[d][FileOf(r)] \in {Absent, fss'[FileOf(r)]} \/ d \in Exempt(r)'
    BY <1>2, <1>3, <2>1, <2>2, <2>3
  <2>5. \A d \in Cdns : ~up[d] => disk'[d][FileOf(r)] = Absent
    BY <1>2, <1>4, <2>2
  <2> QED BY <1>2, <1>8, <2>1, <2>2, <2>3, <2>4, <2>5, LocalStep
<1>12. CASE Update(r)
  <2>1. pc[r] = "update" /\ pc'[r] = "stamp" /\ UNCHANGED <<fss, disk>>
    BY <1>12 DEF Update, At, TypeInv, TypeOK
  <2>2. Exempt(r)' = Exempt(r)
    BY <1>8, <2>1 DEF Exempt
  <2>3. BodyInv(r)'
    BY <1>5, <1>8, <2>1 DEF BodyInv
  <2> QED BY <1>9, <2>1, <2>2, <2>3
<1>13. CASE Stamp(r)
  <2>1. /\ pc[r] = "stamp" /\ pc'[r] = "invalidate" /\ UNCHANGED <<fss, disk>>
        /\ targets'[r] = DOMAIN addr \ {req[r].self}
    BY <1>13 DEF Stamp, TypeInv, TypeOK
  <2>2. Exempt(r) = Cdns \ {c} /\ Exempt(r)' = {addr[i] : i \in DOMAIN addr \ {req[r].self}}
    BY <1>8, <2>1 DEF Exempt
  <2>3. BodyInv(r)'
    BY <1>5, <1>8, <2>1 DEF BodyInv
  <2>4. ASSUME NEW d \in Cdns \ {c}, up[d] PROVE d \in Exempt(r)'
    <3>1. myId[d] \in DOMAIN addr /\ addr[myId[d]] = d
      BY <2>4 DEF TypeInv, Registered
    <3>2. myId[d] # req[r].self
      BY <2>4, <3>1 DEF CdnOf
    <3> QED BY <2>2, <3>1, <3>2
  <2>5. \A d \in Exempt(r) \cap Cdns : d \in Exempt(r)' \/ disk[d][f] \in {Absent, fss[f]}
    BY <1>4, <2>2, <2>4
  <2> QED BY <1>9, <2>1, <2>3, <2>5
<1>14. CASE Revoke(r)
  <2>1. pc[r] = "revoke" /\ pc'[r] = "invalidate" /\ UNCHANGED <<fss, disk, targets>>
    BY <1>14 DEF Revoke, TypeInv, TypeOK
  <2>2. Exempt(r)' = Exempt(r)
    BY <1>8, <2>1 DEF Exempt
  <2>3. BodyInv(r)'
    BY <1>5, <1>8, <2>1 DEF BodyInv
  <2> QED BY <1>9, <2>1, <2>2, <2>3
<1>15. CASE Reply(r)
  <2>1. /\ pc[r] = "invalidate" /\ pc'[r] \in {"ok", "error"} /\ UNCHANGED <<fss, disk>>
        /\ targets[r] = {}
    BY <1>15 DEF Reply, TypeInv, TypeOK
  <2>2. Exempt(r) = {}
    BY <2>1 DEF Exempt
  <2>3. BodyInv(r)'
    BY <1>5, <1>8, <2>1 DEF BodyInv
  <2> QED BY <1>9, <2>1, <2>2, <2>3
<1> QED BY <1>6, <1>7, <1>10, <1>11, <1>12, <1>13, <1>14, <1>15 DEF PutStep

\* One turn of the invalidation loop.
LEMMA CacheLoop ==
  ASSUME PrivateFiles, TypeInv, Unbroken, CacheInv, faults = 0,
         NEW r \in Reqs, LoopStep(r), faults' = 0
  PROVE  CacheInv'
<1> DEFINE f == FileOf(r)
<1> PICK d \in targets[r] : Invalidate(r, d) \/ InvalidateCrashes(r, d) \/ Unreachable(r, d)
  BY DEF LoopStep
<1>1. ~InvalidateCrashes(r, d)
  BY DEF InvalidateCrashes, Crash
<1>2. d \in DOMAIN addr /\ addr[d] \in Cdns
  BY DEF TypeInv, TypeOK, Registered
<1>3. ~Unreachable(r, d)
  BY <1>2 DEF Unreachable, Unbroken, Alive
<1>4. Invalidate(r, d)
  BY <1>1, <1>3
<1>5. /\ pc[r] = "invalidate" /\ pc'[r] \in {"invalidate", "revoke"}
      /\ targets' = [targets EXCEPT ![r] = targets[r] \ {d}]
      /\ disk' = [disk EXCEPT ![addr[d]] = [disk[addr[d]] EXCEPT ![f] = Absent]]
      /\ UNCHANGED <<fss, addr, up, req, body>>
      /\ \A s \in Reqs : s # r => pc'[s] = pc[s]
  BY <1>4 DEF Invalidate, DeleteFile, TypeInv, TypeOK
<1>6. FileOf(r) \in Files /\ FileOf(r)' = f
  BY <1>5, AtCdn DEF FileOf
<1>7. /\ disk'[addr[d]][f] = Absent
      /\ \A c \in Cdns, g \in Files : c # addr[d] \/ g # f => disk'[c][g] = disk[c][g]
  BY <1>2, <1>5, <1>6 DEF TypeInv, TypeOK
<1>8. targets'[r] = targets[r] \ {d} /\ \A s \in Reqs : s # r => targets'[s] = targets[s]
  BY <1>5 DEF TypeInv, TypeOK
<1>9. \A c \in Exempt(r) : c # addr[d] => c \in Exempt(r)'
  BY <1>5, <1>8 DEF Exempt
<1>10. \A c \in Cdns : disk[c][f] \in {Absent, fss[f]} \/ c \in Exempt(r)
  BY <1>5, OwnCopies
<1>11. \A c \in Cdns : disk'[c][FileOf(r)] \in {Absent, fss'[FileOf(r)]} \/ c \in Exempt(r)'
  BY <1>5, <1>6, <1>7, <1>9, <1>10
<1>12. \A c \in Cdns : ~up[c] => disk'[c][FileOf(r)] = Absent
  BY <1>6, <1>7 DEF CacheInv
<1>13. BodyInv(r)'
  <2>1. body[r] = fss[f]
    BY <1>5 DEF CacheInv, BodyInv
  <2> QED BY <1>5, <1>6, <2>1 DEF BodyInv
<1> QED BY <1>5, <1>6, <1>7, <1>8, <1>11, <1>12, <1>13, LocalStep

\* A request starts: it exempts nothing before and after.
LEMMA CacheStart ==
  ASSUME TypeInv, CacheInv, faults = 0, NEW r \in Reqs, Start(r)
  PROVE  CacheInv'
<1>1. /\ pc[r] \in Final /\ pc'[r] \in {"lookup", "manage"}
      /\ pc'[r] = "manage" => req'[r].op = "put"
      /\ UNCHANGED <<fss, disk, addr, up, targets>>
      /\ \A s \in Reqs : s # r => pc'[s] = pc[s] /\ req'[s] = req[s] /\ body'[s] = body[s]
  BY DEF Start, StartGet, StartPut, Begin, TypeInv, TypeOK
<1>2. Exempt(r) = {} /\ Exempt(r)' = {}
  BY <1>1 DEF Exempt
<1>3. \A s \in Reqs : s # r => /\ FileOf(s)' = FileOf(s) /\ CdnOf(s)' = CdnOf(s)
  BY <1>1 DEF FileOf, CdnOf
<1>4. \A s \in Reqs : s # r => Exempt(s)' = Exempt(s)
  BY <1>1, <1>3 DEF Exempt
<1>5. \A c \in Cdns, f \in Files : \/ disk'[c][f] \in {Absent, fss'[f]}
                                   \/ \E s \in Reqs : FileOf(s)' = f /\ c \in Exempt(s)'
  BY <1>1, <1>2, <1>3, <1>4 DEF CacheInv
<1>6. BodyInv(r)'
  BY <1>1 DEF BodyInv
<1>7. ASSUME NEW s \in Reqs, s # r PROVE BodyInv(s)'
  BY <1>1, <1>3, <1>7 DEF CacheInv, BodyInv
<1> QED BY <1>1, <1>5, <1>6, <1>7 DEF CacheInv

\* A CDN starts: while nothing has failed its directory is empty.
LEMMA CacheJoin ==
  ASSUME TypeInv, CacheInv, faults = 0, NEW c \in Cdns, CdnStart(c)
  PROVE  CacheInv'
<1>1. /\ UNCHANGED <<fss, disk, pc, req, body>>
      /\ addr' = Append(addr, c) /\ up' = [up EXCEPT ![c] = TRUE]
      /\ \A s \in Reqs : targets[s] \subseteq targets'[s]
  BY DEF CdnStart
<1>2. \A i \in DOMAIN addr : addr'[i] = addr[i]
  BY <1>1 DEF TypeInv, TypeOK
<1>3. \A s \in Reqs : FileOf(s)' = FileOf(s) /\ (pc[s] # "idle" => CdnOf(s)' = CdnOf(s))
  BY <1>1, <1>2 DEF FileOf, CdnOf, TypeInv, Registered
<1>4. ASSUME NEW s \in Reqs PROVE Exempt(s) \subseteq Exempt(s)'
  <2>1. {addr[i] : i \in targets[s]} \subseteq {addr'[i] : i \in targets'[s]}
    BY <1>1, <1>2 DEF TypeInv, Registered
  <2>2. CASE pc[s] = "idle"
    BY <1>1, <2>2 DEF Exempt
  <2>3. CASE pc[s] # "idle"
    BY <1>1, <1>3, <2>1, <2>3 DEF Exempt
  <2> QED BY <2>2, <2>3
<1>5. \A x \in Cdns, f \in Files : \/ disk'[x][f] \in {Absent, fss'[f]}
                                   \/ \E s \in Reqs : FileOf(s)' = f /\ x \in Exempt(s)'
  BY <1>1, <1>3, <1>4 DEF CacheInv
<1>6. \A x \in Cdns, f \in Files : ~up'[x] => disk'[x][f] = Absent
  BY <1>1 DEF CacheInv, TypeInv, TypeOK
<1>7. ASSUME NEW s \in Reqs PROVE BodyInv(s)'
  <2>1. BodyInv(s)
    BY DEF CacheInv
  <2>2. CASE pc[s] = "idle"
    BY <1>1, <2>2 DEF BodyInv
  <2>3. CASE pc[s] # "idle"
    BY <1>1, <1>3, <2>1, <2>3 DEF BodyInv
  <2> QED BY <2>2, <2>3
<1> QED BY <1>5, <1>6, <1>7 DEF CacheInv

\* Every step keeps CacheInv.
LEMMA CacheNext ==
  ASSUME PrivateFiles, TypeInv, Unbroken, CacheInv, [Next]_vars
  PROVE  CacheInv'
<1> SUFFICES ASSUME faults' = 0 PROVE CacheInv'
  BY DEF CacheInv
<1>1. faults = 0
  BY FaultsGrow
<1>2. ASSUME NEW r \in Reqs, Step(r) PROVE CacheInv'
  <2>1. ~Abandon(r)
    <3>1. ASSUME Abandon(r) PROVE Alive(req[r].self)
      BY <1>1, <3>1 DEF Abandon, Unbroken, TypeInv, Registered
    <3> QED BY <3>1 DEF Abandon
  <2> QED BY <1>1, <1>2, <2>1, CacheGet, CacheStore, CachePut, CacheLoop DEF Step
<1>3. ASSUME NEW r \in Reqs, Fail(r) PROVE CacheInv'
  BY <1>1, <1>3 DEF Fail, WriteFails, CallThrows, DeleteThrows, RevokeThrows
<1>4. ASSUME NEW c \in Cdns, CdnStop(c) PROVE CacheInv'
  BY <1>1, <1>4 DEF CdnStop, Crash
<1>5. CASE UNCHANGED vars
  BY <1>5 DEF vars, CacheInv, BodyInv, Exempt, FileOf, CdnOf
<1> QED BY <1>1, <1>2, <1>3, <1>4, <1>5, CacheStart, CacheJoin DEF Next

\* While nothing has failed, CacheInv holds from the start on.
LEMMA CacheHolds == PrivateFiles /\ Spec => [](TypeInv /\ CacheInv)
<1> SUFFICES ASSUME PrivateFiles PROVE Spec => [](TypeInv /\ CacheInv)
  OBVIOUS
<1> DEFINE Inv == TypeInv /\ Unbroken /\ CacheInv
<1>1. Init => Inv
  BY TypeInit DEF Init, Unbroken, CacheInv, BodyInv
<1>2. Inv /\ [Next]_vars => Inv'
  BY TypeNext, UnbrokenNext, CacheNext
<1> QED BY <1>1, <1>2, PTL DEF Spec

\* When each file is used by one client slot and nothing has failed, every
\* cached copy of a file that no request is using is the content the FSS
\* stores: no CDN keeps a stale copy.
THEOREM NoStaleCopies == PrivateFiles /\ Spec => []Coherent
<1>1. TypeInv /\ CacheInv => Coherent
  <2> SUFFICES ASSUME TypeInv, CacheInv, faults = 0, NEW f \in Files, NEW c \in Cdns, Quiet(f)
               PROVE  disk[c][f] \in {Absent, fss[f]}
    BY DEF Coherent
  <2>1. ASSUME NEW r \in Reqs, FileOf(r) = f, c \in Exempt(r) PROVE FALSE
    <3>1. pc[r] \in Final
      BY <2>1 DEF Quiet, Active
    <3> QED BY <2>1, <3>1 DEF Exempt
  <2> QED BY <2>1 DEF CacheInv
<1> QED BY <1>1, CacheHolds, PTL

\* Under the same conditions, what an OK answer carried is what the FSS stores.
THEOREM AnswersAreStored == PrivateFiles /\ Spec => []ServedIsStored
<1>1. CacheInv => ServedIsStored
  BY DEF CacheInv, BodyInv, ServedIsStored
<1> QED BY <1>1, CacheHolds, PTL

-----------------------------------------------------------------------------
(* One request at a time: the tracker.                                     *)

\* Taking a file out of the list of a tracker.
LEMMA WithoutIs ==
  ASSUME NEW S, NEW s \in Seq(S), IsInjective(s), NEW f
  PROVE  /\ Without(s, f) \in Seq(S) /\ IsInjective(Without(s, f))
         /\ ToSet(Without(s, f)) = ToSet(s) \ {f}
<1>1. CASE \E i \in DOMAIN s : s[i] = f
  <2> DEFINE j == CHOOSE i \in DOMAIN s : s[i] = f
  <2>1. j \in 1..Len(s) /\ s[j] = f
    BY <1>1
  <2>2. Without(s, f) = RemoveAt(s, j)
    BY <1>1 DEF Without
  <2> HIDE DEF j
  <2> QED BY <2>1, <2>2, RemoveAtElements, RemoveAtInjective
<1>2. CASE ~\E i \in DOMAIN s : s[i] = f
  BY <1>2 DEF Without, ToSet
<1> QED BY <1>1, <1>2

\* Making a file the most recent one.
LEMMA ToFrontIs ==
  ASSUME NEW S, NEW s \in Seq(S), IsInjective(s), NEW f \in S
  PROVE  IsInjective(ToFront(s, f)) /\ ToSet(ToFront(s, f)) = ToSet(s) \cup {f}
<1> DEFINE t == Without(s, f)
<1>1. t \in Seq(S) /\ IsInjective(t) /\ ToSet(t) = ToSet(s) \ {f}
  BY WithoutIs
<1> HIDE DEF t
<1>2. IsInjective(<<f>> \o t) /\ ToSet(<<f>> \o t) = ToSet(t) \cup {f}
  BY <1>1, ConsInjective
<1> QED BY <1>1, <1>2 DEF ToFront, t

\* Evicting from the tail.
LEMMA KeptIs ==
  ASSUME NEW S, NEW s \in Seq(S), IsInjective(s), NEW k \in 0..Len(s)
  PROVE  /\ Kept(s, k) \in Seq(S) /\ IsInjective(Kept(s, k))
         /\ ToSet(Kept(s, k)) = ToSet(s) \ Gone(s, k)
         /\ Gone(s, k) = ToSet(Victims(s, k))
<1> DEFINE n == Len(s) - k
<1>1. n \in 0..Len(s) /\ DOMAIN Victims(s, k) = 1..k
  BY DEF Victims
<1>2. Gone(s, k) = {s[i] : i \in (n + 1)..Len(s)}
  <2>1. \A i \in 1..k : Victims(s, k)[i] = s[Len(s) - i + 1] /\ Len(s) - i + 1 \in (n + 1)..Len(s)
    BY DEF Victims
  <2>2. \A i \in (n + 1)..Len(s) : Len(s) - i + 1 \in 1..k /\ Len(s) - (Len(s) - i + 1) + 1 = i
    OBVIOUS
  <2> HIDE DEF n
  <2>3. ASSUME NEW x \in Gone(s, k) PROVE x \in {s[i] : i \in (n + 1)..Len(s)}
    BY <2>1 DEF Gone
  <2>4. ASSUME NEW i \in (n + 1)..Len(s) PROVE s[i] \in Gone(s, k)
    <3>1. Victims(s, k)[Len(s) - i + 1] = s[i]
      BY <2>1, <2>2
    <3> QED BY <2>2, <3>1 DEF Gone
  <2> QED BY <2>3, <2>4
<1>3. Gone(s, k) = ToSet(Victims(s, k))
  BY <1>1 DEF Gone, ToSet
<1> HIDE DEF n
<1>4. /\ SubSeq(s, 1, n) \in Seq(S) /\ IsInjective(SubSeq(s, 1, n))
      /\ ToSet(SubSeq(s, 1, n)) = ToSet(s) \ {s[i] : i \in (n + 1)..Len(s)}
  BY <1>1, CutInjective
<1> QED BY <1>2, <1>3, <1>4 DEF Kept, n

\* The file that the request has made room for on CDN c.
Making(r, c) == IF pc[r] = "write" /\ CdnOf(r) = c THEN {FileOf(r)} ELSE {}

\* With one request, TrackerExact is about that one.
LEMMA TrackerIs ==
  ASSUME OneSlot, NEW r \in Reqs
  PROVE  /\ TrackerExact <=> (faults = 0 => \A c \in Cdns :
              nulls[c] = {} /\ ToSet(lru[c]) = OnDisk(c) \cup Making(r, c))
         /\ TrackerExact' <=> (faults' = 0 => \A c \in Cdns :
              nulls'[c] = {} /\ ToSet(lru'[c]) = OnDisk(c)' \cup Making(r, c)')
<1>1. Reqs = {r}
  BY DEF OneSlot
<1>2. \A c : {FileOf(x) : x \in {y \in Reqs : pc[y] = "write" /\ CdnOf(y) = c}} = Making(r, c)
  BY <1>1 DEF Making
<1>3. \A c : {FileOf(x)' : x \in {y \in Reqs : pc'[y] = "write" /\ CdnOf(y)' = c}} = Making(r, c)'
  BY <1>1 DEF Making
<1> QED BY <1>2, <1>3 DEF TrackerExact, Tracked, ToSet

\* No step makes a tracker list a file twice, whatever has failed.
LEMMA TrackerDistinct ==
  ASSUME TypeInv, \A c \in Cdns : IsInjective(lru[c]), [Next]_vars
  PROVE  \A c \in Cdns : IsInjective(lru'[c])
<1>1. lru \in [Cdns -> Seq(Files)] /\ \A c \in Cdns : lru[c] \in Seq(Files)
  BY DEF TypeInv, TypeOK
<1>2. CASE UNCHANGED lru
  BY <1>2
<1>3. ASSUME NEW c \in Cdns, NEW s, lru' = [lru EXCEPT ![c] = s], IsInjective(s)
      PROVE  \A d \in Cdns : IsInjective(lru'[d])
  BY <1>1, <1>3
<1>4. IsInjective(<<>>)
  BY DEF IsInjective
<1>5. ASSUME NEW c \in Cdns, Crash(c) PROVE \A d \in Cdns : IsInjective(lru'[d])
  BY <1>3, <1>4, <1>5 DEF Crash
<1>6. ASSUME NEW r \in Reqs, Step(r) PROVE \A d \in Cdns : IsInjective(lru'[d])
  <2> DEFINE c == CdnOf(r)  f == FileOf(r)
  <2>1. pc[r] # "idle" => c \in Cdns /\ f \in Files
    BY AtCdn
  <2>2. CASE Manage(r)
    <3>1. PICK k \in Turns(c, f) : lru' = [lru EXCEPT ![c] = ToFront(Kept(lru[c], k), f)]
      BY <2>2 DEF Manage
    <3>2. k \in 0..Len(lru[c]) /\ c \in Cdns /\ f \in Files
      BY <2>1, <2>2, TurnsType DEF Manage, At
    <3>3. Kept(lru[c], k) \in Seq(Files) /\ IsInjective(Kept(lru[c], k))
      BY <1>1, <3>2, KeptIs
    <3>4. IsInjective(ToFront(Kept(lru[c], k), f))
      BY <3>2, <3>3, ToFrontIs
    <3> QED BY <1>3, <3>1, <3>2, <3>4
  <2>3. CASE ManageFails(r)
    BY <1>3, <1>4, <2>1, <2>3 DEF ManageFails, At
  <2>4. CASE Load(r)
    <3>1. pc[r] # "idle" /\ (UNCHANGED lru \/ lru' = [lru EXCEPT ![c] = ToFront(lru[c], f)])
      BY <2>4 DEF Load, At
    <3>2. IsInjective(ToFront(lru[c], f))
      BY <1>1, <2>1, <3>1, ToFrontIs
    <3> QED BY <1>2, <1>3, <2>1, <3>1, <3>2
  <2>5. ASSUME NEW d \in Cdns, lru' = [lru EXCEPT ![d] = Without(lru[d], f)]
        PROVE  \A e \in Cdns : IsInjective(lru'[e])
    <3>1. IsInjective(Without(lru[d], f))
      BY <1>1, WithoutIs
    <3> QED BY <1>3, <2>5, <3>1
  <2>6. CASE UploadRefused(r)
    BY <2>1, <2>5, <2>6 DEF UploadRefused, DeleteFile, At
  <2>7. CASE LoadCrashes(r) \/ ManageCrashes(r) \/ RollbackCrashes(r)
    BY <1>5, <2>1, <2>7 DEF LoadCrashes, ManageCrashes, RollbackCrashes, At
  <2>8. CASE LoopStep(r)
    <3>1. PICK d \in targets[r] : Invalidate(r, d) \/ InvalidateCrashes(r, d) \/ Unreachable(r, d)
      BY <2>8 DEF LoopStep
    <3>2. addr[d] \in Cdns
      BY DEF TypeInv, TypeOK, Registered
    <3> QED BY <1>2, <1>5, <2>5, <3>1, <3>2 DEF Invalidate, DeleteFile, InvalidateCrashes, Unreachable
  <2>9. CASE UNCHANGED lru
    BY <1>2, <2>9
  <2> QED BY <1>6, <2>2, <2>3, <2>4, <2>6, <2>7, <2>8, <2>9
          DEF Step, GetStep, StoreStep, PutStep, Lookup, Fetch, Advertise, Relookup, WriteCopy,
              Report, Upload, Update, Stamp, Revoke, RevokeLost, Reply, Abandon
<1>7. ASSUME NEW r \in Reqs, Start(r) \/ Fail(r) PROVE UNCHANGED lru
  BY <1>7 DEF Start, StartGet, StartPut, Begin, Fail, WriteFails, CallThrows, DeleteThrows, RevokeThrows
<1>8. ASSUME NEW c \in Cdns, CdnStart(c) PROVE UNCHANGED lru
  BY <1>8 DEF CdnStart
<1>9. ASSUME NEW c \in Cdns, CdnStop(c) PROVE \A d \in Cdns : IsInjective(lru'[d])
  BY <1>5, <1>9 DEF CdnStop
<1> QED BY <1>2, <1>6, <1>7, <1>8, <1>9 DEF Next, vars

\* Steps that leave the storage alone and write no copy.
LEMMA TrackerQuiet ==
  ASSUME OneSlot, TrackerExact, NEW r \in Reqs, faults = 0,
         UNCHANGED <<disk, lru, nulls>>, pc[r] # "write", pc'[r] # "write"
  PROVE  TrackerExact'
<1>1. \A c : Making(r, c) = {} /\ Making(r, c)' = {} /\ OnDisk(c)' = OnDisk(c)
  BY DEF Making, OnDisk
<1> QED BY <1>1, TrackerIs

\* Steps that change the storage of one CDN.
LEMMA TrackerOne ==
  ASSUME OneSlot, TypeInv, TrackerExact, NEW r \in Reqs, NEW c \in Cdns, faults = 0,
         UNCHANGED nulls, \A d \in Cdns \ {c} : disk'[d] = disk[d] /\ lru'[d] = lru[d],
         ToSet(lru'[c]) = OnDisk(c)' \cup Making(r, c)',
         pc[r] = "write" => CdnOf(r) = c, pc'[r] = "write" => CdnOf(r)' = c
  PROVE  TrackerExact'
<1>1. \A d \in Cdns \ {c} : Making(r, d) = {} /\ Making(r, d)' = {} /\ OnDisk(d)' = OnDisk(d)
  BY DEF Making, OnDisk
<1> QED BY <1>1, TrackerIs

\* Making room, refusing, and writing the copy.
LEMMA TrackerStore ==
  ASSUME OneSlot, TypeInv, TrackerInv, NEW r \in Reqs, StoreStep(r), faults = 0, faults' = 0
  PROVE  TrackerExact'
<1> DEFINE c == CdnOf(r)  f == FileOf(r)
<1>1. /\ pc[r] \in {"manage", "write", "report"} /\ c \in Cdns /\ f \in Files
      /\ ~ManageCrashes(r) /\ UNCHANGED <<nulls, addr, req>> /\ c' = c /\ f' = f
  <2>1. ~ManageCrashes(r)
    BY DEF ManageCrashes, Crash
  <2>2. pc[r] \in {"manage", "write", "report"} /\ UNCHANGED <<nulls, addr, req>>
    BY <2>1 DEF StoreStep, Manage, ManageFails, WriteCopy, Report, At
  <2>3. c' = c /\ f' = f
    BY <2>2 DEF CdnOf, FileOf
  <2> QED BY <2>1, <2>2, <2>3, AtCdn
<1>2. /\ lru[c] \in Seq(Files) /\ IsInjective(lru[c])
      /\ lru \in [Cdns -> Seq(Files)] /\ disk \in [Cdns -> [Files -> Versions \cup {Absent}]]
      /\ pc \in [Reqs -> Final \cup CdnSteps \cup MetaSteps]
  BY <1>1 DEF TypeInv, TypeOK, TrackerInv
<1>3. TrackerExact /\ ToSet(lru[c]) = OnDisk(c) \cup Making(r, c)
  BY <1>1, TrackerIs DEF TrackerInv
<1>4. CASE Manage(r)
  <2>1. PICK k \in Turns(c, f) :
          /\ disk' = [disk EXCEPT ![c] = Erase(disk[c], Gone(lru[c], k))]
          /\ lru'  = [lru EXCEPT ![c] = ToFront(Kept(lru[c], k), f)]
    BY <1>4 DEF Manage
  <2>2. pc[r] = "manage" /\ pc'[r] = "write" /\ Making(r, c) = {} /\ Making(r, c)' = {f}
    BY <1>1, <1>2, <1>4 DEF Manage, At, Making
  <2>3. k \in 0..Len(lru[c])
    BY TurnsType
  <2>4. /\ Kept(lru[c], k) \in Seq(Files) /\ IsInjective(Kept(lru[c], k))
        /\ ToSet(Kept(lru[c], k)) = ToSet(lru[c]) \ Gone(lru[c], k)
    BY <1>2, <2>3, KeptIs
  <2>5. ToSet(lru'[c]) = (ToSet(lru[c]) \ Gone(lru[c], k)) \cup {f}
    BY <1>1, <1>2, <2>1, <2>4, ToFrontIs
  <2>6. OnDisk(c)' = OnDisk(c) \ Gone(lru[c], k)
    BY <1>1, <1>2, <2>1 DEF OnDisk, Erase
  <2>7. \A d \in Cdns \ {c} : disk'[d] = disk[d] /\ lru'[d] = lru[d]
    BY <1>2, <2>1
  <2>8. ToSet(lru'[c]) = OnDisk(c)' \cup Making(r, c)'
    BY <1>3, <2>2, <2>5, <2>6
  <2> QED BY <1>1, <1>3, <2>2, <2>7, <2>8, TrackerOne
<1>5. CASE ManageFails(r)
  <2>1. /\ disk' = [disk EXCEPT ![c] = Erase(disk[c], Tracked(c))]
        /\ lru'  = [lru EXCEPT ![c] = <<>>]
    BY <1>5 DEF ManageFails
  <2>2. pc[r] = "manage" /\ pc'[r] = "notFound" /\ Making(r, c) = {} /\ Making(r, c)' = {}
    BY <1>1, <1>2, <1>5 DEF ManageFails, At, Making
  <2>3. Tracked(c) = OnDisk(c)
    BY <1>3, <2>2 DEF Tracked, ToSet
  <2>4. OnDisk(c)' = {} /\ ToSet(lru'[c]) = {}
    BY <1>1, <1>2, <2>1, <2>3 DEF OnDisk, Erase, ToSet
  <2>5. \A d \in Cdns \ {c} : disk'[d] = disk[d] /\ lru'[d] = lru[d]
    BY <1>2, <2>1
  <2> QED BY <1>1, <1>3, <2>2, <2>4, <2>5, TrackerOne
<1>6. CASE WriteCopy(r)
  <2>1. /\ disk' = [disk EXCEPT ![c] = [disk[c] EXCEPT ![f] = body[r]]] /\ UNCHANGED lru
        /\ pc[r] = "write" /\ pc'[r] = "report"
    BY <1>2, <1>6 DEF WriteCopy, At
  <2>2. body[r] # Absent
    BY <2>1, MarkersAssumption DEF TypeInv, Registered
  <2>3. Making(r, c) = {f} /\ Making(r, c)' = {}
    BY <2>1 DEF Making
  <2>4. OnDisk(c)' = OnDisk(c) \cup {f}
    BY <1>1, <1>2, <2>1, <2>2 DEF OnDisk
  <2>5. \A d \in Cdns \ {c} : disk'[d] = disk[d] /\ lru'[d] = lru[d]
    BY <1>2, <2>1
  <2>6. ToSet(lru'[c]) = OnDisk(c)' \cup Making(r, c)'
    BY <1>3, <2>1, <2>3, <2>4
  <2> QED BY <1>1, <1>3, <2>1, <2>5, <2>6, TrackerOne
<1>7. CASE Report(r)
  <2>1. UNCHANGED <<disk, lru, nulls, pc>> /\ pc[r] = "report"
    BY <1>7 DEF Report, At
  <2> QED BY <1>3, <2>1, TrackerQuiet
<1> QED BY <1>1, <1>4, <1>5, <1>6, <1>7 DEF StoreStep

\* Removing a copy from the storage.
LEMMA TrackerDelete ==
  ASSUME OneSlot, TypeInv, TrackerInv, NEW r \in Reqs, NEW c \in Cdns, NEW f \in Files,
         DeleteFile(c, f), faults = 0, pc[r] # "write", pc'[r] # "write"
  PROVE  TrackerExact'
<1>1. /\ lru' = [lru EXCEPT ![c] = Without(lru[c], f)]
      /\ disk' = [disk EXCEPT ![c] = [disk[c] EXCEPT ![f] = Absent]] /\ UNCHANGED nulls
  BY DEF DeleteFile
<1>2. /\ lru[c] \in Seq(Files) /\ IsInjective(lru[c])
      /\ lru \in [Cdns -> Seq(Files)] /\ disk \in [Cdns -> [Files -> Versions \cup {Absent}]]
  BY DEF TypeInv, TypeOK, TrackerInv
<1>3. TrackerExact /\ Making(r, c) = {} /\ Making(r, c)' = {} /\ ToSet(lru[c]) = OnDisk(c)
  BY TrackerIs DEF TrackerInv, Making
<1>4. ToSet(lru'[c]) = ToSet(lru[c]) \ {f}
  BY <1>1, <1>2, WithoutIs
<1>5. OnDisk(c)' = OnDisk(c) \ {f}
  BY <1>1, <1>2 DEF OnDisk
<1>6. \A d \in Cdns \ {c} : disk'[d] = disk[d] /\ lru'[d] = lru[d]
  BY <1>1, <1>2
<1> QED BY <1>1, <1>3, <1>4, <1>5, <1>6, TrackerOne

\* The other steps of a handler.
LEMMA TrackerOther ==
  ASSUME OneSlot, TypeInv, Unbroken, TrackerInv, NEW r \in Reqs,
         GetStep(r) \/ PutStep(r) \/ LoopStep(r) \/ Start(r), faults = 0, faults' = 0
  PROVE  TrackerExact'
<1>1. TrackerExact
  BY DEF TrackerInv
<1>2. pc \in [Reqs -> Final \cup CdnSteps \cup MetaSteps]
  BY DEF TypeInv, TypeOK
<1>3. CASE Lookup(r) \/ Fetch(r) \/ Advertise(r) \/ Relookup(r) \/ Start(r)
  <2>1. UNCHANGED <<disk, lru, nulls>> /\ pc[r] # "write" /\ pc'[r] # "write"
    BY <1>2, <1>3 DEF Lookup, Fetch, Advertise, Relookup, Start, StartGet, StartPut, Begin, At
  <2> QED BY <1>1, <2>1, TrackerQuiet
<1>4. CASE Upload(r) \/ Update(r) \/ Stamp(r) \/ Revoke(r) \/ RevokeLost(r) \/ Reply(r)
  <2>1. UNCHANGED <<disk, lru, nulls>> /\ pc[r] # "write" /\ pc'[r] # "write"
    BY <1>2, <1>4 DEF Upload, Update, Stamp, Revoke, RevokeLost, Reply, At
  <2> QED BY <1>1, <2>1, TrackerQuiet
<1>5. CASE Load(r)
  <2> DEFINE c == CdnOf(r)  f == FileOf(r)
  <2>1. pc[r] = "load" /\ pc'[r] = "ok" /\ UNCHANGED <<disk, addr, req>>
    BY <1>2, <1>5 DEF Load, At
  <2>2. /\ c \in Cdns /\ f \in Files /\ lru[c] \in Seq(Files) /\ IsInjective(lru[c])
        /\ lru \in [Cdns -> Seq(Files)]
    BY <2>1, AtCdn DEF TypeInv, TypeOK, TrackerInv
  <2>3. c' = c
    BY <2>1 DEF CdnOf
  <2>4. Making(r, c) = {} /\ Making(r, c)' = {} /\ OnDisk(c)' = OnDisk(c)
    BY <2>1, <2>3 DEF Making, OnDisk
  <2>5. ToSet(lru[c]) = OnDisk(c)
    BY <1>1, <2>2, <2>4, TrackerIs
  <2>6. CASE f \in OnDisk(c)
    <3>1. lru' = [lru EXCEPT ![c] = ToFront(lru[c], f)] /\ UNCHANGED nulls
      <4>1. lru[c] # <<>>
        BY <2>5, <2>6 DEF ToSet
      <4> QED BY <1>5, <2>6, <4>1 DEF Load
    <3>2. lru'[c] = ToFront(lru[c], f)
      BY <2>2, <3>1
    <3>3. ToSet(ToFront(lru[c], f)) = ToSet(lru[c]) \cup {f}
      BY <2>2, ToFrontIs
    <3>4. \A d \in Cdns \ {c} : disk'[d] = disk[d] /\ lru'[d] = lru[d]
      BY <2>1, <2>2, <3>1
    <3>5. ToSet(lru'[c]) = OnDisk(c)' \cup Making(r, c)'
      BY <2>4, <2>5, <2>6, <3>2, <3>3
    <3> QED BY <1>1, <2>1, <2>2, <2>3, <3>1, <3>4, <3>5, TrackerOne
  <2>7. CASE f \notin OnDisk(c)
    <3>1. UNCHANGED <<lru, nulls>>
      BY <1>5, <2>7 DEF Load
    <3> QED BY <1>1, <2>1, <3>1, TrackerQuiet
  <2> QED BY <2>6, <2>7
<1>6. CASE UploadRefused(r)
  <2>1. pc[r] = "report" /\ pc'[r] = "notFound" /\ DeleteFile(CdnOf(r), FileOf(r))
    BY <1>2, <1>6 DEF UploadRefused, At
  <2> QED BY <2>1, AtCdn, TrackerDelete
<1>7. CASE LoadCrashes(r) \/ RollbackCrashes(r)
  BY <1>7 DEF LoadCrashes, RollbackCrashes, Crash
<1>8. CASE LoopStep(r)
  <2>1. PICK d \in targets[r] : Invalidate(r, d) \/ InvalidateCrashes(r, d) \/ Unreachable(r, d)
    BY <1>8 DEF LoopStep
  <2>2. d \in DOMAIN addr /\ addr[d] \in Cdns
    BY DEF TypeInv, TypeOK, Registered
  <2>3. Invalidate(r, d)
    BY <2>1, <2>2 DEF InvalidateCrashes, Crash, Unreachable, Unbroken, Alive
  <2>4. pc[r] = "invalidate" /\ pc'[r] # "write" /\ DeleteFile(addr[d], FileOf(r))
    BY <1>2, <2>3 DEF Invalidate
  <2> QED BY <2>2, <2>4, AtCdn, TrackerDelete
<1> QED BY <1>3, <1>4, <1>5, <1>6, <1>7, <1>8 DEF GetStep, PutStep

\* Every step keeps the tracker exact.
LEMMA TrackerNext ==
  ASSUME OneSlot, TypeInv, Unbroken, TrackerInv, [Next]_vars
  PROVE  TrackerInv'
<1>1. \A c \in Cdns : IsInjective(lru'[c])
  BY TrackerDistinct DEF TrackerInv
<1> SUFFICES ASSUME faults' = 0 PROVE TrackerExact'
  BY <1>1 DEF TrackerInv, TrackerExact
<1>2. faults = 0
  BY FaultsGrow
<1>3. ASSUME NEW r \in Reqs, Step(r) PROVE TrackerExact'
  <2>1. ~Abandon(r)
    <3>1. ASSUME Abandon(r) PROVE Alive(req[r].self)
      BY <1>2, <3>1 DEF Abandon, Unbroken, TypeInv, Registered
    <3> QED BY <3>1 DEF Abandon
  <2> QED BY <1>2, <1>3, <2>1, TrackerStore, TrackerOther DEF Step
<1>4. ASSUME NEW r \in Reqs, Start(r) PROVE TrackerExact'
  BY <1>2, <1>4, TrackerOther
<1>5. ASSUME NEW r \in Reqs, Fail(r) PROVE TrackerExact'
  BY <1>2, <1>5 DEF Fail, WriteFails, CallThrows, DeleteThrows, RevokeThrows
<1>6. ASSUME NEW c \in Cdns, CdnStop(c) PROVE TrackerExact'
  BY <1>2, <1>6 DEF CdnStop, Crash
<1>7. ASSUME UNCHANGED <<disk, lru, nulls, pc, req, faults>>,
             \A r \in Reqs : pc[r] # "idle" => CdnOf(r)' = CdnOf(r)
      PROVE  TrackerExact'
  <2>1. ASSUME NEW r \in Reqs PROVE TrackerExact'
    <3>1. \A c : Making(r, c)' = Making(r, c) /\ OnDisk(c)' = OnDisk(c)
      BY <1>7 DEF Making, OnDisk, FileOf
    <3> QED BY <1>2, <1>7, <3>1, TrackerIs DEF TrackerInv
  <2>2. CASE Reqs = {}
    BY <1>2, <1>7, <2>2 DEF TrackerInv, TrackerExact, Tracked, OnDisk
  <2> QED BY <2>1, <2>2
<1>8. ASSUME NEW c \in Cdns, CdnStart(c) PROVE TrackerExact'
  <2>1. UNCHANGED <<disk, lru, nulls, pc, req, faults>> /\ addr' = Append(addr, c)
    BY <1>8 DEF CdnStart
  <2>2. \A i \in DOMAIN addr : addr'[i] = addr[i]
    BY <2>1 DEF TypeInv, TypeOK
  <2>3. \A r \in Reqs : pc[r] # "idle" => CdnOf(r)' = CdnOf(r)
    BY <2>1, <2>2 DEF CdnOf, TypeInv, Registered
  <2> QED BY <1>7, <2>1, <2>3
<1>9. CASE UNCHANGED vars
  BY <1>7, <1>9 DEF vars, CdnOf
<1> QED BY <1>3, <1>4, <1>5, <1>6, <1>8, <1>9 DEF Next

\* With one request at a time, and as long as nothing fails, the tracker of a CDN
\* knows exactly the files on its disk: every copy can be evicted, and none
\* crashes the CDN that reads it.
THEOREM TrackerFollowsDisk == OneSlot /\ Spec => []TrackerExact
<1> SUFFICES ASSUME OneSlot PROVE Spec => []TrackerExact
  OBVIOUS
<1> DEFINE Inv == TypeInv /\ Unbroken /\ TrackerInv
<1>1. Init => Inv
  <2> SUFFICES ASSUME Init PROVE TrackerInv
    BY TypeInit DEF Init, Unbroken
  <2>1. \A c \in Cdns : lru[c] = <<>> /\ nulls[c] = {} /\ OnDisk(c) = {} /\ Tracked(c) = {}
    BY DEF Init, OnDisk, Tracked
  <2>2. \A r \in Reqs : pc[r] # "write"
    BY DEF Init
  <2> QED BY <2>1, <2>2 DEF TrackerInv, TrackerExact, IsInjective
<1>2. Inv /\ [Next]_vars => Inv'
  BY TypeNext, UnbrokenNext, TrackerNext
<1>3. Inv => TrackerExact
  BY DEF TrackerInv
<1> QED BY <1>1, <1>2, <1>3, PTL DEF Spec

-----------------------------------------------------------------------------
(* One request at a time: the answers.                                     *)

\* A CDN that joins or leaves takes no copy away from the request that runs.
LEMMA ServedStays ==
  ASSUME TypeInv, ServedInv, UNCHANGED <<disk, pc, req, body>>, NEW r \in Reqs,
         pc[r] # "idle" => CdnOf(r)' = CdnOf(r)
  PROVE  /\ pc'[r] = "load" => FileOf(r)' \in OnDisk(CdnOf(r))'
         /\ pc'[r] \in {"invalidate", "revoke", "ok"} => body'[r] \in Versions
<1>1. FileOf(r)' = FileOf(r) /\ \A c : OnDisk(c)' = OnDisk(c)
  BY DEF FileOf, OnDisk
<1> QED BY <1>1 DEF ServedInv

\* A handler answers with what is there: between its second look-up and its
\* load nobody else evicts or deletes the copy.
LEMMA ServedStep ==
  ASSUME TypeInv, ServedInv, NEW r \in Reqs, Step(r)
  PROVE  /\ pc'[r] = "load" => FileOf(r)' \in OnDisk(CdnOf(r))'
         /\ pc'[r] \in {"invalidate", "revoke", "ok"} => body'[r] \in Versions
<1> DEFINE c == CdnOf(r)  f == FileOf(r)
<1>1. /\ pc \in [Reqs -> Final \cup CdnSteps \cup MetaSteps]
      /\ body \in [Reqs -> Versions \cup {Absent, Garbage}]
      /\ disk \in [Cdns -> [Files -> Versions \cup {Absent}]]
      /\ targets \in [Reqs -> SUBSET Nat]
  BY DEF TypeInv, TypeOK
<1>2. CASE Relookup(r)
  <2>1. /\ UNCHANGED <<disk, req, addr>>
        /\ \/ pc'[r] = "load" /\ f \in OnDisk(c)
           \/ pc'[r] = "notFound"
    BY <1>1, <1>2 DEF Relookup
  <2>2. FileOf(r)' = f /\ CdnOf(r)' = c
    BY <2>1 DEF FileOf, CdnOf
  <2>3. OnDisk(c)' = OnDisk(c)
    BY <2>1, <2>2 DEF OnDisk
  <2> QED BY <2>1, <2>2, <2>3
<1>3. CASE Load(r)
  <2>1. pc[r] = "load" /\ pc'[r] = "ok" /\ c \in Cdns /\ f \in OnDisk(c)
    BY <1>1, <1>3, AtCdn DEF Load, At, ServedInv
  <2>2. body'[r] = disk[c][f]
    BY <1>1, <1>3, <2>1 DEF Load
  <2>3. disk[c][f] \in Versions
    BY <1>1, <2>1 DEF OnDisk
  <2> QED BY <2>1, <2>2, <2>3
<1>4. CASE LoadCrashes(r) \/ ManageCrashes(r) \/ RollbackCrashes(r)
  <2>1. UNCHANGED <<pc, req, addr, body>> /\ pc[r] \in {"load", "manage", "report"}
    BY <1>4 DEF LoadCrashes, ManageCrashes, RollbackCrashes, Crash, At
  <2>2. pc[r] = "load" => UNCHANGED disk
    BY <1>4, <2>1 DEF LoadCrashes, ManageCrashes, RollbackCrashes, At
  <2>3. CdnOf(r)' = CdnOf(r)
    BY <2>1 DEF CdnOf
  <2> QED BY <2>1, <2>2, <2>3, ServedStays
<1>5. CASE Stamp(r) \/ Revoke(r) \/ RevokeLost(r) \/ Reply(r) \/ LoopStep(r)
  <2>1. pc[r] \in MetaSteps /\ UNCHANGED body
    BY <1>5 DEF Stamp, Revoke, RevokeLost, Reply, LoopStep, Invalidate, InvalidateCrashes,
                Unreachable
  <2>2. body[r] \in Versions
    BY <2>1 DEF ServedInv, TypeInv, Registered
  <2>3. pc'[r] # "load"
    BY <1>1, <1>5 DEF Stamp, Revoke, RevokeLost, Reply, LoopStep, Invalidate,
                      InvalidateCrashes, Unreachable
  <2> QED BY <2>1, <2>2, <2>3
<1>6. CASE \/ Lookup(r) \/ Fetch(r) \/ Advertise(r) \/ Manage(r) \/ ManageFails(r)
           \/ WriteCopy(r) \/ Report(r) \/ Upload(r) \/ UploadRefused(r) \/ Update(r)
           \/ Abandon(r)
  <2>1. pc'[r] \notin {"load", "invalidate", "revoke", "ok"}
    BY <1>1, <1>6 DEF Lookup, Fetch, Advertise, Manage, ManageFails, WriteCopy, Report,
                      Upload, UploadRefused, Update, Abandon, At
  <2> QED BY <2>1
<1> QED BY <1>2, <1>3, <1>4, <1>5, <1>6 DEF Step, GetStep, StoreStep, PutStep

\* Every step keeps what the request is answered with.
LEMMA ServedNext ==
  ASSUME OneSlot, TypeInv, ServedInv, [Next]_vars
  PROVE  ServedInv'
<1> SUFFICES ASSUME NEW r \in Reqs
             PROVE  /\ pc'[r] = "load" => FileOf(r)' \in OnDisk(CdnOf(r))'
                    /\ pc'[r] \in {"invalidate", "revoke", "ok"} => body'[r] \in Versions
  BY DEF ServedInv
<1>1. pc \in [Reqs -> Final \cup CdnSteps \cup MetaSteps]
  BY DEF TypeInv, TypeOK
<1>2. CASE Step(r)
  BY <1>2, ServedStep
<1>3. CASE Start(r)
  <2>1. pc'[r] \in {"lookup", "manage"}
    BY <1>1, <1>3 DEF Start, StartGet, StartPut
  <2> QED BY <2>1
<1>4. CASE Fail(r)
  <2>1. UNCHANGED body /\ pc'[r] \in {"error", "invalidate", "notFound"}
    BY <1>1, <1>4 DEF Fail, WriteFails, CallThrows, DeleteThrows, RevokeThrows
  <2>2. pc'[r] = "invalidate" => pc[r] \in {"invalidate", "revoke"}
    BY <1>1, <1>4 DEF Fail, WriteFails, CallThrows, DeleteThrows, RevokeThrows
  <2> QED BY <2>1, <2>2 DEF ServedInv
<1>5. ASSUME NEW c \in Cdns, CdnStart(c)
      PROVE  UNCHANGED <<disk, pc, req, body>> /\ (pc[r] # "idle" => CdnOf(r)' = CdnOf(r))
  <2>1. UNCHANGED <<disk, pc, req, body>> /\ addr' = Append(addr, c)
    BY <1>5 DEF CdnStart
  <2>2. \A i \in DOMAIN addr : addr'[i] = addr[i]
    BY <2>1 DEF TypeInv, TypeOK
  <2> QED BY <2>1, <2>2 DEF CdnOf, TypeInv, Registered
<1>6. ASSUME NEW c \in Cdns, CdnStop(c)
      PROVE  UNCHANGED <<disk, pc, req, body>> /\ CdnOf(r)' = CdnOf(r)
  BY <1>6 DEF CdnStop, Crash, CdnOf
<1>7. CASE UNCHANGED vars
  <2>1. UNCHANGED <<disk, pc, req, body>> /\ CdnOf(r)' = CdnOf(r)
    BY <1>7 DEF vars, CdnOf
  <2> QED BY <2>1, ServedStays
<1>8. ASSUME NEW s \in Reqs PROVE s = r
  BY DEF OneSlot
<1> QED BY <1>2, <1>3, <1>4, <1>5, <1>6, <1>7, <1>8, ServedStays DEF Next

\* With one request at a time, whatever crashes and fails, an OK answer carries
\* contents of the file: the copy that the second look-up of handle_get found
\* is still there when load_file reads it.
THEOREM ServedIsContent == OneSlot /\ Spec => []ContentServed
<1> SUFFICES ASSUME OneSlot PROVE Spec => []ContentServed
  OBVIOUS
<1> DEFINE Inv == TypeInv /\ ServedInv
<1>1. Init => Inv
  BY TypeInit DEF Init, ServedInv
<1>2. Inv /\ [Next]_vars => Inv'
  BY TypeNext, ServedNext
<1>3. Inv => ContentServed
  BY MarkersAssumption DEF ServedInv, ContentServed
<1> QED BY <1>1, <1>2, <1>3, PTL DEF Spec

-----------------------------------------------------------------------------
(* One request at a time: the listings.                                    *)

\* ListingInv, about the one request that there is.
Covered(r) ==
  /\ \A c \in Cdns, f \in Files : disk[c][f] # Absent =>
       myId[c] \in holders[f] \/ (FileOf(r) = f /\ c \in Unlisted(r))
  /\ pc[r] \in {"write", "report"} =>
       \A f \in ToSet(evicted[r]) : f = FileOf(r) \/ disk[CdnOf(r)][f] = Absent
  /\ pc[r] = "revoke" => disk[addr[peer[r]]][FileOf(r)] = Absent

LEMMA ListingIs ==
  ASSUME OneSlot, NEW r \in Reqs
  PROVE  /\ ListingInv <=> (faults = 0 => Covered(r))
         /\ ListingInv' <=> (faults' = 0 => Covered(r)')
<1>1. \A s \in Reqs : s = r
  BY DEF OneSlot
<1> QED BY <1>1 DEF ListingInv, Covered

\* What is known of a CDN that has a copy, while nothing has failed: it runs, and
\* its id is not that of another CDN.
LEMMA CopyHolder ==
  ASSUME TypeInv, CacheInv, faults = 0, NEW c \in Cdns, NEW f \in Files, disk[c][f] # Absent
  PROVE  /\ up[c] /\ myId[c] \in DOMAIN addr /\ addr[myId[c]] = c
         /\ \A i \in DOMAIN addr : addr[i] # c => myId[c] # i
BY DEF CacheInv, TypeInv, Registered

\* Steps that leave the copies and the listings alone, of a request that has
\* nothing unlisted.
LEMMA ListingQuiet ==
  ASSUME NEW r \in Reqs, Covered(r), UNCHANGED <<disk, myId, holders>>,
         Unlisted(r) = {}, pc'[r] \notin {"write", "report", "revoke"}
  PROVE  Covered(r)'
BY DEF Covered

\* The steps of a GET, and the start of a request.
LEMMA ListingGet ==
  ASSUME OneSlot, TypeInv, MetaInv, CacheInv, NEW r \in Reqs, Covered(r),
         GetStep(r) \/ Start(r), faults = 0, faults' = 0
  PROVE  Covered(r)'
<1> DEFINE c == CdnOf(r)  f == FileOf(r)
<1>1. pc \in [Reqs -> Final \cup CdnSteps \cup MetaSteps]
  BY DEF TypeInv, TypeOK
<1>2. CASE Lookup(r) \/ Fetch(r) \/ Relookup(r) \/ Load(r) \/ Start(r)
  <2>1. /\ UNCHANGED <<disk, myId, holders>> /\ pc'[r] \notin {"write", "report", "revoke"}
        /\ pc[r] \in Final \cup {"lookup", "fetch", "relookup", "load"}
    BY <1>1, <1>2 DEF Lookup, Fetch, Relookup, Load, Start, StartGet, StartPut, Begin, At
  <2>2. Unlisted(r) = {}
    BY <2>1 DEF Unlisted
  <2> QED BY <2>1, <2>2, ListingQuiet
<1>3. CASE LoadCrashes(r)
  BY <1>3 DEF LoadCrashes, Crash
<1>4. CASE Advertise(r)
  <2>1. /\ pc[r] = "report" /\ pc'[r] = "relookup" /\ Alive(req[r].self) /\ req[r].op = "get"
        /\ UNCHANGED <<disk, myId, addr, req>>
    BY <1>1, <1>4 DEF Advertise, At
  <2>2. c \in Cdns /\ f \in Files /\ myId[c] = req[r].self
    BY <2>1, AtCdn DEF Alive, CdnOf
  <2>3. hash[f] # Absent
    <3>1. body[r] \in Versions /\ body[r] = fss[f]
      BY <2>1 DEF TypeInv, Registered, CacheInv, BodyInv
    <3>2. hash[f] = fss[f]
      BY <2>1, <2>2 DEF MetaInv, OneSlot
    <3> QED BY <3>1, <3>2, MarkersAssumption
  <2>4. /\ holders'[f] = holders[f] \cup {req[r].self}
        /\ \A g \in Files : g # f => holders'[g] = holders[g]
    BY <1>4, <2>2, <2>3 DEF Advertise, TypeInv, TypeOK
  <2>5. Unlisted(r) = {c}
    BY <2>1 DEF Unlisted
  <2> QED BY <2>1, <2>2, <2>4, <2>5 DEF Covered
<1> QED BY <1>2, <1>3, <1>4 DEF GetStep

\* Making room, writing the copy, and reporting what was evicted.
LEMMA ListingStore ==
  ASSUME OneSlot, TypeInv, CacheInv, NEW r \in Reqs, Covered(r),
         StoreStep(r), faults = 0, faults' = 0
  PROVE  Covered(r)'
<1> DEFINE c == CdnOf(r)  f == FileOf(r)
<1>1. /\ pc[r] \in {"manage", "write", "report"} /\ c \in Cdns /\ f \in Files
      /\ ~ManageCrashes(r) /\ UNCHANGED <<myId, addr, req>> /\ c' = c /\ f' = f
  <2>1. ~ManageCrashes(r)
    BY DEF ManageCrashes, Crash
  <2>2. pc[r] \in {"manage", "write", "report"} /\ UNCHANGED <<myId, addr, req>>
    BY <2>1 DEF StoreStep, Manage, ManageFails, WriteCopy, Report, At
  <2>3. c' = c /\ f' = f
    BY <2>2 DEF CdnOf, FileOf
  <2> QED BY <2>1, <2>2, <2>3, AtCdn
<1>2. /\ lru[c] \in Seq(Files) /\ disk \in [Cdns -> [Files -> Versions \cup {Absent}]]
      /\ pc \in [Reqs -> Final \cup CdnSteps \cup MetaSteps]
      /\ evicted \in [Reqs -> Seq(Files)] /\ holders \in [Files -> SUBSET Nat]
  BY <1>1 DEF TypeInv, TypeOK
<1>3. CASE Manage(r)
  <2>1. PICK k \in Turns(c, f) :
          /\ disk' = [disk EXCEPT ![c] = Erase(disk[c], Gone(lru[c], k))]
          /\ evicted' = [evicted EXCEPT ![r] = Victims(lru[c], k)]
    BY <1>3 DEF Manage
  <2>2. pc[r] = "manage" /\ pc'[r] = "write" /\ UNCHANGED holders /\ k \in 0..Len(lru[c])
    BY <1>2, <1>3, TurnsType DEF Manage, At
  <2>3. Unlisted(r) = {}
    BY <2>2 DEF Unlisted
  <2>4. \A d \in Cdns, g \in Files : disk'[d][g] # Absent => disk[d][g] # Absent
    BY <1>1, <1>2, <2>1 DEF Erase
  <2>5. Gone(lru[c], k) = ToSet(Victims(lru[c], k)) /\ Victims(lru[c], k) \in Seq(Files)
    <3>1. DOMAIN Victims(lru[c], k) = 1..k
      BY DEF Victims
    <3> QED BY <1>2, <2>2, <3>1, EvictionType DEF Gone, ToSet
  <2>6. evicted'[r] = Victims(lru[c], k)
    BY <1>2, <2>1
  <2>7. \A g \in ToSet(evicted'[r]) : disk'[c][g] = Absent
    <3>1. ToSet(evicted'[r]) \subseteq Files
      BY <2>5, <2>6 DEF ToSet
    <3>2. disk'[c] = Erase(disk[c], Gone(lru[c], k))
      BY <1>1, <1>2, <2>1
    <3> QED BY <2>5, <2>6, <3>1, <3>2 DEF Erase
  <2> QED BY <1>1, <2>2, <2>3, <2>4, <2>7 DEF Covered
<1>4. CASE ManageFails(r)
  <2>1. /\ disk' = [disk EXCEPT ![c] = Erase(disk[c], Tracked(c))]
        /\ pc[r] = "manage" /\ pc'[r] = "notFound" /\ UNCHANGED holders
    BY <1>2, <1>4 DEF ManageFails, At
  <2>2. Unlisted(r) = {}
    BY <2>1 DEF Unlisted
  <2>3. \A d \in Cdns, g \in Files : disk'[d][g] # Absent => disk[d][g] # Absent
    BY <1>1, <1>2, <2>1 DEF Erase
  <2> QED BY <1>1, <2>1, <2>2, <2>3 DEF Covered
<1>5. CASE WriteCopy(r)
  <2>1. /\ disk' = [disk EXCEPT ![c] = [disk[c] EXCEPT ![f] = body[r]]]
        /\ pc[r] = "write" /\ pc'[r] = "report" /\ UNCHANGED <<holders, evicted>>
    BY <1>2, <1>5 DEF WriteCopy, At
  <2>2. \A d \in Cdns, g \in Files : d # c \/ g # f => disk'[d][g] = disk[d][g]
    BY <1>1, <1>2, <2>1
  <2>3. Unlisted(r) = {} /\ Unlisted(r)' = {c}
    BY <1>1, <2>1 DEF Unlisted
  <2>4. ToSet(evicted[r]) \subseteq Files
    BY <1>2 DEF ToSet
  <2>5. \A g \in ToSet(evicted'[r]) : g = f \/ disk'[c][g] = Absent
    BY <1>1, <2>1, <2>2, <2>4 DEF Covered
  <2> QED BY <1>1, <2>1, <2>2, <2>3, <2>5 DEF Covered
<1>6. CASE Report(r)
  <2>1. /\ pc[r] = "report" /\ UNCHANGED <<pc, disk, targets>> /\ evicted[r] # <<>>
        /\ holders' = [holders EXCEPT ![Head(evicted[r])] = holders[Head(evicted[r])] \ {req[r].self}]
        /\ evicted' = [evicted EXCEPT ![r] = Tail(evicted[r])]
    BY <1>6 DEF Report, At
  <2>2. Head(evicted[r]) \in ToSet(evicted[r]) /\ ToSet(evicted'[r]) \subseteq ToSet(evicted[r])
    BY <1>2, <2>1 DEF ToSet
  <2>3. Unlisted(r) = {c} /\ Unlisted(r)' = {c}
    BY <1>1, <2>1 DEF Unlisted
  <2>4. ASSUME NEW d \in Cdns, NEW g \in Files, disk[d][g] # Absent, d # c \/ g # f
        PROVE  myId[d] \in holders'[g]
    <3>1. myId[d] \in holders[g]
      BY <2>3, <2>4 DEF Covered
    <3>2. g = Head(evicted[r]) => myId[d] # req[r].self
      <4>1. g = Head(evicted[r]) => d # c
        BY <2>1, <2>2, <2>4 DEF Covered
      <4>2. req[r].self \in DOMAIN addr /\ addr[req[r].self] = c
        BY <2>1 DEF TypeInv, Registered, CdnOf
      <4> QED BY <2>4, <4>1, <4>2, CopyHolder
    <3> QED BY <1>2, <2>1, <3>1, <3>2
  <2>5. \A d \in Cdns, g \in Files : disk'[d][g] # Absent =>
          myId'[d] \in holders'[g] \/ (FileOf(r)' = g /\ d \in Unlisted(r)')
    BY <1>1, <2>1, <2>3, <2>4
  <2>6. \A g \in ToSet(evicted'[r]) : g = FileOf(r)' \/ disk'[CdnOf(r)'][g] = Absent
    BY <1>1, <2>1, <2>2 DEF Covered
  <2> QED BY <2>1, <2>5, <2>6 DEF Covered
<1> QED BY <1>1, <1>3, <1>4, <1>5, <1>6 DEF StoreStep

\* The upload and what Meta makes of it.
LEMMA ListingPut ==
  ASSUME OneSlot, TypeInv, Unbroken, CacheInv, NEW r \in Reqs, Covered(r),
         PutStep(r), faults = 0, faults' = 0
  PROVE  Covered(r)'
<1> DEFINE c == CdnOf(r)  f == FileOf(r)
<1>1. pc[r] \in {"report", "update"} \cup MetaSteps
  BY DEF PutStep, Upload, UploadRefused, RollbackCrashes, Update, Stamp,
         Revoke, RevokeLost, Reply, At
<1>2. /\ c \in Cdns /\ f \in Files /\ ~RollbackCrashes(r) /\ ~RevokeLost(r)
  BY <1>1, AtCdn DEF RollbackCrashes, Crash, RevokeLost, Unbroken, TypeInv, Registered
<1>3. UNCHANGED <<myId, addr, up, req>> /\ FileOf(r)' = f /\ CdnOf(r)' = c
  BY <1>2 DEF PutStep, Upload, UploadRefused, Update, Stamp, Revoke, Reply, DeleteFile,
              CdnOf, FileOf
<1>4. /\ pc \in [Reqs -> Final \cup CdnSteps \cup MetaSteps]
      /\ disk \in [Cdns -> [Files -> Versions \cup {Absent}]]
      /\ holders \in [Files -> SUBSET Nat] /\ targets \in [Reqs -> SUBSET Nat]
  BY DEF TypeInv, TypeOK
<1>5. req[r].self \in DOMAIN addr /\ addr[req[r].self] = c
  BY <1>1 DEF TypeInv, Registered, CdnOf
<1>6. CASE Upload(r)
  <2>1. pc[r] = "report" /\ pc'[r] = "update" /\ UNCHANGED <<disk, holders>>
    BY <1>4, <1>6 DEF Upload, At
  <2>2. Unlisted(r)' = Unlisted(r)
    BY <1>3, <2>1 DEF Unlisted
  <2> QED BY <1>3, <2>1, <2>2 DEF Covered
<1>7. CASE UploadRefused(r)
  <2>1. /\ pc[r] = "report" /\ pc'[r] = "notFound" /\ UNCHANGED holders
        /\ disk' = [disk EXCEPT ![c] = [disk[c] EXCEPT ![f] = Absent]]
    BY <1>4, <1>7 DEF UploadRefused, DeleteFile, At
  <2>2. /\ disk'[c][f] = Absent
        /\ \A d \in Cdns, g \in Files : d # c \/ g # f => disk'[d][g] = disk[d][g]
    BY <1>2, <1>4, <2>1
  <2>3. Unlisted(r) = {c}
    BY <2>1 DEF Unlisted
  <2> QED BY <1>3, <2>1, <2>2, <2>3 DEF Covered
<1>8. CASE Update(r)
  <2>1. /\ pc[r] = "update" /\ pc'[r] = "stamp" /\ UNCHANGED disk
        /\ holders' = [holders EXCEPT ![f] = {req[r].self}] /\ myId[c] = req[r].self
    BY <1>4, <1>8 DEF Update, At, Alive, CdnOf
  <2>2. /\ holders'[f] = {req[r].self}
        /\ \A g \in Files : g # f => holders'[g] = holders[g]
    BY <1>2, <1>4, <2>1
  <2>3. Unlisted(r)' = Cdns \ {c}
    BY <1>3, <2>1 DEF Unlisted
  <2> QED BY <1>3, <2>1, <2>2, <2>3 DEF Covered
<1>9. CASE Stamp(r)
  <2>1. /\ pc[r] = "stamp" /\ pc'[r] = "invalidate" /\ UNCHANGED <<disk, holders>>
        /\ targets'[r] = DOMAIN addr \ {req[r].self}
    BY <1>4, <1>9 DEF Stamp
  <2>2. Unlisted(r) = Cdns \ {c} /\ Unlisted(r)' = {addr[i] : i \in DOMAIN addr \ {req[r].self}}
    BY <1>3, <2>1 DEF Unlisted
  <2>3. ASSUME NEW d \in Cdns, disk[d][f] # Absent, d # c PROVE d \in Unlisted(r)'
    BY <1>2, <1>5, <2>2, <2>3, CopyHolder
  <2> QED BY <1>3, <2>1, <2>2, <2>3 DEF Covered
<1>10. CASE Revoke(r)
  <2>1. /\ pc[r] = "revoke" /\ pc'[r] = "invalidate" /\ UNCHANGED <<disk, targets>>
        /\ holders' = [holders EXCEPT ![f] = holders[f] \ {peer[r]}]
    BY <1>4, <1>10 DEF Revoke
  <2>2. peer[r] \in DOMAIN addr /\ disk[addr[peer[r]]][f] = Absent
    BY <2>1 DEF TypeInv, Registered, Covered
  <2>3. Unlisted(r)' = Unlisted(r)
    BY <1>3, <2>1 DEF Unlisted
  <2>4. \A d \in Cdns : disk[d][f] # Absent => myId[d] # peer[r]
    BY <1>2, <2>2, CopyHolder
  <2>5. \A d \in Cdns, g \in Files : disk[d][g] # Absent /\ myId[d] \in holders[g] =>
          myId[d] \in holders'[g]
    BY <1>2, <1>4, <2>1, <2>4
  <2> QED BY <1>3, <2>1, <2>3, <2>5 DEF Covered
<1>11. CASE Reply(r)
  <2>1. /\ pc[r] = "invalidate" /\ pc'[r] \in {"ok", "error"} /\ targets[r] = {}
        /\ UNCHANGED <<disk, myId, holders>>
    BY <1>4, <1>11 DEF Reply
  <2>2. Unlisted(r) = {}
    BY <2>1 DEF Unlisted
  <2> QED BY <2>1, <2>2, ListingQuiet
<1> QED BY <1>2, <1>6, <1>7, <1>8, <1>9, <1>10, <1>11 DEF PutStep

\* One turn of the invalidation loop.
LEMMA ListingLoop ==
  ASSUME OneSlot, TypeInv, Unbroken, CacheInv, NEW r \in Reqs, Covered(r),
         LoopStep(r), faults = 0, faults' = 0
  PROVE  Covered(r)'
<1> DEFINE f == FileOf(r)
<1>1. PICK d \in targets[r] : Invalidate(r, d) \/ InvalidateCrashes(r, d) \/ Unreachable(r, d)
  BY DEF LoopStep
<1>2. d \in DOMAIN addr /\ addr[d] \in Cdns
  BY DEF TypeInv, TypeOK, Registered
<1>3. Invalidate(r, d)
  BY <1>1, <1>2 DEF InvalidateCrashes, Crash, Unreachable, Unbroken, Alive
<1>4. /\ pc[r] = "invalidate" /\ up[addr[d]] /\ UNCHANGED <<holders, myId, addr, req>>
      /\ targets'[r] = targets[r] \ {d}
      /\ disk' = [disk EXCEPT ![addr[d]] = [disk[addr[d]] EXCEPT ![f] = Absent]]
      /\ \/ pc'[r] = "revoke" /\ peer'[r] = myId[addr[d]]
         \/ pc'[r] = "invalidate"
  BY <1>3 DEF Invalidate, DeleteFile, TypeInv, TypeOK
<1>5. f \in Files /\ FileOf(r)' = f
  BY <1>4, AtCdn DEF FileOf
<1>6. /\ disk'[addr[d]][f] = Absent
      /\ \A c \in Cdns, g \in Files : c # addr[d] \/ g # f => disk'[c][g] = disk[c][g]
  BY <1>2, <1>4, <1>5 DEF TypeInv, TypeOK
<1>7. \A c \in Unlisted(r) : c # addr[d] => c \in Unlisted(r)'
  BY <1>4 DEF Unlisted
<1>8. pc'[r] = "revoke" => disk'[addr'[peer'[r]]][f] = Absent
  <2>1. addr[myId[addr[d]]] = addr[d]
    BY <1>2, <1>4 DEF TypeInv, Registered
  <2> QED BY <1>4, <1>6, <2>1
<1>9. pc'[r] \notin {"write", "report"}
  BY <1>4
<1> QED BY <1>4, <1>5, <1>6, <1>7, <1>8, <1>9 DEF Covered

\* A CDN that starts has no copies yet.
LEMMA ListingJoin ==
  ASSUME TypeInv, CacheInv, ListingInv, faults = 0, NEW c \in Cdns, CdnStart(c)
  PROVE  ListingInv'
<1>1. /\ UNCHANGED <<holders, disk, pc, req, evicted, peer, faults>> /\ ~up[c]
      /\ addr' = Append(addr, c) /\ myId' = [myId EXCEPT ![c] = Len(addr) + 1]
      /\ \A s \in Reqs : targets[s] \subseteq targets'[s]
  BY DEF CdnStart
<1>2. \A i \in DOMAIN addr : addr'[i] = addr[i]
  BY <1>1 DEF TypeInv, TypeOK
<1>3. \A s \in Reqs : FileOf(s)' = FileOf(s) /\ (pc[s] # "idle" => CdnOf(s)' = CdnOf(s))
  BY <1>1, <1>2 DEF FileOf, CdnOf, TypeInv, Registered
<1>4. ASSUME NEW s \in Reqs PROVE Unlisted(s) \subseteq Unlisted(s)'
  <2>1. {addr[i] : i \in targets[s]} \subseteq {addr'[i] : i \in targets'[s]}
    BY <1>1, <1>2 DEF TypeInv, Registered
  <2>2. CASE pc[s] = "idle"
    BY <1>1, <2>2 DEF Unlisted
  <2>3. CASE pc[s] # "idle"
    BY <1>1, <1>3, <2>1, <2>3 DEF Unlisted
  <2> QED BY <2>2, <2>3
<1>5. \A d \in Cdns, f \in Files : disk'[d][f] # Absent => myId'[d] = myId[d]
  BY <1>1 DEF CacheInv, TypeInv, TypeOK
<1>6. \A d \in Cdns, f \in Files : disk'[d][f] # Absent =>
        myId'[d] \in holders'[f] \/ \E s \in Reqs : FileOf(s)' = f /\ d \in Unlisted(s)'
  BY <1>1, <1>3, <1>4, <1>5 DEF ListingInv
<1>7. \A s \in Reqs : pc'[s] \in {"write", "report"} =>
        \A f \in ToSet(evicted'[s]) : f = FileOf(s)' \/ disk'[CdnOf(s)'][f] = Absent
  BY <1>1, <1>3 DEF ListingInv
<1>8. \A s \in Reqs : pc'[s] = "revoke" => disk'[addr'[peer'[s]]][FileOf(s)'] = Absent
  BY <1>1, <1>2, <1>3 DEF ListingInv, TypeInv, Registered
<1> QED BY <1>6, <1>7, <1>8 DEF ListingInv

\* Every step keeps ListingInv.
LEMMA ListingNext ==
  ASSUME OneSlot, TypeInv, Unbroken, MetaInv, CacheInv, ListingInv, [Next]_vars
  PROVE  ListingInv'
<1> SUFFICES ASSUME faults' = 0 PROVE ListingInv'
  BY DEF ListingInv
<1>1. faults = 0
  BY FaultsGrow
<1>2. ASSUME NEW r \in Reqs, Step(r) \/ Start(r) PROVE ListingInv'
  <2>1. ~Abandon(r)
    <3>1. ASSUME Abandon(r) PROVE Alive(req[r].self)
      BY <1>1, <3>1 DEF Abandon, Unbroken, TypeInv, Registered
    <3> QED BY <3>1 DEF Abandon
  <2>2. Covered(r)
    BY <1>1, ListingIs
  <2>3. Covered(r)'
    BY <1>1, <1>2, <2>1, <2>2, ListingGet, ListingStore, ListingPut, ListingLoop DEF Step
  <2> QED BY <2>3, ListingIs
<1>3. ASSUME NEW r \in Reqs, Fail(r) PROVE ListingInv'
  BY <1>1, <1>3 DEF Fail, WriteFails, CallThrows, DeleteThrows, RevokeThrows
<1>4. ASSUME NEW c \in Cdns, CdnStop(c) PROVE ListingInv'
  BY <1>1, <1>4 DEF CdnStop, Crash
<1>5. CASE UNCHANGED vars
  BY <1>5 DEF vars, ListingInv, Unlisted, FileOf, CdnOf
<1> QED BY <1>1, <1>2, <1>3, <1>4, <1>5, ListingJoin DEF Next

\* With one request at a time, and as long as nothing fails, Meta lists between
\* requests every CDN that has a copy: no eviction report and no invalidation
\* takes away the listing of a copy that is there.
THEOREM CopiesAreListed == OneSlot /\ Spec => []EveryCopyListed
<1> SUFFICES ASSUME OneSlot PROVE Spec => []EveryCopyListed
  OBVIOUS
<1> DEFINE Inv == TypeInv /\ Unbroken /\ MetaInv /\ CacheInv /\ ListingInv
<1>1. PrivateFiles /\ SingleWriters
  BY DEF OneSlot, PrivateFiles, SingleWriters
<1>2. Init => Inv
  BY TypeInit DEF Init, Unbroken, MetaInv, CacheInv, BodyInv, ListingInv
<1>3. Inv /\ [Next]_vars => Inv'
  BY <1>1, TypeNext, UnbrokenNext, MetaNext, CacheNext, ListingNext
<1>4. Inv => EveryCopyListed
  BY DEF ListingInv, EveryCopyListed, NothingRunning, Active, Unlisted
<1> QED BY <1>2, <1>3, <1>4, PTL DEF Spec

-----------------------------------------------------------------------------
(* One request at a time: the capacity.                                    *)

\* What is known of the sizes of finitely many files.
LEMMA SizesAre ==
  ASSUME NEW S \in SUBSET Files, IsFiniteSet(S)
  PROVE  /\ SumFunctionOnSet(Size, S) \in Nat
         /\ S = {} => SumFunctionOnSet(Size, S) = 0
         /\ \A T \in SUBSET S : SumFunctionOnSet(Size, T) <= SumFunctionOnSet(Size, S)
         /\ MeasuredInFull => SumFunctionOnSet(Size, S) <= SumFunctionOnSet(Measured, S)
         /\ SumFunctionOnSet(Measured, S) \in Nat
         /\ \A f \in Files : SumFunctionOnSet(Size, S \cup {f})
                               <= SumFunctionOnSet(Size, S) + Size[f]
<1>1. \A f \in Files : Size[f] \in Nat /\ Measured[f] \in Nat
  BY SizeAssumption
<1>2. /\ SumFunctionOnSet(Size, S) \in Nat /\ SumFunctionOnSet(Measured, S) \in Nat
      /\ S = {} => SumFunctionOnSet(Size, S) = 0
  BY <1>1, SumTake
<1>3. \A T \in SUBSET S : SumFunctionOnSet(Size, T) <= SumFunctionOnSet(Size, S)
  BY <1>1, SumPart
<1>4. MeasuredInFull => SumFunctionOnSet(Size, S) <= SumFunctionOnSet(Measured, S)
  BY <1>1, SumLarger DEF MeasuredInFull
<1>5. ASSUME NEW f \in Files, f \notin S
      PROVE  SumFunctionOnSet(Size, S \cup {f}) = Size[f] + SumFunctionOnSet(Size, S)
  <2> DEFINE T == S \cup {f}
  <2>1. IsFiniteSet(T) /\ f \in T /\ T \ {f} = S
    BY <1>5, FS_AddElement
  <2>2. \A x \in T : Size[x] \in Nat
    BY <1>1
  <2> HIDE DEF T
  <2>3. SumFunctionOnSet(Size, T) = Size[f] + SumFunctionOnSet(Size, T \ {f})
    BY <2>1, <2>2, SumTake
  <2> QED BY <2>1, <2>3 DEF T
<1>6. ASSUME NEW f \in Files
      PROVE  SumFunctionOnSet(Size, S \cup {f}) <= SumFunctionOnSet(Size, S) + Size[f]
  <2>1. CASE f \in S
    <3>1. S \cup {f} = S
      BY <2>1
    <3> QED BY <1>1, <1>2, <3>1
  <2>2. CASE f \notin S
    BY <1>1, <1>2, <1>5, <2>2
  <2> QED BY <2>1, <2>2
<1> QED BY <1>2, <1>3, <1>4, <1>6

\* RoomInv, and what the sums need: the files on a disk are finitely many.
Finite == \A c \in Cdns : IsFiniteSet(OnDisk(c))

\* Steps that add nothing to a disk and reserve nothing.
LEMMA RoomShrinks ==
  ASSUME OneSlot, TypeInv, Finite, RoomInv,
         \A c \in Cdns : OnDisk(c)' \subseteq OnDisk(c),
         \A r \in Reqs : pc'[r] = "write" =>
           pc[r] = "write" /\ FileOf(r)' = FileOf(r) /\ CdnOf(r)' = CdnOf(r)
  PROVE  Finite' /\ RoomInv'
<1>1. ASSUME NEW c \in Cdns
      PROVE  /\ IsFiniteSet(OnDisk(c)')
             /\ SumFunctionOnSet(Size, OnDisk(c)') <= SumFunctionOnSet(Size, OnDisk(c))
             /\ SumFunctionOnSet(Size, OnDisk(c)') \in Nat
             /\ SumFunctionOnSet(Size, OnDisk(c)) \in Nat
  <2>1. IsFiniteSet(OnDisk(c)) /\ OnDisk(c) \in SUBSET Files /\ OnDisk(c)' \in SUBSET OnDisk(c)
    BY DEF Finite, OnDisk
  <2>2. IsFiniteSet(OnDisk(c)')
    BY <2>1, FS_Subset
  <2> QED BY <2>1, <2>2, SizesAre
<1>2. ASSUME NEW c \in Cdns, NEW f \in Files
      PROVE  /\ SumFunctionOnSet(Size, OnDisk(c)' \cup {f})
                  <= SumFunctionOnSet(Size, OnDisk(c) \cup {f})
             /\ SumFunctionOnSet(Size, OnDisk(c)' \cup {f}) \in Nat
             /\ SumFunctionOnSet(Size, OnDisk(c) \cup {f}) \in Nat
  <2> DEFINE S == OnDisk(c) \cup {f}
             T == OnDisk(c)' \cup {f}
  <2>1. IsFiniteSet(S) /\ S \in SUBSET Files /\ T \in SUBSET S
    BY FS_AddElement DEF Finite, OnDisk
  <2>2. IsFiniteSet(T)
    BY <2>1, FS_Subset
  <2> HIDE DEF S, T
  <2>3. SumFunctionOnSet(Size, T) <= SumFunctionOnSet(Size, S)
        /\ SumFunctionOnSet(Size, S) \in Nat /\ SumFunctionOnSet(Size, T) \in Nat
    BY <2>1, <2>2, SizesAre
  <2> QED BY <2>3 DEF S, T
<1>3. ASSUME NEW c \in Cdns PROVE SumFunctionOnSet(Size, OnDisk(c)') <= Capacity
  BY <1>1, SizeAssumption DEF RoomInv
<1>4. ASSUME NEW c \in Cdns, NEW r \in Reqs, pc'[r] = "write", CdnOf(r)' = c
      PROVE  SumFunctionOnSet(Size, OnDisk(c)' \cup {FileOf(r)'}) <= Capacity
  <2>1. FileOf(r) \in Files /\ FileOf(r)' = FileOf(r) /\ pc[r] = "write" /\ CdnOf(r) = c
    BY <1>4, AtCdn
  <2>2. PICK f \in Files : f = FileOf(r) /\ f = FileOf(r)'
    BY <2>1
  <2>3. SumFunctionOnSet(Size, OnDisk(c) \cup {f}) <= Capacity
    BY <2>1, <2>2 DEF RoomInv
  <2>4. /\ SumFunctionOnSet(Size, OnDisk(c)' \cup {f}) <= SumFunctionOnSet(Size, OnDisk(c) \cup {f})
        /\ SumFunctionOnSet(Size, OnDisk(c)' \cup {f}) \in Nat
        /\ SumFunctionOnSet(Size, OnDisk(c) \cup {f}) \in Nat
    BY <1>2
  <2>5. SumFunctionOnSet(Size, OnDisk(c)' \cup {f}) <= Capacity
    BY <2>3, <2>4, SizeAssumption
  <2> QED BY <2>2, <2>5
<1> QED BY <1>1, <1>3, <1>4 DEF Finite, RoomInv

\* The eviction loop makes room,
LEMMA RoomMade ==
  ASSUME OneSlot, MeasuredInFull, TypeInv, Finite, RoomInv, NEW r \in Reqs, Manage(r)
  PROVE  Finite' /\ RoomInv'
<1> DEFINE f == FileOf(r)
<1>1. pc[r] = "manage" /\ UNCHANGED <<addr, req>>
  BY DEF Manage, At
<1>2. PICK c \in Cdns : c = CdnOf(r) /\ c = CdnOf(r)' /\ f = FileOf(r)' /\ f \in Files
  BY <1>1, AtCdn DEF CdnOf, FileOf
<1>3. PICK k \in Turns(c, f) : disk' = [disk EXCEPT ![c] = Erase(disk[c], Gone(lru[c], k))]
  BY <1>2 DEF Manage
<1>4. /\ OnDisk(c)' = OnDisk(c) \ Gone(lru[c], k)
      /\ \A d \in Cdns \ {c} : OnDisk(d)' = OnDisk(d)
  BY <1>2, <1>3 DEF OnDisk, Erase, TypeInv, TypeOK
<1> DEFINE S == OnDisk(c) \ Gone(lru[c], k)
<1>5. SumFunctionOnSet(Measured, S) + Size[f] <= Capacity
  BY <1>3 DEF Turns, Fits
<1>6. IsFiniteSet(S) /\ S \in SUBSET Files /\ S \in SUBSET OnDisk(c)
  BY FS_Difference DEF Finite, OnDisk
<1> HIDE DEF S
<1>7. /\ SumFunctionOnSet(Size, S) \in Nat /\ SumFunctionOnSet(Measured, S) \in Nat
      /\ SumFunctionOnSet(Size, S) <= SumFunctionOnSet(Measured, S)
      /\ SumFunctionOnSet(Size, S \cup {f}) <= SumFunctionOnSet(Size, S) + Size[f]
  BY <1>2, <1>6, SizesAre
<1>8. SumFunctionOnSet(Size, S \cup {f}) \in Nat
  <2>1. IsFiniteSet(S \cup {f}) /\ S \cup {f} \in SUBSET Files
    BY <1>2, <1>6, FS_AddElement
  <2> DEFINE T == S \cup {f}
  <2> HIDE DEF T
  <2>2. SumFunctionOnSet(Size, T) \in Nat
    BY <2>1, SizesAre DEF T
  <2> QED BY <2>2 DEF T
<1>9. SumFunctionOnSet(Size, S) <= Capacity /\ SumFunctionOnSet(Size, S \cup {f}) <= Capacity
  BY <1>2, <1>5, <1>7, <1>8, SizeAssumption
<1>10. \A d \in Cdns : IsFiniteSet(OnDisk(d)') /\ SumFunctionOnSet(Size, OnDisk(d)') <= Capacity
  BY <1>4, <1>6, <1>9 DEF Finite, RoomInv, S
<1>11. \A s \in Reqs : s = r
  BY DEF OneSlot
<1> QED BY <1>2, <1>4, <1>9, <1>10, <1>11 DEF Finite, RoomInv, S

\* and the copy fits in it.
LEMMA RoomUsed ==
  ASSUME OneSlot, TypeInv, Finite, RoomInv, NEW r \in Reqs, WriteCopy(r)
  PROVE  Finite' /\ RoomInv'
<1> DEFINE f == FileOf(r)
<1>1. pc[r] = "write" /\ pc'[r] = "report"
  BY DEF WriteCopy, At, TypeInv, TypeOK
<1>2. PICK c \in Cdns : c = CdnOf(r) /\ f \in Files
  BY <1>1, AtCdn
<1>3. disk' = [disk EXCEPT ![c] = [disk[c] EXCEPT ![f] = body[r]]] /\ body[r] # Absent
  BY <1>1, <1>2, MarkersAssumption DEF WriteCopy, TypeInv, Registered
<1>4. OnDisk(c)' = OnDisk(c) \cup {f} /\ \A d \in Cdns \ {c} : OnDisk(d)' = OnDisk(d)
  BY <1>2, <1>3 DEF OnDisk, TypeInv, TypeOK
<1>5. IsFiniteSet(OnDisk(c) \cup {f})
  BY FS_AddElement DEF Finite
<1>6. SumFunctionOnSet(Size, OnDisk(c) \cup {f}) <= Capacity
  BY <1>1, <1>2 DEF RoomInv
<1>7. \A s \in Reqs : pc'[s] # "write"
  BY <1>1 DEF OneSlot
<1> QED BY <1>4, <1>5, <1>6, <1>7 DEF Finite, RoomInv

\* The other steps of a handler.
LEMMA RoomOther ==
  ASSUME OneSlot, TypeInv, Finite, RoomInv, NEW r \in Reqs,
         Step(r) \/ Start(r) \/ Fail(r), ~Manage(r), ~WriteCopy(r)
  PROVE  Finite' /\ RoomInv'
<1>1. pc \in [Reqs -> Final \cup CdnSteps \cup MetaSteps]
  BY DEF TypeInv, TypeOK
<1>2. ASSUME pc[r] # "write", pc'[r] # "write", UNCHANGED disk PROVE Finite' /\ RoomInv'
  BY <1>2, RoomShrinks DEF OneSlot, OnDisk
<1>3. CASE ManageFails(r) \/ ManageCrashes(r)
  <2>1. /\ pc[r] = "manage" /\ pc'[r] # "write"
        /\ \E S : disk' = [disk EXCEPT ![CdnOf(r)] = Erase(disk[CdnOf(r)], S)]
    BY <1>1, <1>3 DEF ManageFails, ManageCrashes, At
  <2>2. \A c \in Cdns : OnDisk(c)' \subseteq OnDisk(c)
    BY <2>1, AtCdn DEF OnDisk, Erase, TypeInv, TypeOK
  <2> QED BY <2>1, <2>2, RoomShrinks DEF OneSlot
<1>4. ASSUME NEW c \in Cdns, DeleteFile(c, FileOf(r)), pc[r] \notin {"write", "idle"}, pc'[r] # "write"
      PROVE  Finite' /\ RoomInv'
  <2>1. \A d \in Cdns : OnDisk(d)' \subseteq OnDisk(d)
    BY <1>4, AtCdn DEF DeleteFile, OnDisk, TypeInv, TypeOK
  <2> QED BY <1>4, <2>1, RoomShrinks DEF OneSlot
<1>5. CASE UploadRefused(r)
  <2>1. pc[r] = "report" /\ pc'[r] = "notFound" /\ DeleteFile(CdnOf(r), FileOf(r))
    BY <1>1, <1>5 DEF UploadRefused, At
  <2> QED BY <1>4, <2>1, AtCdn
<1>6. CASE LoopStep(r)
  <2>1. PICK d \in targets[r] : Invalidate(r, d) \/ InvalidateCrashes(r, d) \/ Unreachable(r, d)
    BY <1>6 DEF LoopStep
  <2>2. addr[d] \in Cdns
    BY DEF TypeInv, TypeOK, Registered
  <2>3. CASE Invalidate(r, d)
    <3>1. pc[r] = "invalidate" /\ pc'[r] # "write" /\ DeleteFile(addr[d], FileOf(r))
      BY <1>1, <2>3 DEF Invalidate
    <3> QED BY <1>4, <2>2, <3>1
  <2>4. CASE InvalidateCrashes(r, d) \/ Unreachable(r, d)
    <3>1. pc[r] = "invalidate" /\ pc'[r] # "write" /\ UNCHANGED disk
      BY <1>1, <2>4 DEF InvalidateCrashes, Unreachable
    <3> QED BY <1>2, <3>1
  <2> QED BY <2>1, <2>3, <2>4
<1>7. CASE Lookup(r) \/ Fetch(r) \/ Advertise(r) \/ Relookup(r) \/ Load(r) \/ LoadCrashes(r)
           \/ Report(r) \/ Start(r)
  <2>1. pc[r] # "write" /\ pc'[r] # "write" /\ UNCHANGED disk
    BY <1>1, <1>7 DEF Lookup, Fetch, Advertise, Relookup, Load, LoadCrashes, Report,
                      Start, StartGet, StartPut, Begin, At
  <2> QED BY <1>2, <2>1
<1>8. CASE Upload(r) \/ RollbackCrashes(r) \/ Update(r) \/ Stamp(r) \/ Revoke(r)
           \/ RevokeLost(r) \/ Reply(r)
           \/ CallThrows(r) \/ DeleteThrows(r) \/ RevokeThrows(r)
  <2>1. pc[r] # "write" /\ pc'[r] # "write" /\ UNCHANGED disk
    BY <1>1, <1>8 DEF Upload, RollbackCrashes, Update, Stamp, Revoke, RevokeLost, Reply,
                      CallThrows, DeleteThrows, RevokeThrows, At
  <2> QED BY <1>2, <2>1
<1>9. CASE Abandon(r) \/ WriteFails(r)
  <2>1. pc'[r] # "write" /\ UNCHANGED disk
    BY <1>1, <1>9 DEF Abandon, WriteFails
  <2> QED BY <2>1, RoomShrinks DEF OneSlot, OnDisk
<1> QED BY <1>3, <1>5, <1>6, <1>7, <1>8, <1>9 DEF Step, GetStep, StoreStep, PutStep, Fail

\* Every step keeps the room for the copy that is going to be written.
LEMMA RoomNext ==
  ASSUME OneSlot, MeasuredInFull, TypeInv, Finite, RoomInv, [Next]_vars
  PROVE  Finite' /\ RoomInv'
<1>1. ASSUME NEW c \in Cdns, CdnStart(c) \/ CdnStop(c) PROVE Finite' /\ RoomInv'
  <2>1. UNCHANGED <<disk, pc, req>> /\ (addr' = addr \/ addr' = Append(addr, c))
    BY <1>1 DEF CdnStart, CdnStop, Crash
  <2>2. \A i \in DOMAIN addr : addr'[i] = addr[i]
    <3>1. addr \in Seq(Cdns)
      BY DEF TypeInv, TypeOK
    <3> QED BY <2>1, <3>1
  <2>3. \A r \in Reqs : FileOf(r)' = FileOf(r) /\ (pc[r] # "idle" => CdnOf(r)' = CdnOf(r))
    BY <2>1, <2>2 DEF FileOf, CdnOf, TypeInv, Registered
  <2>4. \A d \in Cdns : OnDisk(d)' = OnDisk(d)
    BY <2>1 DEF OnDisk
  <2> QED BY <2>1, <2>3, <2>4, RoomShrinks
<1>2. CASE UNCHANGED vars
  BY <1>2, RoomShrinks DEF vars, OnDisk, FileOf, CdnOf
<1> QED BY <1>1, <1>2, RoomMade, RoomUsed, RoomOther DEF Next

\* With one request at a time, and files that are measured in full, a storage never
\* exceeds its capacity, whatever crashes and fails: what the eviction loop has
\* made room for is still free when the copy is written.
THEOREM CapacityKept == OneSlot /\ MeasuredInFull /\ Spec => []StorageWithinCapacity
<1> SUFFICES ASSUME OneSlot, MeasuredInFull PROVE Spec => []StorageWithinCapacity
  OBVIOUS
<1> DEFINE Inv == TypeInv /\ Finite /\ RoomInv
<1>1. Init => Inv
  <2> SUFFICES ASSUME Init PROVE Finite /\ RoomInv
    BY TypeInit
  <2>1. \A c \in Cdns : OnDisk(c) = {}
    BY DEF Init, OnDisk
  <2>2. IsFiniteSet({}) /\ SumFunctionOnSet(Size, {}) = 0
    BY FS_EmptySet, SizesAre
  <2>3. \A c \in Cdns : IsFiniteSet(OnDisk(c)) /\ SumFunctionOnSet(Size, OnDisk(c)) <= Capacity
    BY <2>1, <2>2, SizeAssumption
  <2>4. \A r \in Reqs : pc[r] # "write"
    BY DEF Init
  <2> QED BY <2>3, <2>4 DEF Finite, RoomInv
<1>2. Inv /\ [Next]_vars => Inv'
  BY TypeNext, RoomNext
<1>3. Inv => StorageWithinCapacity
  BY DEF RoomInv, StorageWithinCapacity
<1> QED BY <1>1, <1>2, <1>3, PTL DEF Spec

=============================================================================
