--------------------------- MODULE ContentProofs ---------------------------
(***************************************************************************)
(* The composed system whoever uses it.  Type correctness: TypeOK is not   *)
(* inductive by itself, because the address of an id, the file of a        *)
(* request and the content it stores are only defined when the request has *)
(* got that far; TypeInv adds what every handler may rely on (Registered). *)
(* Meta and the FSS: a listed file can always be fetched, and, when each   *)
(* file has one uploader and nothing has failed, Meta's hash and time      *)
(* stamp are those of the stored content.  The requests use Meta as the    *)
(* table of MetaTable, whatever interleaves, crashes or fails: the         *)
(* interface at which ContentNetwork and MetaStore meet.                   *)
(***************************************************************************)
EXTENDS ContentInvariants, SequenceLemmas

\* Removing a file from the list leaves a list of files.
LEMMA WithoutType ==
  ASSUME NEW S, NEW s \in Seq(S), NEW f
  PROVE  Without(s, f) \in Seq(S)
<1>1. CASE \E i \in DOMAIN s : s[i] = f
  <2> DEFINE j == CHOOSE i \in DOMAIN s : s[i] = f
  <2>1. j \in 1..Len(s)
    BY <1>1
  <2>2. Without(s, f) = RemoveAt(s, j)
    BY <1>1 DEF Without
  <2> QED BY <2>1, <2>2, RemoveAtElements
<1>2. CASE ~\E i \in DOMAIN s : s[i] = f
  BY <1>2 DEF Without
<1> QED BY <1>1, <1>2

\* Moving a file to the front leaves a list of files.
LEMMA ToFrontType ==
  ASSUME NEW S, NEW s \in Seq(S), NEW f \in S
  PROVE  ToFront(s, f) \in Seq(S)
<1>1. Without(s, f) \in Seq(S)
  BY WithoutType
<1> QED BY <1>1 DEF ToFront

\* The eviction loop splits the list into two lists of files.
LEMMA EvictionType ==
  ASSUME NEW S, NEW s \in Seq(S), NEW k \in 0..Len(s)
  PROVE  Victims(s, k) \in Seq(S) /\ Kept(s, k) \in Seq(S)
<1>1. \A i \in 1..k : s[Len(s) - i + 1] \in S
  OBVIOUS
<1>2. Victims(s, k) \in [1..k -> S]
  BY <1>1 DEF Victims
<1>3. Victims(s, k) \in Seq(S)
  BY <1>2, k \in Nat
<1>4. \A i \in 1..(Len(s) - k) : s[i] \in S
  OBVIOUS
<1>5. Kept(s, k) \in Seq(S)
  BY <1>4, SubSeqProperties DEF Kept
<1> QED BY <1>3, <1>5

\* Erasing copies leaves a directory of copies.
LEMMA EraseType ==
  ASSUME NEW d \in [Files -> Versions \cup {Absent}], NEW S
  PROVE  Erase(d, S) \in [Files -> Versions \cup {Absent}]
BY DEF Erase

-----------------------------------------------------------------------------
(* Type correctness.  TypeOK is not inductive alone: that a handler works on *)
(* the lists of a CDN needs the ids in requests and loops to be registered.  *)

USE DEF metaVars, nodeVars, cacheVars, callVars, Goto, Request, Final, CdnSteps, MetaSteps

\* The empty system is well typed.
LEMMA TypeInit == Init => TypeInv
BY DEF Init, TypeInv, TypeOK, NoRequest, Registered

\* A handler that runs belongs to a registered CDN.
LEMMA AtCdn ==
  ASSUME TypeInv, NEW r \in Reqs, pc[r] # "idle"
  PROVE  CdnOf(r) \in Cdns /\ FileOf(r) \in Files
BY DEF TypeInv, TypeOK, Registered, CdnOf, FileOf

\* The death of a CDN leaves well-typed memory.
LEMMA CrashType ==
  ASSUME TypeInv, NEW c \in Cdns, Crash(c)
  PROVE  /\ up' \in [Cdns -> BOOLEAN]
         /\ lru' \in [Cdns -> Seq(Files)]
         /\ nulls' \in [Cdns -> SUBSET Files]
         /\ faults' \in Nat
         /\ addr' = addr /\ myId' = myId
         /\ \A d \in Cdns : up'[d] => up[d]
<1> USE DEF TypeInv, TypeOK, Crash
<1>1. up' \in [Cdns -> BOOLEAN] /\ \A d \in Cdns : up'[d] => up[d]
  OBVIOUS
<1>2. lru' \in [Cdns -> Seq(Files)]
  OBVIOUS
<1>3. nulls' \in [Cdns -> SUBSET Files]
  OBVIOUS
<1>4. faults' \in Nat /\ addr' = addr /\ myId' = myId
  OBVIOUS
<1> QED BY <1>1, <1>2, <1>3, <1>4

\* A crash that changes nothing else keeps the type invariant.
LEMMA CrashPreserves ==
  ASSUME TypeInv, NEW c \in Cdns, Crash(c),
         UNCHANGED <<fss, metaVars, disk, pc, callVars>>
  PROVE  TypeInv'
<1>1. TypeOK'
  BY CrashType DEF TypeInv, TypeOK
<1>2. Registered'
  BY CrashType DEF TypeInv, TypeOK, Registered
<1> QED BY <1>1, <1>2 DEF TypeInv

\* A client sends a request to a CDN that runs.
LEMMA TypeStart ==
  ASSUME TypeInv, NEW r \in Reqs, Start(r)
  PROVE  TypeInv'
<1>1. ASSUME NEW c \in Cdns, NEW f \in Files, StartGet(r, c, f)
      PROVE  TypeInv'
  <2>1. TypeOK'
    BY <1>1 DEF TypeInv, TypeOK, StartGet, Begin
  <2>2. Registered'
    BY <1>1 DEF TypeInv, TypeOK, Registered, StartGet, Begin
  <2> QED BY <2>1, <2>2 DEF TypeInv
<1>2. ASSUME NEW c \in Cdns, NEW f \in Files, NEW v \in Versions, StartPut(r, c, f, v)
      PROVE  TypeInv'
  <2>1. TypeOK'
    BY <1>2 DEF TypeInv, TypeOK, StartPut, Begin
  <2>2. Registered'
    BY <1>2 DEF TypeInv, TypeOK, Registered, StartPut, Begin
  <2> QED BY <2>1, <2>2 DEF TypeInv
<1> QED BY <1>1, <1>2 DEF Start

\* A call throws.
LEMMA TypeFail ==
  ASSUME TypeInv, NEW r \in Reqs, Fail(r)
  PROVE  TypeInv'
<1>1. CASE CallThrows(r)
  <2>1. TypeOK'
    BY <1>1 DEF TypeInv, TypeOK, CallThrows, At
  <2>2. Registered'
    BY <1>1 DEF TypeInv, TypeOK, Registered, CallThrows, At
  <2> QED BY <2>1, <2>2 DEF TypeInv
<1>2. CASE DeleteThrows(r)
  <2>1. TypeOK'
    BY <1>2 DEF TypeInv, TypeOK, DeleteThrows
  <2>2. Registered'
    BY <1>2 DEF TypeInv, TypeOK, Registered, DeleteThrows
  <2> QED BY <2>1, <2>2 DEF TypeInv
<1>3. CASE RevokeThrows(r)
  <2>1. TypeOK'
    BY <1>3 DEF TypeInv, TypeOK, RevokeThrows
  <2>2. Registered'
    BY <1>3 DEF TypeInv, TypeOK, Registered, RevokeThrows
  <2> QED BY <2>1, <2>2 DEF TypeInv
<1>4. CASE WriteFails(r)
  <2>1. TypeOK'
    BY <1>4 DEF TypeInv, TypeOK, WriteFails, At
  <2>2. Registered'
    BY <1>4 DEF TypeInv, TypeOK, Registered, WriteFails, At
  <2> QED BY <2>1, <2>2 DEF TypeInv
<1> QED BY <1>1, <1>2, <1>3, <1>4 DEF Fail

\* A CDN registers under a new id, or stops.
LEMMA TypeNode ==
  ASSUME TypeInv, NEW c \in Cdns, CdnStart(c) \/ CdnStop(c)
  PROVE  TypeInv'
<1>1. CASE CdnStart(c)
  <2>1. /\ DOMAIN addr \subseteq DOMAIN addr'
        /\ Len(addr) + 1 \in DOMAIN addr' /\ Len(addr) + 1 \in Nat
        /\ addr'[Len(addr) + 1] = c
        /\ \A i \in DOMAIN addr : addr'[i] = addr[i]
    BY <1>1 DEF TypeInv, TypeOK, CdnStart
  <2>2. PICK R \in SUBSET Looping :
          targets' = [r \in Reqs |-> IF r \in R THEN targets[r] \cup {Len(addr) + 1}
                                                ELSE targets[r]]
    BY <1>1 DEF CdnStart
  <2>3. targets' \in [Reqs -> SUBSET Nat]
    BY <2>1, <2>2 DEF TypeInv, TypeOK
  <2>4. TypeOK'
    BY <1>1, <2>3 DEF TypeInv, TypeOK, CdnStart
  <2>5. \A r \in Reqs : targets'[r] \subseteq DOMAIN addr'
    BY <2>1, <2>2 DEF TypeInv, Registered
  <2>6. Registered'
    BY <1>1, <2>1, <2>5 DEF TypeInv, TypeOK, Registered, CdnStart
  <2> QED BY <2>4, <2>6 DEF TypeInv
<1>2. CASE CdnStop(c)
  BY <1>2, CrashPreserves DEF CdnStop
<1> QED BY <1>1, <1>2

\* The steps of handle_get outside write_file.
LEMMA TypeGet ==
  ASSUME TypeInv, NEW r \in Reqs, GetStep(r)
  PROVE  TypeInv'
<1>1. CASE Lookup(r)
  BY <1>1 DEF TypeInv, TypeOK, Registered, Lookup, At
<1>2. CASE Fetch(r)
  <2>1. pc[r] # "idle"
    BY <1>2 DEF Fetch, At
  <2>2. FileOf(r) \in Files
    BY <2>1, AtCdn
  <2>3. fss[FileOf(r)] \in Versions \cup {Absent}
    BY <2>2 DEF TypeInv, TypeOK
  <2>4. body' \in [Reqs -> Versions \cup {Absent, Garbage}]
    BY <1>2, <2>3 DEF Fetch, TypeInv, TypeOK
  <2>5. TypeOK'
    BY <1>2, <2>4 DEF TypeInv, TypeOK, Fetch
  <2>6. Registered'
    <3>1. CASE fss[FileOf(r)] = Absent
      BY <1>2, <3>1 DEF TypeInv, TypeOK, Registered, Fetch, At
    <3>2. CASE fss[FileOf(r)] # Absent
      <4>1. /\ body' = [body EXCEPT ![r] = fss[FileOf(r)]]
            /\ fss[FileOf(r)] \in Versions
            /\ pc[r] = "fetch" /\ pc' = [pc EXCEPT ![r] = "manage"]
        BY <1>2, <2>3, <3>2 DEF Fetch, At
      <4> QED BY <1>2, <4>1 DEF TypeInv, TypeOK, Registered, Fetch
    <3> QED BY <3>1, <3>2
  <2> QED BY <2>5, <2>6 DEF TypeInv
<1>3. CASE Advertise(r)
  <2>1. FileOf(r) \in Files /\ req[r].self \in Nat
    BY <1>3, AtCdn DEF Advertise, At, TypeInv, TypeOK
  <2> QED BY <1>3, <2>1 DEF TypeInv, TypeOK, Registered, Advertise, At
<1>4. CASE Relookup(r)
  BY <1>4 DEF TypeInv, TypeOK, Registered, Relookup, At
<1>5. CASE Load(r)
  <2>1. CdnOf(r) \in Cdns /\ FileOf(r) \in Files
    BY <1>5, AtCdn DEF Load, At
  <2>2. lru' \in [Cdns -> Seq(Files)]
    <3>1. ToFront(lru[CdnOf(r)], FileOf(r)) \in Seq(Files)
      BY <2>1, ToFrontType DEF TypeInv, TypeOK
    <3> QED BY <1>5, <3>1 DEF Load, TypeInv, TypeOK
  <2>3. nulls' \in [Cdns -> SUBSET Files]
    <3>1. nulls[CdnOf(r)] \cup {FileOf(r)} \subseteq Files
      BY <2>1 DEF TypeInv, TypeOK
    <3>2. \/ nulls' = nulls
          \/ nulls' = [nulls EXCEPT ![CdnOf(r)] = nulls[CdnOf(r)] \cup {FileOf(r)}]
      BY <1>5 DEF Load
    <3> QED BY <3>1, <3>2 DEF TypeInv, TypeOK
  <2>4. body' \in [Reqs -> Versions \cup {Absent, Garbage}]
    <3>1. disk[CdnOf(r)][FileOf(r)] \in Versions \cup {Absent}
      BY <2>1 DEF TypeInv, TypeOK
    <3>2. \/ body' = [body EXCEPT ![r] = disk[CdnOf(r)][FileOf(r)]]
          \/ body' = [body EXCEPT ![r] = Garbage]
      BY <1>5 DEF Load
    <3> QED BY <3>1, <3>2 DEF TypeInv, TypeOK
  <2> QED BY <1>5, <2>2, <2>3, <2>4 DEF TypeInv, TypeOK, Registered, Load, At
<1>6. CASE LoadCrashes(r)
  <2>1. CdnOf(r) \in Cdns
    BY <1>6, AtCdn DEF LoadCrashes, At
  <2>2. Crash(CdnOf(r)) /\ UNCHANGED <<fss, metaVars, disk, pc, callVars>>
    BY <1>6 DEF LoadCrashes
  <2> QED BY <2>1, <2>2, CrashPreserves
<1> QED BY <1>1, <1>2, <1>3, <1>4, <1>5, <1>6 DEF GetStep

\* The turns of the eviction loop stay within the list.
LEMMA TurnsType == \A c, f : \A k \in Turns(c, f) : k \in 0..Len(lru[c])
BY DEF Turns

\* The steps of write_file and the reports of evicted files.
LEMMA TypeStore ==
  ASSUME TypeInv, NEW r \in Reqs, StoreStep(r)
  PROVE  TypeInv'
<1> DEFINE c == CdnOf(r)  f == FileOf(r)
<1>1. CASE Manage(r)
  <2>1. c \in Cdns /\ f \in Files
    BY <1>1, AtCdn DEF Manage, At
  <2>2. PICK k \in Turns(c, f) :
          /\ disk'    = [disk EXCEPT ![c] = Erase(disk[c], Gone(lru[c], k))]
          /\ lru'     = [lru EXCEPT ![c] = ToFront(Kept(lru[c], k), f)]
          /\ evicted' = [evicted EXCEPT ![r] = Victims(lru[c], k)]
    BY <1>1 DEF Manage
  <2>3. lru[c] \in Seq(Files) /\ disk[c] \in [Files -> Versions \cup {Absent}]
    BY <2>1 DEF TypeInv, TypeOK
  <2>4. Victims(lru[c], k) \in Seq(Files) /\ Kept(lru[c], k) \in Seq(Files)
    BY <2>2, <2>3, TurnsType, EvictionType
  <2>5. lru' \in [Cdns -> Seq(Files)]
    <3>1. ToFront(Kept(lru[c], k), f) \in Seq(Files)
      BY <2>1, <2>4, ToFrontType
    <3> QED BY <3>1, <2>2 DEF TypeInv, TypeOK
  <2>6. disk' \in [Cdns -> [Files -> Versions \cup {Absent}]]
    <3>1. Erase(disk[c], Gone(lru[c], k)) \in [Files -> Versions \cup {Absent}]
      BY <2>3, EraseType
    <3> QED BY <3>1, <2>2 DEF TypeInv, TypeOK
  <2>7. evicted' \in [Reqs -> Seq(Files)]
    BY <2>2, <2>4 DEF TypeInv, TypeOK
  <2> QED BY <1>1, <2>5, <2>6, <2>7 DEF TypeInv, TypeOK, Registered, Manage, At
<1>2. CASE ManageFails(r)
  <2>1. c \in Cdns
    BY <1>2, AtCdn DEF ManageFails, At
  <2>2. disk' \in [Cdns -> [Files -> Versions \cup {Absent}]]
    <3>1. Erase(disk[c], Tracked(c)) \in [Files -> Versions \cup {Absent}]
      BY <2>1, EraseType DEF TypeInv, TypeOK
    <3> QED BY <3>1, <1>2 DEF TypeInv, TypeOK, ManageFails
  <2>3. lru' \in [Cdns -> Seq(Files)]
    <3>1. lru' = [lru EXCEPT ![c] = <<>>] /\ <<>> \in Seq(Files)
      BY <1>2 DEF ManageFails
    <3> QED BY <3>1 DEF TypeInv, TypeOK
  <2> QED BY <1>2, <2>2, <2>3 DEF TypeInv, TypeOK, Registered, ManageFails, At
<1>3. CASE ManageCrashes(r)
  <2>1. c \in Cdns /\ Crash(c)
    BY <1>3, AtCdn DEF ManageCrashes, At
  <2>2. PICK k : disk' = [disk EXCEPT ![c] = Erase(disk[c], Gone(lru[c], k))]
    BY <1>3 DEF ManageCrashes
  <2>3. disk' \in [Cdns -> [Files -> Versions \cup {Absent}]]
    <3>1. Erase(disk[c], Gone(lru[c], k)) \in [Files -> Versions \cup {Absent}]
      BY <2>1, EraseType DEF TypeInv, TypeOK
    <3> QED BY <3>1, <2>2 DEF TypeInv, TypeOK
  <2>4. TypeOK'
    BY <1>3, <2>1, <2>3, CrashType DEF TypeInv, TypeOK, ManageCrashes
  <2>5. Registered'
    BY <1>3, <2>1, CrashType DEF TypeInv, TypeOK, Registered, ManageCrashes
  <2> QED BY <2>4, <2>5 DEF TypeInv
<1>4. CASE WriteCopy(r)
  <2>1. c \in Cdns /\ f \in Files
    BY <1>4, AtCdn DEF WriteCopy, At
  <2>2. body[r] \in Versions
    BY <1>4 DEF TypeInv, Registered, WriteCopy, At
  <2>3. disk' \in [Cdns -> [Files -> Versions \cup {Absent}]]
    <3>1. disk' = [disk EXCEPT ![c] = [disk[c] EXCEPT ![f] = body[r]]]
      BY <1>4 DEF WriteCopy
    <3>2. [disk[c] EXCEPT ![f] = body[r]] \in [Files -> Versions \cup {Absent}]
      BY <2>1, <2>2 DEF TypeInv, TypeOK
    <3> QED BY <3>1, <3>2 DEF TypeInv, TypeOK
  <2> QED BY <1>4, <2>3 DEF TypeInv, TypeOK, Registered, WriteCopy, At
<1>5. CASE Report(r)
  <2>1. Head(evicted[r]) \in Files /\ Tail(evicted[r]) \in Seq(Files)
    BY <1>5, HeadTailProperties DEF Report, TypeInv, TypeOK
  <2> QED BY <1>5, <2>1 DEF TypeInv, TypeOK, Registered, Report, At
<1> QED BY <1>1, <1>2, <1>3, <1>4, <1>5 DEF StoreStep

\* delete_file keeps the types of the caches.
LEMMA DeleteType ==
  ASSUME TypeInv, NEW c \in Cdns, NEW f \in Files, DeleteFile(c, f)
  PROVE  /\ lru' \in [Cdns -> Seq(Files)]
         /\ disk' \in [Cdns -> [Files -> Versions \cup {Absent}]]
         /\ nulls' = nulls
<1>1. Without(lru[c], f) \in Seq(Files)
  BY WithoutType DEF TypeInv, TypeOK
<1>2. [disk[c] EXCEPT ![f] = Absent] \in [Files -> Versions \cup {Absent}]
  BY DEF TypeInv, TypeOK
<1>3. /\ lru'  = [lru EXCEPT ![c] = Without(lru[c], f)]
      /\ disk' = [disk EXCEPT ![c] = [disk[c] EXCEPT ![f] = Absent]]
      /\ nulls' = nulls
  BY DEF DeleteFile
<1> QED BY <1>1, <1>2, <1>3 DEF TypeInv, TypeOK

\* The steps of handle_put outside write_file, and of Meta's handle_update.
LEMMA TypePut ==
  ASSUME TypeInv, NEW r \in Reqs, PutStep(r)
  PROVE  TypeInv'
<1> DEFINE c == CdnOf(r)  f == FileOf(r)
<1>1. CASE Upload(r)
  <2>1. f \in Files /\ body[r] \in Versions
    BY <1>1, AtCdn DEF Upload, At, TypeInv, Registered
  <2> QED BY <1>1, <2>1 DEF TypeInv, TypeOK, Registered, Upload, At
<1>2. CASE UploadRefused(r)
  <2>1. c \in Cdns /\ f \in Files /\ DeleteFile(c, f)
    BY <1>2, AtCdn DEF UploadRefused, At
  <2>2. /\ lru' \in [Cdns -> Seq(Files)]
        /\ disk' \in [Cdns -> [Files -> Versions \cup {Absent}]]
        /\ nulls' = nulls
    BY <2>1, DeleteType
  <2> QED BY <1>2, <2>2 DEF TypeInv, TypeOK, Registered, UploadRefused, At
<1>3. CASE RollbackCrashes(r)
  <2>1. c \in Cdns /\ Crash(c) /\ UNCHANGED <<fss, metaVars, disk, pc, callVars>>
    BY <1>3, AtCdn DEF RollbackCrashes, At
  <2> QED BY <2>1, CrashPreserves
<1>4. CASE Update(r)
  <2>1. f \in Files /\ body[r] \in Versions /\ req[r].self \in Nat
    BY <1>4, AtCdn DEF Update, At, TypeInv, TypeOK, Registered
  <2> QED BY <1>4, <2>1 DEF TypeInv, TypeOK, Registered, Update, At
<1>5. CASE Stamp(r)
  <2>1. f \in Files /\ body[r] \in Versions
    BY <1>5, AtCdn DEF Stamp, TypeInv, Registered
  <2>2. DOMAIN addr \subseteq Nat
    BY DEF TypeInv, TypeOK
  <2> QED BY <1>5, <2>1, <2>2 DEF TypeInv, TypeOK, Registered, Stamp
<1>6. CASE Revoke(r)
  <2>1. f \in Files
    BY <1>6, AtCdn DEF Revoke
  <2> QED BY <1>6, <2>1 DEF TypeInv, TypeOK, Registered, Revoke
<1>7. CASE RevokeLost(r)
  BY <1>7 DEF TypeInv, TypeOK, Registered, RevokeLost
<1>8. CASE Reply(r)
  BY <1>8 DEF TypeInv, TypeOK, Registered, Reply
<1> QED BY <1>1, <1>2, <1>3, <1>4, <1>5, <1>6, <1>7, <1>8 DEF PutStep

\* The turns of the invalidation loop.
LEMMA TypeLoop ==
  ASSUME TypeInv, NEW r \in Reqs, LoopStep(r)
  PROVE  TypeInv'
<1> PICK d \in targets[r] : Invalidate(r, d) \/ InvalidateCrashes(r, d) \/ Unreachable(r, d)
  BY DEF LoopStep
<1> DEFINE c == addr[d]
<1>1. d \in DOMAIN addr /\ c \in Cdns
  BY DEF TypeInv, TypeOK, Registered
<1>2. pc[r] = "invalidate" /\ FileOf(r) \in Files
  BY AtCdn DEF Invalidate, InvalidateCrashes, Unreachable
<1>3. CASE Invalidate(r, d)
  <2>1. /\ lru' \in [Cdns -> Seq(Files)]
        /\ disk' \in [Cdns -> [Files -> Versions \cup {Absent}]]
        /\ nulls' = nulls
    BY <1>1, <1>2, <1>3, DeleteType DEF Invalidate
  <2>2. myId[c] \in DOMAIN addr /\ myId[c] \in Nat
    BY <1>1, <1>3 DEF Invalidate, TypeInv, TypeOK, Registered
  <2>3. TypeOK'
    BY <1>3, <2>1, <2>2 DEF TypeInv, TypeOK, Invalidate
  <2>4. Registered'
    <3>1. /\ pc[r] = "invalidate"
          /\ \/ pc' = pc /\ peer' = peer
             \/ pc' = [pc EXCEPT ![r] = "revoke"] /\ peer' = [peer EXCEPT ![r] = myId[c]]
          /\ targets' = [targets EXCEPT ![r] = targets[r] \ {d}]
          /\ UNCHANGED <<addr, myId, up, req, body>>
      BY <1>3 DEF Invalidate
    <3>2. CASE pc' = pc /\ peer' = peer
      BY <3>1, <3>2 DEF TypeInv, TypeOK, Registered
    <3>3. CASE pc' = [pc EXCEPT ![r] = "revoke"] /\ peer' = [peer EXCEPT ![r] = myId[c]]
      <4>1. \A s \in Reqs : targets'[s] \subseteq DOMAIN addr
        BY <3>1 DEF TypeInv, TypeOK, Registered
      <4>2. req[r].op = "put"
        BY <3>1 DEF TypeInv, Registered
      <4>3. \A s \in Reqs : pc'[s] = "revoke" => peer'[s] \in DOMAIN addr
        BY <3>3, <2>2 DEF TypeInv, TypeOK, Registered
      <4> QED BY <3>1, <3>3, <4>1, <4>2, <4>3 DEF TypeInv, TypeOK, Registered
    <3> QED BY <3>1, <3>2, <3>3
  <2> QED BY <2>3, <2>4 DEF TypeInv
<1>4. CASE InvalidateCrashes(r, d)
  <2>1. Crash(c)
    BY <1>4 DEF InvalidateCrashes
  <2>2. TypeOK'
    BY <1>1, <1>4, <2>1, CrashType DEF TypeInv, TypeOK, InvalidateCrashes
  <2>3. Registered'
    BY <1>1, <1>4, <2>1, CrashType DEF TypeInv, TypeOK, Registered, InvalidateCrashes
  <2> QED BY <2>2, <2>3 DEF TypeInv
<1>5. CASE Unreachable(r, d)
  BY <1>5 DEF TypeInv, TypeOK, Registered, Unreachable
<1> QED BY <1>3, <1>4, <1>5

\* Every step keeps the types.
LEMMA TypeNext == TypeInv /\ [Next]_vars => TypeInv'
<1> SUFFICES ASSUME TypeInv, [Next]_vars PROVE TypeInv'
  OBVIOUS
<1>1. ASSUME NEW r \in Reqs, Step(r) PROVE TypeInv'
  <2>1. CASE Abandon(r)
    BY <2>1 DEF TypeInv, TypeOK, Registered, Abandon
  <2> QED BY <1>1, <2>1, TypeGet, TypeStore, TypePut, TypeLoop DEF Step
<1>2. CASE UNCHANGED vars
  BY <1>2 DEF vars, TypeInv, TypeOK, Registered
<1> QED BY <1>1, <1>2, TypeStart, TypeFail, TypeNode DEF Next

\* Every variable keeps to its type, and requests and invalidation loops only
\* name CDNs that have registered with Meta.
THEOREM TypeCorrect == Spec => []TypeInv
<1>1. Init => TypeInv
  BY TypeInit
<1>2. TypeInv /\ [Next]_vars => TypeInv'
  BY TypeNext
<1> QED BY <1>1, <1>2, PTL DEF Spec

\* Every variable of the composed system keeps its type, for any number of
\* CDNs, files, clients and contents.
THEOREM TypesHold == Spec => []TypeOK
<1>1. TypeInv => TypeOK
  BY DEF TypeInv
<1> QED BY <1>1, TypeCorrect, PTL

-----------------------------------------------------------------------------
(* Meta and the FSS.                                                       *)

\* The phases between the upload of a content and the recording of it.
Recording == {"update", "stamp"}

\* A step that neither stores nor records anything, and starts no recording.
Idles ==
  /\ UNCHANGED <<fss, hash, stamp>>
  /\ \A s \in Reqs : pc'[s] \in Recording =>
       pc'[s] = pc[s] /\ req'[s] = req[s] /\ body'[s] = body[s]

\* ... and that breaks none off.
KeepsRecording == \A s \in Reqs : pc[s] \in Recording => pc'[s] = pc[s] /\ req'[s] = req[s]

\* Failures are never forgotten: a state without them has none before it.
LEMMA FaultsGrow == TypeInv /\ [Next]_vars => faults' >= faults /\ faults \in Nat
<1> SUFFICES ASSUME TypeInv, [Next]_vars PROVE faults' >= faults /\ faults \in Nat
  OBVIOUS
<1>1. faults \in Nat
  BY DEF TypeInv, TypeOK
<1>2. faults' \in {faults, faults + 1}
  <2>1. ASSUME NEW r \in Reqs, Start(r) PROVE faults' = faults
    BY <2>1 DEF Start, StartGet, StartPut, Begin
  <2>2. ASSUME NEW r \in Reqs, Fail(r) PROVE faults' = faults + 1
    BY <2>2 DEF Fail, WriteFails, CallThrows, DeleteThrows, RevokeThrows
  <2>3. ASSUME NEW r \in Reqs, Step(r) PROVE faults' \in {faults, faults + 1}
    <3>1. CASE GetStep(r)
      BY <3>1 DEF GetStep, Lookup, Fetch, Advertise, Relookup, Load, LoadCrashes, Crash
    <3>2. CASE StoreStep(r)
      BY <3>2 DEF StoreStep, Manage, ManageFails, ManageCrashes, WriteCopy, Report, Crash
    <3>3. CASE PutStep(r)
      BY <3>3 DEF PutStep, Upload, UploadRefused, RollbackCrashes, Update, Stamp,
                  Revoke, RevokeLost, Reply, Crash
    <3>4. CASE LoopStep(r)
      BY <3>4 DEF LoopStep, Invalidate, InvalidateCrashes, Unreachable, Crash
    <3>5. CASE Abandon(r)
      BY <3>5 DEF Abandon
    <3> QED BY <2>3, <3>1, <3>2, <3>3, <3>4, <3>5 DEF Step
  <2>4. ASSUME NEW c \in Cdns, CdnStart(c) \/ CdnStop(c) PROVE faults' \in {faults, faults + 1}
    BY <2>4 DEF CdnStart, CdnStop, Crash
  <2>5. CASE UNCHANGED vars
    BY <2>5 DEF vars
  <2> QED BY <2>1, <2>2, <2>3, <2>4, <2>5 DEF Next
<1> QED BY <1>1, <1>2

\* While nothing has failed, every registered CDN is up under its last id.
LEMMA UnbrokenNext == TypeInv /\ Unbroken /\ [Next]_vars => Unbroken'
<1> SUFFICES ASSUME TypeInv, Unbroken, [Next]_vars, faults' = 0,
                    NEW i \in DOMAIN addr'
             PROVE  Alive(i)'
  BY DEF Unbroken
<1>1. faults = 0
  BY FaultsGrow
<1>2. \A j \in DOMAIN addr : up[addr[j]] /\ myId[addr[j]] = j
  BY <1>1 DEF Unbroken, Alive
<1>3. CASE UNCHANGED nodeVars
  BY <1>2, <1>3 DEF Alive
<1>4. ASSUME NEW c \in Cdns, CdnStart(c) PROVE Alive(i)'
  <2>1. /\ ~up[c]
        /\ addr' = Append(addr, c)
        /\ myId' = [myId EXCEPT ![c] = Len(addr) + 1]
        /\ up' = [up EXCEPT ![c] = TRUE]
    BY <1>4 DEF CdnStart
  <2>2. CASE i = Len(addr) + 1
    BY <2>1, <2>2 DEF Alive, TypeInv, TypeOK
  <2>3. CASE i # Len(addr) + 1
    <3>1. i \in DOMAIN addr /\ addr'[i] = addr[i]
      BY <2>1, <2>3 DEF TypeInv, TypeOK
    <3>2. addr[i] # c /\ addr[i] \in Cdns
      BY <1>2, <2>1, <3>1 DEF TypeInv, TypeOK
    <3> QED BY <1>2, <2>1, <3>1, <3>2 DEF Alive, TypeInv, TypeOK
  <2> QED BY <2>2, <2>3
<1>5. ASSUME NEW c, Crash(c) PROVE FALSE
  BY <1>1, <1>5 DEF Crash
<1>6. ASSUME NEW r \in Reqs, Start(r) \/ Step(r) \/ Fail(r) PROVE UNCHANGED nodeVars
  <2>1. CASE Start(r)
    BY <2>1 DEF Start, StartGet, StartPut, Begin
  <2>2. CASE Fail(r)
    BY <2>2 DEF Fail, WriteFails, CallThrows, DeleteThrows, RevokeThrows
  <2>3. CASE GetStep(r)
    BY <2>3, <1>5 DEF GetStep, Lookup, Fetch, Advertise, Relookup, Load, LoadCrashes
  <2>4. CASE StoreStep(r)
    BY <2>4, <1>5 DEF StoreStep, Manage, ManageFails, ManageCrashes, WriteCopy, Report
  <2>5. CASE PutStep(r)
    BY <2>5, <1>5 DEF PutStep, Upload, UploadRefused, RollbackCrashes, Update, Stamp,
                      Revoke, RevokeLost, Reply
  <2>6. CASE LoopStep(r)
    BY <2>6, <1>5 DEF LoopStep, Invalidate, InvalidateCrashes, Unreachable
  <2>7. CASE Abandon(r)
    BY <2>7 DEF Abandon
  <2> QED BY <1>6, <2>1, <2>2, <2>3, <2>4, <2>5, <2>6, <2>7 DEF Step
<1>7. ASSUME NEW c \in Cdns, CdnStop(c) PROVE FALSE
  BY <1>5, <1>7 DEF CdnStop
<1>8. CASE UNCHANGED vars
  BY <1>3, <1>8 DEF vars
<1> QED BY <1>3, <1>4, <1>6, <1>7, <1>8 DEF Next

\* Only Upload, Update and Stamp store or record; only they, a dead CDN or a
\* failed call change what is being recorded.
LEMMA RecordingSteps ==
  ASSUME TypeInv, [Next]_vars
  PROVE  \/ \E r \in Reqs : Upload(r) \/ Update(r) \/ Stamp(r)
         \/ Idles /\ (KeepsRecording \/ faults' > faults \/ \E r \in Reqs : Abandon(r))
<1> USE DEF Idles, KeepsRecording, Recording
<1>1. ASSUME NEW r \in Reqs, Start(r) PROVE Idles /\ KeepsRecording
  BY <1>1 DEF Start, StartGet, StartPut, Begin, TypeInv, TypeOK
<1>2. ASSUME NEW r \in Reqs, Fail(r) PROVE Idles /\ faults' > faults
  BY <1>2 DEF Fail, WriteFails, CallThrows, DeleteThrows, RevokeThrows, TypeInv, TypeOK
<1>3. ASSUME NEW r \in Reqs, GetStep(r) PROVE Idles /\ KeepsRecording
  BY <1>3 DEF GetStep, Lookup, Fetch, Advertise, Relookup, Load, LoadCrashes, At, TypeInv, TypeOK
<1>4. ASSUME NEW r \in Reqs, StoreStep(r) PROVE Idles /\ KeepsRecording
  BY <1>4 DEF StoreStep, Manage, ManageFails, ManageCrashes, WriteCopy, Report, At, TypeInv, TypeOK
<1>5. ASSUME NEW r \in Reqs, PutStep(r), ~Upload(r), ~Update(r), ~Stamp(r)
      PROVE  Idles /\ KeepsRecording
  BY <1>5 DEF PutStep, UploadRefused, RollbackCrashes, Revoke, RevokeLost, Reply, At, TypeInv, TypeOK
<1>6. ASSUME NEW r \in Reqs, LoopStep(r) PROVE Idles /\ KeepsRecording
  BY <1>6 DEF LoopStep, Invalidate, InvalidateCrashes, Unreachable, TypeInv, TypeOK
<1>7. ASSUME NEW r \in Reqs, Abandon(r) PROVE Idles
  BY <1>7 DEF Abandon, TypeInv, TypeOK
<1>8. ASSUME NEW c \in Cdns, CdnStart(c) \/ CdnStop(c) PROVE Idles /\ KeepsRecording
  BY <1>8 DEF CdnStart, CdnStop
<1>9. CASE UNCHANGED vars
  BY <1>9 DEF vars
<1> QED BY <1>1, <1>2, <1>3, <1>4, <1>5, <1>6, <1>7, <1>8, <1>9 DEF Next, Step

\* What the three recording steps do, with the types of what they touch.
LEMMA RecordingFacts ==
  ASSUME TypeInv, NEW r \in Reqs, Upload(r) \/ Update(r) \/ Stamp(r)
  PROVE  /\ FileOf(r) \in Files /\ body[r] \in Versions /\ req[r].op = "put"
         /\ req[r].file \in Writes[r]
         /\ UNCHANGED <<req, body>>
         /\ faults' = faults
<1>1. pc[r] \in {"report", "update", "stamp"} /\ UNCHANGED <<req, body>> /\ faults' = faults
  BY DEF Upload, Update, Stamp, At
<1>2. req[r].op = "put"
  <2>1. CASE Upload(r)
    BY <2>1 DEF Upload
  <2>2. CASE Update(r) \/ Stamp(r)
    BY <2>2 DEF Update, Stamp, At, TypeInv, Registered
  <2> QED BY <2>1, <2>2
<1>3. FileOf(r) \in Files /\ body[r] \in Versions /\ req[r].file \in Writes[r]
  <2>1. pc[r] # "idle" /\ pc[r] \in {"manage", "write", "report", "update", "stamp"}
    BY <1>1
  <2> QED BY <1>2, <2>1 DEF TypeInv, Registered, FileOf
<1> QED BY <1>1, <1>2, <1>3

\* Every step keeps the FSS ahead of Meta.
LEMMA StoredNext == TypeInv /\ StoredFirst /\ [Next]_vars => StoredFirst'
<1> SUFFICES ASSUME TypeInv, StoredFirst, [Next]_vars PROVE StoredFirst'
  OBVIOUS
<1> USE DEF StoredFirst, NoDanglingEntry, FileOf
<1>1. ASSUME NEW r \in Reqs, Upload(r) PROVE StoredFirst'
  <2>1. /\ fss' = [fss EXCEPT ![FileOf(r)] = body[r]]
        /\ pc' = [pc EXCEPT ![r] = "update"]
        /\ UNCHANGED <<hash, stamp, req>>
        /\ body[r] # Absent
    BY <1>1, RecordingFacts, MarkersAssumption DEF Upload
  <2>2. \A f \in Files : fss[f] # Absent => fss'[f] # Absent
    BY <2>1 DEF TypeInv, TypeOK
  <2>3. fss'[FileOf(r)] # Absent
    BY <2>1, <1>1, RecordingFacts DEF TypeInv, TypeOK
  <2>4. \A s \in Reqs : pc'[s] \in {"update", "stamp"} => s = r \/ pc[s] \in {"update", "stamp"}
    BY <2>1 DEF TypeInv, TypeOK
  <2>5. \A s \in Reqs : pc[s] \in {"update", "stamp"} => FileOf(s) \in Files
    BY DEF TypeInv, Registered
  <2>6. \A s \in Reqs : pc'[s] \in {"update", "stamp"} => fss'[FileOf(s)] # Absent
    BY <2>2, <2>3, <2>4, <2>5
  <2> QED BY <2>1, <2>2, <2>6
<1>2. ASSUME NEW r \in Reqs, Update(r) PROVE StoredFirst'
  BY <1>2, RecordingFacts DEF Update, At, TypeInv, TypeOK
<1>3. ASSUME NEW r \in Reqs, Stamp(r) PROVE StoredFirst'
  BY <1>3, RecordingFacts DEF Stamp, TypeInv, TypeOK
<1>4. CASE Idles
  BY <1>4 DEF Idles, Recording
<1> QED BY <1>1, <1>2, <1>3, <1>4, RecordingSteps

\* A file that Meta lists can be fetched from the FSS, whatever crashes,
\* fails or interleaves.
THEOREM ListedFilesAreStored == Spec => []NoDanglingEntry
<1>1. Init => TypeInv /\ StoredFirst
  BY TypeInit DEF Init, StoredFirst, NoDanglingEntry
<1>2. TypeInv /\ StoredFirst /\ [Next]_vars => TypeInv' /\ StoredFirst'
  BY TypeNext, StoredNext
<1>3. StoredFirst => NoDanglingEntry
  BY DEF StoredFirst
<1> QED BY <1>1, <1>2, <1>3, PTL DEF Spec

-----------------------------------------------------------------------------
\* With one uploader per file, two requests never upload the same file.
LEMMA OneUploader ==
  ASSUME TypeInv, SingleWriters, NEW r \in Reqs, NEW s \in Reqs,
         pc[r] # "idle", pc[s] # "idle", req[r].op = "put", req[s].op = "put",
         FileOf(r) = FileOf(s)
  PROVE  r = s
BY DEF TypeInv, Registered, SingleWriters, FileOf

\* With one uploader per file, every step keeps Meta in line with the FSS.
LEMMA MetaNext ==
  ASSUME SingleWriters, TypeInv, Unbroken, MetaInv, [Next]_vars
  PROVE  MetaInv'
<1> SUFFICES ASSUME faults' = 0 PROVE MetaInv'
  BY DEF MetaInv
<1>1. faults = 0 /\ ~(faults' > faults)
  BY FaultsGrow
<1>2. /\ \A f \in Files : \/ hash[f] = fss[f] /\ stamp[f] = fss[f]
                          \/ \E r \in Reqs : pc[r] \in Recording /\ FileOf(r) = f
      /\ \A r \in Reqs : pc[r] \in Recording => fss[FileOf(r)] = body[r]
      /\ \A r \in Reqs : pc[r] = "stamp" => hash[FileOf(r)] = body[r]
  BY <1>1 DEF MetaInv, Recording
<1>3. \A s \in Reqs : pc[s] \in Recording => req[s].op = "put" /\ pc[s] # "idle"
  BY DEF Recording, TypeInv, Registered
<1>4. ASSUME NEW r \in Reqs, Abandon(r) PROVE FALSE
  <2>1. req[r].self \in DOMAIN addr
    BY <1>4 DEF Abandon, TypeInv, Registered
  <2> QED BY <1>1, <1>4, <2>1 DEF Unbroken, Abandon
<1>5. CASE Idles /\ KeepsRecording
  BY <1>2, <1>5 DEF Idles, KeepsRecording, MetaInv, Recording, FileOf
<1>6. ASSUME NEW r \in Reqs, Upload(r) PROVE MetaInv'
  <2> DEFINE f == FileOf(r)
  <2>1. /\ f \in Files /\ body[r] \in Versions /\ req[r].op = "put"
        /\ pc[r] = "report" /\ pc' = [pc EXCEPT ![r] = "update"]
        /\ fss' = [fss EXCEPT ![f] = body[r]]
        /\ UNCHANGED <<hash, stamp, req, body>>
    BY <1>6, RecordingFacts DEF Upload, At
  <2>2. \A s \in Reqs : pc[s] \in Recording => FileOf(s) # f
    BY <1>3, <2>1, OneUploader DEF Recording
  <2>3. \A s \in Reqs : FileOf(s)' = FileOf(s)
    BY <2>1 DEF FileOf
  <2>4. pc'[r] \in Recording /\ \A s \in Reqs : s # r => pc'[s] = pc[s]
    BY <2>1 DEF TypeInv, TypeOK, Recording
  <2>5. \A s \in Reqs : pc'[s] = "stamp" => hash'[FileOf(s)'] = body'[s]
    BY <1>2, <2>1, <2>3 DEF TypeInv, TypeOK
  <2>6. \A s \in Reqs : pc'[s] \in Recording => fss'[FileOf(s)'] = body'[s]
    BY <1>2, <2>1, <2>2, <2>3, <2>4 DEF TypeInv, TypeOK
  <2>7. \A g \in Files : \/ hash'[g] = fss'[g] /\ stamp'[g] = fss'[g]
                         \/ \E s \in Reqs : pc'[s] \in Recording /\ FileOf(s)' = g
    BY <1>2, <2>1, <2>3, <2>4 DEF TypeInv, TypeOK
  <2> QED BY <2>5, <2>6, <2>7 DEF MetaInv, Recording
<1>7. ASSUME NEW r \in Reqs, Update(r) PROVE MetaInv'
  <2> DEFINE f == FileOf(r)
  <2>1. /\ f \in Files /\ body[r] \in Versions /\ req[r].op = "put"
        /\ pc[r] = "update" /\ pc' = [pc EXCEPT ![r] = "stamp"]
        /\ hash' = [hash EXCEPT ![f] = body[r]]
        /\ UNCHANGED <<fss, stamp, req, body>>
    BY <1>7, RecordingFacts DEF Update, At
  <2>2. \A s \in Reqs : s # r /\ pc[s] \in Recording => FileOf(s) # f
    BY <1>3, <2>1, OneUploader DEF Recording
  <2>3. \A s \in Reqs : FileOf(s)' = FileOf(s)
    BY <2>1 DEF FileOf
  <2>4. pc'[r] \in Recording /\ pc[r] \in Recording /\ \A s \in Reqs : s # r => pc'[s] = pc[s]
    BY <2>1 DEF TypeInv, TypeOK, Recording
  <2>5. \A s \in Reqs : pc'[s] = "stamp" => hash'[FileOf(s)'] = body'[s]
    <3> SUFFICES ASSUME NEW s \in Reqs, pc'[s] = "stamp" PROVE hash'[FileOf(s)] = body[s]
      BY <2>1, <2>3
    <3>1. CASE s = r
      BY <2>1, <3>1 DEF TypeInv, TypeOK
    <3>2. CASE s # r
      BY <1>2, <2>1, <2>2, <2>4, <3>2 DEF TypeInv, TypeOK, Recording
    <3> QED BY <3>1, <3>2
  <2>6. \A s \in Reqs : pc'[s] \in Recording => fss'[FileOf(s)'] = body'[s]
    BY <1>2, <2>1, <2>3, <2>4
  <2>7. \A g \in Files : \/ hash'[g] = fss'[g] /\ stamp'[g] = fss'[g]
                         \/ \E s \in Reqs : pc'[s] \in Recording /\ FileOf(s)' = g
    BY <1>2, <2>1, <2>3, <2>4 DEF TypeInv, TypeOK
  <2> QED BY <2>5, <2>6, <2>7 DEF MetaInv, Recording
<1>8. ASSUME NEW r \in Reqs, Stamp(r) PROVE MetaInv'
  <2> DEFINE f == FileOf(r)
  <2>1. /\ f \in Files /\ body[r] \in Versions /\ req[r].op = "put"
        /\ pc[r] = "stamp" /\ pc' = [pc EXCEPT ![r] = "invalidate"]
        /\ stamp' = [stamp EXCEPT ![f] = body[r]]
        /\ UNCHANGED <<fss, hash, req, body>>
    BY <1>8, RecordingFacts DEF Stamp
  <2>2. \A s \in Reqs : s # r /\ pc[s] \in Recording => FileOf(s) # f
    BY <1>3, <2>1, OneUploader DEF Recording
  <2>3. \A s \in Reqs : FileOf(s)' = FileOf(s)
    BY <2>1 DEF FileOf
  <2>4. pc'[r] \notin Recording /\ pc[r] \in Recording /\ \A s \in Reqs : s # r => pc'[s] = pc[s]
    BY <2>1 DEF TypeInv, TypeOK, Recording
  <2>5. \A s \in Reqs : pc'[s] = "stamp" => hash'[FileOf(s)'] = body'[s]
    BY <1>2, <2>1, <2>3, <2>4 DEF Recording
  <2>6. \A s \in Reqs : pc'[s] \in Recording => fss'[FileOf(s)'] = body'[s]
    BY <1>2, <2>1, <2>3, <2>4
  <2>7. hash[f] = fss[f] /\ stamp'[f] = fss[f]
    BY <1>2, <2>1, <2>4 DEF TypeInv, TypeOK
  <2>8. \A g \in Files : \/ hash'[g] = fss'[g] /\ stamp'[g] = fss'[g]
                         \/ \E s \in Reqs : pc'[s] \in Recording /\ FileOf(s)' = g
    <3> SUFFICES ASSUME NEW g \in Files, g # f
                 PROVE  \/ hash[g] = fss[g] /\ stamp'[g] = fss[g]
                        \/ \E s \in Reqs : pc'[s] \in Recording /\ FileOf(s) = g
      BY <2>1, <2>3, <2>7
    <3> QED BY <1>2, <2>1, <2>4 DEF TypeInv, TypeOK
  <2> QED BY <2>5, <2>6, <2>8 DEF MetaInv, Recording
<1> QED BY <1>1, <1>4, <1>5, <1>6, <1>7, <1>8, RecordingSteps

\* With one uploader per file, and as long as nothing crashes and no call
\* fails, Meta's hash and time stamp of a file that is not being uploaded are
\* those of the content the FSS stores.
THEOREM MetaFollowsFss == SingleWriters /\ Spec => []MetaMatchesFss
<1> SUFFICES ASSUME SingleWriters PROVE Spec => []MetaMatchesFss
  OBVIOUS
<1> DEFINE Inv == TypeInv /\ Unbroken /\ MetaInv
<1>1. Init => Inv
  BY TypeInit DEF Init, Unbroken, MetaInv
<1>2. Inv /\ [Next]_vars => Inv'
  BY TypeNext, UnbrokenNext, MetaNext
<1>3. Inv => MetaMatchesFss
  BY DEF MetaInv, MetaMatchesFss, NoUpload, Active, TypeInv, Registered
<1> QED BY <1>1, <1>2, <1>3, PTL DEF Spec

-----------------------------------------------------------------------------
(* The requests use Meta as the table of MetaTable.                        *)

\* Meta gives out no more ids than the bound.
IdsBounded == Len(addr) <= MaxIds

\* A crash leaves Meta and its list of CDNs alone.
LEMMA CrashKeepsAddr == \A c : Crash(c) => addr' = addr
BY DEF Crash

\* Only a CDN that starts gets an id.
LEMMA OnlyStartsJoin ==
  ASSUME NEW r \in Reqs, Start(r) \/ Step(r) \/ Fail(r)
  PROVE  addr' = addr
<1>1. CASE Start(r)
  BY <1>1 DEF Start, StartGet, StartPut, Begin
<1>2. CASE Fail(r)
  BY <1>2 DEF Fail, WriteFails, CallThrows, DeleteThrows, RevokeThrows
<1>3. CASE GetStep(r)
  BY <1>3, CrashKeepsAddr DEF GetStep, Lookup, Fetch, Advertise, Relookup, Load, LoadCrashes
<1>4. CASE StoreStep(r)
  BY <1>4, CrashKeepsAddr DEF StoreStep, Manage, ManageFails, ManageCrashes, WriteCopy, Report
<1>5. CASE PutStep(r)
  BY <1>5, CrashKeepsAddr DEF PutStep, Upload, UploadRefused, RollbackCrashes, Update, Stamp,
                              Revoke, RevokeLost, Reply
<1>6. CASE LoopStep(r)
  BY <1>6, CrashKeepsAddr DEF LoopStep, Invalidate, InvalidateCrashes, Unreachable
<1>7. CASE Abandon(r)
  BY <1>7 DEF Abandon
<1> QED BY <1>1, <1>2, <1>3, <1>4, <1>5, <1>6, <1>7 DEF Step

\* The bound on the ids is kept.
LEMMA IdsNext == TypeInv /\ IdsBounded /\ [Next]_vars => IdsBounded'
<1> SUFFICES ASSUME TypeInv, IdsBounded, [Next]_vars PROVE IdsBounded'
  OBVIOUS
<1> USE DEF IdsBounded
<1>1. ASSUME NEW r \in Reqs, Start(r) \/ Step(r) \/ Fail(r) PROVE IdsBounded'
  BY <1>1, OnlyStartsJoin
<1>2. ASSUME NEW c \in Cdns, CdnStart(c) PROVE IdsBounded'
  <2>1. addr \in Seq(Cdns) /\ addr' = Append(addr, c) /\ Len(addr) < MaxIds
    BY <1>2 DEF CdnStart, TypeInv, TypeOK
  <2> QED BY <2>1, BoundAssumption
<1>3. ASSUME NEW c \in Cdns, CdnStop(c) PROVE IdsBounded'
  BY <1>3, CrashKeepsAddr DEF CdnStop
<1>4. CASE UNCHANGED vars
  BY <1>4 DEF vars
<1> QED BY <1>1, <1>2, <1>3, <1>4 DEF Next

-----------------------------------------------------------------------------
\* A registered id is one of the table's.
LEMMA KnownIds ==
  ASSUME TypeInv, IdsBounded
  PROVE  \A d \in DOMAIN addr : d \in 1..MaxIds
BY BoundAssumption DEF TypeInv, TypeOK, IdsBounded

\* Every message of a request is one operation of the table.
LEMMA TableStep ==
  ASSUME TypeInv, IdsBounded, NEW r \in Reqs, Start(r) \/ Step(r) \/ Fail(r)
  PROVE  [Table!Next]_metaVars
<1> USE DEF Table!Next, Table!Record, Table!Stamp, Table!AddHolder, Table!RemoveHolder
<1>1. CASE Start(r)
  BY <1>1 DEF Start, StartGet, StartPut, Begin
<1>2. CASE Fail(r)
  BY <1>2 DEF Fail, WriteFails, CallThrows, DeleteThrows, RevokeThrows
<1>3. CASE Abandon(r)
  BY <1>3 DEF Abandon
<1>4. CASE LoopStep(r)
  BY <1>4 DEF LoopStep, Invalidate, InvalidateCrashes, Unreachable
<1>5. ASSUME pc[r] # "idle" PROVE req[r].self \in 1..MaxIds /\ FileOf(r) \in Files
  BY <1>5, KnownIds DEF TypeInv, Registered, FileOf
<1>6. CASE Advertise(r)
  <2>1. pc[r] # "idle"
    BY <1>6 DEF Advertise, At
  <2> QED BY <1>5, <1>6, <2>1 DEF Advertise
<1>7. CASE Report(r)
  <2>1. pc[r] # "idle" /\ Head(evicted[r]) \in Files
    BY <1>7, HeadTailProperties DEF Report, At, TypeInv, TypeOK
  <2>2. /\ holders' = [holders EXCEPT ![Head(evicted[r])] = @ \ {req[r].self}]
        /\ UNCHANGED <<hash, stamp>>
    BY <1>7 DEF Report
  <2> QED BY <1>5, <2>1, <2>2
<1>8. CASE Update(r)
  <2>1. pc[r] = "update" /\ body[r] \in Versions
    BY <1>8 DEF Update, At, TypeInv, Registered
  <2> QED BY <1>5, <1>8, <2>1 DEF Update
<1>9. CASE Stamp(r)
  <2>1. pc[r] = "stamp" /\ body[r] \in Versions
    BY <1>9 DEF Stamp, TypeInv, Registered
  <2> QED BY <1>5, <1>9, <2>1 DEF Stamp
<1>10. CASE Revoke(r)
  <2>1. pc[r] = "revoke" /\ peer[r] \in 1..MaxIds
    BY <1>10, KnownIds DEF Revoke, TypeInv, Registered
  <2> QED BY <1>5, <1>10, <2>1 DEF Revoke
<1>11. CASE Lookup(r) \/ Fetch(r) \/ Relookup(r) \/ Load(r) \/ LoadCrashes(r)
  BY <1>11 DEF Lookup, Fetch, Relookup, Load, LoadCrashes
<1>12. CASE Manage(r) \/ ManageFails(r) \/ ManageCrashes(r) \/ WriteCopy(r)
  BY <1>12 DEF Manage, ManageFails, ManageCrashes, WriteCopy
<1>13. CASE Upload(r) \/ UploadRefused(r) \/ RollbackCrashes(r) \/ RevokeLost(r) \/ Reply(r)
  BY <1>13 DEF Upload, UploadRefused, RollbackCrashes, RevokeLost, Reply
<1> QED BY <1>1, <1>2, <1>3, <1>4, <1>6, <1>7, <1>8, <1>9, <1>10, <1>11, <1>12, <1>13
        DEF Step, GetStep, StoreStep, PutStep

\* The composed system implements the table: whatever crashes or fails, each
\* message of a request is one operation of MetaTable on a registered id.
THEOREM RequestsUseTable == Spec => UsesTable
<1> DEFINE Inv == TypeInv /\ IdsBounded
<1>1. Init => Inv
  BY TypeInit, BoundAssumption DEF Init, IdsBounded
<1>2. Inv /\ [Next]_vars => Inv'
  BY TypeNext, IdsNext
<1>3. Init => Table!Init
  BY DEF Init, Table!Init
<1>4. Inv /\ [Next]_vars => [Table!Next]_(Table!vars)
  <2> SUFFICES ASSUME Inv, [Next]_vars PROVE [Table!Next]_metaVars
    BY DEF Table!vars
  <2>1. ASSUME NEW c \in Cdns, CdnStart(c) \/ CdnStop(c) PROVE UNCHANGED metaVars
    BY <2>1 DEF CdnStart, CdnStop
  <2>2. CASE UNCHANGED vars
    BY <2>2 DEF vars
  <2> QED BY <2>1, <2>2, TableStep DEF Next
<1> QED BY <1>1, <1>2, <1>3, <1>4, PTL DEF Spec, UsesTable, Table!Spec
=============================================================================
