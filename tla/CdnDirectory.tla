---------------------------- MODULE CdnDirectory ----------------------------
(***************************************************************************)
(* What Meta knows about the CDNs: the map from ids to addresses that      *)
(* registrations fill, the choice of the CDN a client is sent to, and the  *)
(* invalidation loop that goes over the map.  Handlers run on a pool of    *)
(* threads without a lock, so that two registrations, a list for a client  *)
(* and a loop may be under way at the same time; the map has no entry for  *)
(* an id of -1 until a list for a client looks one up with operator[],     *)
(* which inserts an empty address.  A Meta that restarts forgets the map,  *)
(* keeps the entries of the files, and no CDN registers again by itself.   *)
(*                                                                         *)
(* The entries of the files are the table of MetaTable, one operation a    *)
(* step; what the CDNs store is left to ContentNetwork.                    *)
(***************************************************************************)
EXTENDS Integers, FiniteSets

CONSTANTS
  Cdns,         \* CDN processes, named by their address
  Places,       \* where clients are
  Files,        \* file names
  Handlers,     \* threads of Meta that run handle_update
  Fss,          \* the address of the FSS
  Nowhere,      \* the default Address: no host, latitude and longitude 0
  Dist,         \* Dist[p][a]: the distance from place p to address a
  Unmeasured,   \* pairs for which calculateDistance returns NaN
  MaxIds,       \* bound: ids that are given out (the map rehashes beyond 13)
  MaxRestarts,  \* bound: how often Meta restarts
  NoFile        \* no file

Sites == Cdns \cup {Fss, Nowhere}

\* The cosine of a place and itself, or of opposite places, may be rounded to a
\* value outside [-1, 1], and the distance is then NaN.  Nothing is assumed of
\* which distances are.
ASSUME SitesAssumption    == Fss # Nowhere /\ Fss \notin Cdns /\ Nowhere \notin Cdns
ASSUME DistanceAssumption == /\ Dist \in [Places -> [Sites -> Nat]]
                             /\ Unmeasured \subseteq Places \X Sites
ASSUME BoundsAssumption   == MaxIds \in Nat /\ MaxRestarts \in Nat
ASSUME NoFileAssumption   == NoFile \notin Files

VARIABLES
  addrOf,      \* m_cdnIdToAddrMap: a function from the ids in it to addresses
  nextId,      \* m_nextCDNId
  fssAddr,     \* m_FssAddr
  known,       \* files that have an entry
  holders,     \* the ids listed in the entry of a file
  cdnId,       \* m_cdnId of each CDN
  reg,         \* how far the registration of each CDN is
  overlapped,  \* whether two registrations have overlapped
  restarts,    \* how often Meta has restarted
  pc,          \* where each handler is
  job,         \* file and id of the update it handles
  todo,        \* ids its loop still has to visit
  due          \* CDNs it has not yet sent an invalidation to

metaVars  == <<addrOf, nextId, fssAddr>>
tableVars == <<known, holders>>
regVars   == <<cdnId, reg, overlapped>>
loopVars  == <<pc, job, todo, due>>
vars == <<metaVars, tableVars, regVars, restarts, loopVars>>

NoId == -1
Ids  == 0..(MaxIds - 1)

Job   == [file : Files \cup {NoFile}, self : Ids \cup {NoId}]
NoJob == [file |-> NoFile, self |-> NoId]
NoEntries == [d \in {} |-> Nowhere]

\* The type of every variable.
TypeOK ==
  /\ DOMAIN addrOf \subseteq Ids \cup {NoId}
  /\ addrOf     \in [DOMAIN addrOf -> Cdns \cup {Nowhere}]
  /\ nextId     \in 0..MaxIds
  /\ fssAddr    \in {Fss, Nowhere}
  /\ known      \subseteq Files
  /\ holders    \in [Files -> SUBSET Ids]
  /\ cdnId      \in [Cdns -> Ids \cup {NoId}]
  /\ reg        \in [Cdns -> {"off", "mapped", "taken", "up"}]
  /\ overlapped \in BOOLEAN
  /\ restarts   \in Nat
  /\ pc         \in [Handlers -> {"idle", "loop", "done", "failed"}]
  /\ job        \in [Handlers -> Job]
  /\ todo       \in [Handlers -> SUBSET (Ids \cup {NoId})]
  /\ due        \in [Handlers -> SUBSET Cdns]
  /\ \A c \in Cdns : reg[c] \in {"taken", "up"} => cdnId[c] \in Ids
  /\ \A h \in Handlers : pc[h] = "loop" => job[h].file \in Files

Init ==
  /\ addrOf     = NoEntries
  /\ nextId     = 0
  /\ fssAddr    = Nowhere
  /\ known      = {}
  /\ holders    = [f \in Files |-> {}]
  /\ cdnId      = [c \in Cdns |-> NoId]
  /\ reg        = [c \in Cdns |-> "off"]
  /\ overlapped = FALSE
  /\ restarts   = 0
  /\ pc         = [h \in Handlers |-> "idle"]
  /\ job        = [h \in Handlers |-> NoJob]
  /\ todo       = [h \in Handlers |-> {}]
  /\ due        = [h \in Handlers |-> {}]

-----------------------------------------------------------------------------
\* The map from ids to addresses.
Looping == {h \in Handlers : pc[h] = "loop" /\ todo[h] # {}}

\* m_cdnIdToAddrMap[d] = a.  A loop over the map that has not come to its end
\* may or may not come to an id that is new.
Put(d, a) ==
  /\ addrOf' = [x \in DOMAIN addrOf \cup {d} |-> IF x = d THEN a ELSE addrOf[x]]
  /\ \E H \in SUBSET Looping :
       todo' = IF d \in DOMAIN addrOf THEN todo
               ELSE [h \in Handlers |-> IF h \in H THEN todo[h] \cup {d} ELSE todo[h]]

\* Mutant of Enter: a CDN that comes back is left under the id it had.
EnterOnce(c) ==
  /\ reg[c] \in {"off", "up"}
  /\ nextId < MaxIds
  /\ IF \E d \in DOMAIN addrOf : addrOf[d] = c
     THEN UNCHANGED <<addrOf, todo>>
     ELSE Put(nextId, c)
  /\ reg'   = [reg EXCEPT ![c] = "mapped"]
  /\ cdnId' = [cdnId EXCEPT ![c] = NoId]
  /\ overlapped' = (overlapped \/ \E x \in Cdns \ {c} : reg[x] \in {"mapped", "taken"})
  /\ UNCHANGED <<nextId, fssAddr, tableVars, restarts, pc, job, due>>

\* registerCdn for a CDN that starts: its address goes under the next id ...
Enter(c) ==
  /\ reg[c] \in {"off", "up"}
  /\ nextId < MaxIds
  /\ Put(nextId, c)
  /\ reg'   = [reg EXCEPT ![c] = "mapped"]
  /\ cdnId' = [cdnId EXCEPT ![c] = NoId]
  /\ overlapped' = (overlapped \/ \E x \in Cdns \ {c} : reg[x] \in {"mapped", "taken"})
  /\ UNCHANGED <<nextId, fssAddr, tableVars, restarts, pc, job, due>>

\* Mutant of Take: ++m_nextCDNId is returned.
TakeIncremented(c) ==
  /\ reg[c] = "mapped"
  /\ nextId + 1 < MaxIds
  /\ cdnId' = [cdnId EXCEPT ![c] = nextId + 1]
  /\ reg'   = [reg EXCEPT ![c] = "taken"]
  /\ UNCHANGED <<metaVars, tableVars, overlapped, restarts, loopVars>>

\* ... the next id is read again for the answer ...
Take(c) ==
  /\ reg[c] = "mapped"
  /\ nextId < MaxIds
  /\ cdnId' = [cdnId EXCEPT ![c] = nextId]
  /\ reg'   = [reg EXCEPT ![c] = "taken"]
  /\ UNCHANGED <<metaVars, tableVars, overlapped, restarts, loopVars>>

\* ... and incremented; the CDN gets its id and begins to listen.
Bump(c) ==
  /\ reg[c] = "taken"
  /\ nextId' = cdnId[c] + 1
  /\ reg'    = [reg EXCEPT ![c] = "up"]
  /\ UNCHANGED <<addrOf, fssAddr, tableVars, cdnId, overlapped, restarts, loopVars>>

\* setFssAddr.
RegisterFss ==
  /\ fssAddr' = Fss
  /\ UNCHANGED <<addrOf, nextId, tableVars, regVars, restarts, loopVars>>

-----------------------------------------------------------------------------
\* The CDN a client at p is sent to.
Measured(p, a) == <<p, a>> \notin Unmeasured

\* getClosestCDN, for ids in an order that is not known: ids that are not in the
\* map are skipped; the first distance is taken, also if it is NaN, and then every
\* smaller one, which a NaN is not and no number is smaller than.
Closest(p, S) ==
  LET K == S \cap DOMAIN addrOf
      M == {d \in K : Measured(p, addrOf[d])} IN
  IF K = {} THEN {NoId}
  ELSE (K \ M) \cup {d \in M : \A e \in M : Dist[p][addrOf[d]] <= Dist[p][addrOf[e]]}

\* Mutant of CloserThanFss: the comparison is the other way round.
FartherThanFss(p, d) ==
  /\ d \in DOMAIN addrOf
  /\ Measured(p, addrOf[d])
  /\ Measured(p, fssAddr)
  /\ Dist[p][addrOf[d]] >= Dist[p][fssAddr]

\* isCDN_closerThanFSS: a comparison with NaN is false.
CloserThanFss(p, d) ==
  /\ d \in DOMAIN addrOf
  /\ Measured(p, addrOf[d])
  /\ Measured(p, fssAddr)
  /\ Dist[p][addrOf[d]] <= Dist[p][fssAddr]

\* The ids an entry of processListFromOriginDownload may be given ...
Chosen(p, f) ==
  UNION {IF d # NoId /\ CloserThanFss(p, d) THEN {d} ELSE Closest(p, DOMAIN addrOf) :
           d \in Closest(p, holders[f])}

\* ... and the address it is given: operator[] of an id that is not in the map
\* inserts the default address.
Answer(d) ==
  IF d \in DOMAIN addrOf THEN UNCHANGED <<addrOf, todo>> ELSE Put(d, Nowhere)

DownloadEntry(p, f) ==
  /\ f \in known
  /\ \E d \in Chosen(p, f) : Answer(d)
  /\ UNCHANGED <<nextId, fssAddr, tableVars, regVars, restarts, pc, job, due>>

\* One entry of processListFromOriginUpload.
UploadEntry(p) ==
  /\ \E d \in Closest(p, DOMAIN addrOf) : Answer(d)
  /\ UNCHANGED <<nextId, fssAddr, tableVars, regVars, restarts, pc, job, due>>

-----------------------------------------------------------------------------
\* Mutant of Advertise: a CDN fetches a file before it has its id.
AdvertiseEarly(c, f) ==
  /\ reg[c] # "off"
  /\ f \in known
  /\ holders' = [holders EXCEPT ![f] = @ \cup {cdnId[c]}]
  /\ UNCHANGED <<metaVars, known, regVars, restarts, loopVars>>

\* addCdnToMetaEntry and deleteCdnFromMetaEntry for a CDN that has fetched or
\* evicted a copy.
Advertise(c, f) ==
  /\ reg[c] = "up"
  /\ f \in known
  /\ holders' = [holders EXCEPT ![f] = @ \cup {cdnId[c]}]
  /\ UNCHANGED <<metaVars, known, regVars, restarts, loopVars>>

Report(c, f) ==
  /\ reg[c] = "up"
  /\ holders' = [holders EXCEPT ![f] = @ \ {cdnId[c]}]
  /\ UNCHANGED <<metaVars, known, regVars, restarts, loopVars>>

\* Mutant of BeginUpdate: only the CDNs listed in the entry are invalidated.
BeginUpdateListed(h, c, f) ==
  /\ pc[h] # "loop"
  /\ reg[c] = "up"
  /\ known'   = known \cup {f}
  /\ holders' = [holders EXCEPT ![f] = {cdnId[c]}]
  /\ pc'   = [pc EXCEPT ![h] = "loop"]
  /\ job'  = [job EXCEPT ![h] = [file |-> f, self |-> cdnId[c]]]
  /\ todo' = [todo EXCEPT ![h] = (DOMAIN addrOf \cap holders[f]) \ {cdnId[c]}]
  /\ due'  = [due EXCEPT ![h] = {x \in Cdns \ {c} : reg[x] = "up"}]
  /\ UNCHANGED <<metaVars, regVars, restarts>>

\* handle_update, type 1: the entry is replaced and the loop begins.
BeginUpdate(h, c, f) ==
  /\ pc[h] # "loop"
  /\ reg[c] = "up"
  /\ known'   = known \cup {f}
  /\ holders' = [holders EXCEPT ![f] = {cdnId[c]}]
  /\ pc'   = [pc EXCEPT ![h] = "loop"]
  /\ job'  = [job EXCEPT ![h] = [file |-> f, self |-> cdnId[c]]]
  /\ todo' = [todo EXCEPT ![h] = DOMAIN addrOf \ {cdnId[c]}]
  /\ due'  = [due EXCEPT ![h] = {x \in Cdns \ {c} : reg[x] = "up"}]
  /\ UNCHANGED <<metaVars, regVars, restarts>>

\* One turn of the loop.  A CDN that had a copy tells Meta so, under the id
\* it has now, before it answers.
Invalidate(h, d) ==
  LET a == addrOf[d]  f == job[h].file IN
  /\ pc[h] = "loop"
  /\ d \in todo[h]
  /\ a \in Cdns
  /\ reg[a] = "up"
  /\ todo' = [todo EXCEPT ![h] = @ \ {d}]
  /\ due'  = [due EXCEPT ![h] = @ \ {a}]
  /\ holders' \in {holders, [holders EXCEPT ![f] = @ \ {cdnId[a]}]}
  /\ UNCHANGED <<metaVars, known, regVars, restarts, pc, job>>

\* An address without a host, or of a CDN that does not listen yet: the call
\* throws, and the handler with it.
Unreachable(h, d) ==
  /\ pc[h] = "loop"
  /\ d \in todo[h]
  /\ addrOf[d] \in Cdns => reg[addrOf[d]] # "up"
  /\ pc'   = [pc EXCEPT ![h] = "failed"]
  /\ job'  = [job EXCEPT ![h] = NoJob]
  /\ todo' = [todo EXCEPT ![h] = {}]
  /\ UNCHANGED <<metaVars, tableVars, regVars, restarts, due>>

Finish(h) ==
  /\ pc[h] = "loop"
  /\ todo[h] = {}
  /\ pc'  = [pc EXCEPT ![h] = "done"]
  /\ job' = [job EXCEPT ![h] = NoJob]
  /\ UNCHANGED <<metaVars, tableVars, regVars, restarts, todo, due>>

\* Meta restarts: a CDN that was registering gets no answer and does not start.
RestartMeta ==
  LET Lost == {c \in Cdns : reg[c] \in {"mapped", "taken"}} IN
  /\ restarts < MaxRestarts
  /\ restarts' = restarts + 1
  /\ addrOf'  = NoEntries
  /\ nextId'  = 0
  /\ fssAddr' = Nowhere
  /\ reg'   = [c \in Cdns |-> IF c \in Lost THEN "off" ELSE reg[c]]
  /\ cdnId' = [c \in Cdns |-> IF c \in Lost THEN NoId ELSE cdnId[c]]
  /\ pc'   = [h \in Handlers |-> "idle"]
  /\ job'  = [h \in Handlers |-> NoJob]
  /\ todo' = [h \in Handlers |-> {}]
  /\ due'  = [h \in Handlers |-> {}]
  /\ UNCHANGED <<tableVars, overlapped>>

Registration == (\E c \in Cdns : Enter(c) \/ Take(c) \/ Bump(c)) \/ RegisterFss

Listing == \E p \in Places : UploadEntry(p) \/ \E f \in Files : DownloadEntry(p, f)

Updating ==
  \/ \E c \in Cdns, f \in Files :
       Advertise(c, f) \/ Report(c, f) \/ \E h \in Handlers : BeginUpdate(h, c, f)
  \/ \E h \in Handlers :
       Finish(h) \/ \E d \in todo[h] : Invalidate(h, d) \/ Unreachable(h, d)

Next == Registration \/ Listing \/ Updating \/ RestartMeta

Spec == Init /\ [][Next]_vars

-----------------------------------------------------------------------------
\* Registrations came one at a time, to one Meta.
Orderly == restarts = 0 /\ ~overlapped

\* A CDN that runs is the one Meta has under its id: MetaCDNReceiver.cpp:183,
\* "the assigned id for the cdn".
IdsExact ==
  Orderly => \A c \in Cdns : reg[c] = "up" =>
    cdnId[c] \in DOMAIN addrOf /\ addrOf[cdnId[c]] = c

\* Meta can reach every CDN that an entry lists: no copy is passed over, by a
\* client or by the loop, because its id is not in the map.
HoldersRegistered ==
  Orderly => \A f \in Files : \A d \in holders[f] : d \in DOMAIN addrOf /\ addrOf[d] \in Cdns

\* A loop that comes to its end has sent an invalidation to every other CDN that
\* was running when it began, whoever registers and asks for lists meanwhile.
LoopsReachAll ==
  Orderly => \A h \in Handlers : pc[h] = "done" => due[h] = {}

\* A loop sends an invalidation to every other CDN if each has registered
\* once: MetaCDNReceiver.cpp:98, "now, send invalidation msgs to other cdns".
InvalidationSent ==
  Orderly /\ (\A d, e \in DOMAIN addrOf : addrOf[d] = addrOf[e] => d = e) =>
    \A h \in Handlers : pc[h] \in {"done", "failed"} => due[h] = {}

\* a is as near to p as any of the CDNs S whose distance is a number.
AsNear(p, a, S) ==
  \A d \in S \cap DOMAIN addrOf :
    Measured(p, addrOf[d]) => Dist[p][a] <= Dist[p][addrOf[d]]

\* d can be seen to be as near to p as the FSS.
NearerThanFss(p, d) ==
  /\ {<<p, addrOf[d]>>, <<p, fssAddr>>} \cap Unmeasured = {}
  /\ Dist[p][addrOf[d]] <= Dist[p][fssAddr]

\* What a client is told, whichever distances are numbers: a CDN whose distance
\* is one is as near as any that has the file; it is as near as any CDN at all
\* unless it has the file and is no farther than the FSS (the code falls back on
\* all CDNs, also on those that have the file); and if a CDN that has the file is
\* no farther than the FSS, and no distance to one that has it is NaN, the client
\* is sent to one that has it.
NearestChosen ==
  \A p \in Places, f \in Files :
    LET H == holders[f] \cap DOMAIN addrOf IN
    \A c \in Chosen(p, f) \cap DOMAIN addrOf :
      /\ Measured(p, addrOf[c]) =>
           /\ AsNear(p, addrOf[c], H)
           /\ ~(c \in H /\ NearerThanFss(p, c)) => AsNear(p, addrOf[c], DOMAIN addrOf)
      /\ /\ \E d \in H : NearerThanFss(p, d)
         /\ \A d \in H : Measured(p, addrOf[d])
         => c \in H

=============================================================================
