-------------------------- MODULE DirectoryProofs --------------------------
(***************************************************************************)
(* Proofs about CdnDirectory, for any CDNs, places, files, handlers and    *)
(* distances: the types, that ids are exact and every holder can be        *)
(* reached while CDNs register one at a time, that a loop that ends has    *)
(* reached every CDN, and what the choice of a CDN gives a client.         *)
(***************************************************************************)
EXTENDS CdnDirectory, TLAPS

USE BoundsAssumption, SitesAssumption, NoFileAssumption
    DEF Ids, NoId, NoJob, Job, NoEntries, metaVars, tableVars, regVars, loopVars

-----------------------------------------------------------------------------
(* The map and the choice of a CDN.                                        *)

\* A list is given ids that the map has, or else -1.
LEMMA ClosestKnown ==
  ASSUME NEW p, NEW S, NEW d \in Closest(p, S)
  PROVE  d = NoId \/ d \in S \cap DOMAIN addrOf
BY DEF Closest

LEMMA ChosenKnown ==
  ASSUME NEW p, NEW f, NEW d \in Chosen(p, f)
  PROVE  d = NoId \/ d \in DOMAIN addrOf
<1>1. PICK e \in Closest(p, holders[f]) :
        d \in IF e # NoId /\ CloserThanFss(p, e) THEN {e} ELSE Closest(p, DOMAIN addrOf)
  BY DEF Chosen
<1>2. CASE d = e
  BY <1>2, ClosestKnown
<1>3. CASE d \in Closest(p, DOMAIN addrOf)
  BY <1>3, ClosestKnown
<1> QED BY <1>1, <1>2, <1>3

\* What an entry of a list may do to the map.
Answered ==
  \/ UNCHANGED <<addrOf, todo>>
  \/ NoId \notin DOMAIN addrOf /\ Put(NoId, Nowhere)

LEMMA ListingAnswers ==
  ASSUME Listing
  PROVE  /\ Answered
         /\ UNCHANGED <<nextId, fssAddr, tableVars, regVars, restarts, pc, job, due>>
<1>1. ASSUME NEW p \in Places, NEW f \in Files, DownloadEntry(p, f) PROVE Answered
  BY <1>1, ChosenKnown DEF DownloadEntry, Answer, Answered
<1>2. ASSUME NEW p \in Places, UploadEntry(p) PROVE Answered
  BY <1>2, ClosestKnown DEF UploadEntry, Answer, Answered
<1> QED BY <1>1, <1>2 DEF Listing, DownloadEntry, UploadEntry

\* What Put leaves of the map and of the loops.
LEMMA PutTyped ==
  ASSUME TypeOK, NEW d \in Ids \cup {NoId}, NEW a \in Cdns \cup {Nowhere}, Put(d, a)
  PROVE  /\ DOMAIN addrOf' \subseteq Ids \cup {NoId}
         /\ DOMAIN addrOf' = DOMAIN addrOf \cup {d}
         /\ addrOf'[d] = a
         /\ \A x \in DOMAIN addrOf : x # d => addrOf'[x] = addrOf[x]
         /\ addrOf' \in [DOMAIN addrOf' -> Cdns \cup {Nowhere}]
         /\ todo' \in [Handlers -> SUBSET (Ids \cup {NoId})]
         /\ \A h \in Handlers : /\ todo[h] \subseteq todo'[h]
                                /\ todo[h] = {} => todo'[h] = {}
                                /\ pc[h] # "loop" => todo'[h] = todo[h]
<1>1. /\ DOMAIN addrOf' = DOMAIN addrOf \cup {d}
      /\ addrOf'[d] = a
      /\ \A x \in DOMAIN addrOf : x # d => addrOf'[x] = addrOf[x]
  BY DEF Put
<1>2. addrOf' \in [DOMAIN addrOf' -> Cdns \cup {Nowhere}]
  BY DEF Put, TypeOK
<1>3. PICK H \in SUBSET Looping :
        todo' = IF d \in DOMAIN addrOf THEN todo
                ELSE [h \in Handlers |-> IF h \in H THEN todo[h] \cup {d} ELSE todo[h]]
  BY DEF Put
<1>4. todo \in [Handlers -> SUBSET (Ids \cup {NoId})]
  BY DEF TypeOK
<1>5. \A h \in H : pc[h] = "loop" /\ todo[h] # {}
  BY DEF Looping
<1>6. todo' \in [Handlers -> SUBSET (Ids \cup {NoId})]
  BY <1>3, <1>4
<1>7. ASSUME NEW h \in Handlers
      PROVE  /\ todo[h] \subseteq todo'[h]
             /\ todo[h] = {} => todo'[h] = {}
             /\ pc[h] # "loop" => todo'[h] = todo[h]
  BY <1>3, <1>4, <1>5
<1>8. DOMAIN addrOf' \subseteq Ids \cup {NoId}
  BY <1>1 DEF TypeOK
<1> QED BY <1>1, <1>2, <1>6, <1>7, <1>8

-----------------------------------------------------------------------------
(* The types.                                                              *)

LEMMA InitTyped == Init => TypeOK
<1> SUFFICES ASSUME Init PROVE TypeOK
  OBVIOUS
<1>1. addrOf \in [DOMAIN addrOf -> Cdns \cup {Nowhere}] /\ DOMAIN addrOf = {}
  BY DEF Init
<1>2. job \in [Handlers -> Job] /\ pc \in [Handlers -> {"idle", "loop", "done", "failed"}]
  BY DEF Init
<1>3. todo \in [Handlers -> SUBSET (Ids \cup {NoId})] /\ due \in [Handlers -> SUBSET Cdns]
  BY DEF Init
<1>4. holders \in [Files -> SUBSET Ids] /\ cdnId \in [Cdns -> Ids \cup {NoId}]
  BY DEF Init
<1>5. reg \in [Cdns -> {"off", "mapped", "taken", "up"}]
  BY DEF Init
<1>6. /\ nextId \in 0..MaxIds /\ fssAddr \in {Fss, Nowhere} /\ known \subseteq Files
      /\ restarts \in Nat
  BY DEF Init
<1>7. overlapped \in BOOLEAN
  BY DEF Init
<1>8. /\ \A c \in Cdns : reg[c] \in {"taken", "up"} => cdnId[c] \in Ids
      /\ \A h \in Handlers : pc[h] = "loop" => job[h].file \in Files
  BY DEF Init
<1> HIDE DEF Ids, NoId, Job
<1> QED BY <1>1, <1>2, <1>3, <1>4, <1>5, <1>6, <1>7, <1>8 DEF TypeOK

LEMMA RegistrationTyped == TypeOK /\ Registration => TypeOK'
<1> SUFFICES ASSUME TypeOK, Registration PROVE TypeOK'
  OBVIOUS
<1>1. ASSUME NEW c \in Cdns, Enter(c) PROVE TypeOK'
  <2>1. nextId \in Ids
    BY <1>1 DEF Enter, TypeOK
  <2>2. Put(nextId, c)
    BY <1>1 DEF Enter
  <2>3. /\ DOMAIN addrOf' \subseteq Ids \cup {NoId}
        /\ addrOf' \in [DOMAIN addrOf' -> Cdns \cup {Nowhere}]
        /\ todo' \in [Handlers -> SUBSET (Ids \cup {NoId})]
    BY <2>1, <2>2, PutTyped
  <2> QED BY <1>1, <2>3 DEF Enter, TypeOK
<1>2. ASSUME NEW c \in Cdns, Take(c) PROVE TypeOK'
  BY <1>2 DEF Take, TypeOK
<1>3. ASSUME NEW c \in Cdns, Bump(c) PROVE TypeOK'
  BY <1>3 DEF Bump, TypeOK
<1>4. CASE RegisterFss
  BY <1>4 DEF RegisterFss, TypeOK
<1> QED BY <1>1, <1>2, <1>3, <1>4 DEF Registration

LEMMA ListingTyped == TypeOK /\ Listing => TypeOK'
<1> SUFFICES ASSUME TypeOK, Listing PROVE TypeOK'
  OBVIOUS
<1>1. CASE UNCHANGED <<addrOf, todo>>
  BY <1>1, ListingAnswers DEF TypeOK
<1>2. CASE Put(NoId, Nowhere)
  <2>1. /\ DOMAIN addrOf' \subseteq Ids \cup {NoId}
        /\ addrOf' \in [DOMAIN addrOf' -> Cdns \cup {Nowhere}]
        /\ todo' \in [Handlers -> SUBSET (Ids \cup {NoId})]
    BY <1>2, PutTyped
  <2> QED BY <2>1, ListingAnswers DEF TypeOK
<1> QED BY <1>1, <1>2, ListingAnswers DEF Answered

LEMMA UpdatingTyped == TypeOK /\ Updating => TypeOK'
<1> SUFFICES ASSUME TypeOK, Updating PROVE TypeOK'
  OBVIOUS
<1> USE DEF TypeOK
<1>1. ASSUME NEW c \in Cdns, NEW f \in Files, Advertise(c, f) PROVE TypeOK'
  BY <1>1 DEF Advertise
<1>2. ASSUME NEW c \in Cdns, NEW f \in Files, Report(c, f) PROVE TypeOK'
  BY <1>2 DEF Report
<1>3. ASSUME NEW c \in Cdns, NEW f \in Files, NEW h \in Handlers, BeginUpdate(h, c, f)
      PROVE  TypeOK'
  BY <1>3 DEF BeginUpdate
<1>4. ASSUME NEW h \in Handlers, Finish(h) PROVE TypeOK'
  BY <1>4 DEF Finish
<1>5. ASSUME NEW h \in Handlers, NEW d \in todo[h], Invalidate(h, d) PROVE TypeOK'
  BY <1>5 DEF Invalidate
<1>6. ASSUME NEW h \in Handlers, NEW d \in todo[h], Unreachable(h, d) PROVE TypeOK'
  BY <1>6 DEF Unreachable
<1> QED BY <1>1, <1>2, <1>3, <1>4, <1>5, <1>6 DEF Updating

LEMMA RestartTyped == TypeOK /\ RestartMeta => TypeOK'
BY DEF RestartMeta, TypeOK

LEMMA NextTyped == TypeOK /\ [Next]_vars => TypeOK'
<1>1. TypeOK /\ UNCHANGED vars => TypeOK'
  BY DEF vars, TypeOK
<1> QED BY <1>1, RegistrationTyped, ListingTyped, UpdatingTyped, RestartTyped DEF Next

\* Every variable keeps its type.
THEOREM DirectoryTyped == Spec => []TypeOK
BY InitTyped, NextTyped, PTL DEF Spec

-----------------------------------------------------------------------------
(* While CDNs register one at a time.                                      *)

Registering == {c \in Cdns : reg[c] \in {"mapped", "taken"}}

\* The CDN that registers is alone: it has the next id, and the ids of the
\* others are below it.
IdsExactInv ==
  /\ \A c, d \in Registering : c = d
  /\ \A c \in Cdns : reg[c] = "up" =>
       cdnId[c] < nextId /\ cdnId[c] \in DOMAIN addrOf /\ addrOf[cdnId[c]] = c
  /\ \A c \in Registering : nextId \in DOMAIN addrOf /\ addrOf[nextId] = c
  /\ \A c \in Cdns : reg[c] = "taken" => cdnId[c] = nextId
  /\ \A d \in DOMAIN addrOf : d < nextId \/ (d = nextId /\ Registering # {})

\* The ids of an entry are registered.
HoldersInv == \A f \in Files : \A d \in holders[f] : d \in DOMAIN addrOf /\ addrOf[d] \in Cdns

\* What a loop has still to reach is among the ids it has still to visit.
LoopsInv ==
  \A h \in Handlers :
    /\ pc[h] = "loop" => \A c \in due[h] : \E d \in todo[h] \cap DOMAIN addrOf : addrOf[d] = c
    /\ pc[h] = "done" => due[h] = {}

OrderlyInv == Orderly => IdsExactInv /\ HoldersInv /\ LoopsInv

DirectoryInv == TypeOK /\ OrderlyInv

LEMMA InitOrderly == Init => OrderlyInv
BY DEF Init, OrderlyInv, IdsExactInv, HoldersInv, LoopsInv, Registering

\* The map only grows and keeps what it had, except at the id d.
LEMMA GrowingKeeps ==
  ASSUME NEW d, DOMAIN addrOf' = DOMAIN addrOf \cup {d},
         \A x \in DOMAIN addrOf : x # d => addrOf'[x] = addrOf[x],
         addrOf'[d] \in Cdns \/ d \notin DOMAIN addrOf,
         HoldersInv, UNCHANGED holders
  PROVE  HoldersInv'
BY DEF HoldersInv

\* A step that takes none of the map's entries away keeps the loops' promise.
LEMMA LoopsKept ==
  ASSUME TypeOK, LoopsInv, UNCHANGED <<pc, due>>,
         DOMAIN addrOf \subseteq DOMAIN addrOf',
         \A x \in DOMAIN addrOf : addrOf'[x] = addrOf[x],
         \A h \in Handlers : pc[h] = "loop" => todo[h] \subseteq todo'[h]
  PROVE  LoopsInv'
BY DEF LoopsInv

LEMMA RegistrationOrderly == DirectoryInv /\ Registration => OrderlyInv'
<1> SUFFICES ASSUME TypeOK, OrderlyInv, Registration, Orderly' PROVE (IdsExactInv /\ HoldersInv /\ LoopsInv)'
  BY DEF DirectoryInv, OrderlyInv
<1>1. Orderly /\ IdsExactInv /\ HoldersInv /\ LoopsInv
  BY DEF OrderlyInv, Orderly, Registration, Enter, Take, Bump, RegisterFss, TypeOK
<1>2. ASSUME NEW c \in Cdns, Enter(c) PROVE (IdsExactInv /\ HoldersInv /\ LoopsInv)'
  <2>1. nextId \in Ids /\ Put(nextId, c) /\ nextId' = nextId
    BY <1>2 DEF Enter, TypeOK
  <2>2. Registering = {} /\ Registering' = {c}
    <3>1. c \notin Registering
      BY <1>2 DEF Enter, Registering
    <3>2. ~overlapped'
      BY DEF Orderly
    <3>3. \A x \in Cdns \ {c} : reg[x] \notin {"mapped", "taken"}
      BY <1>2, <3>2 DEF Enter
    <3> QED BY <1>2, <3>1, <3>3 DEF Enter, Registering, TypeOK
  <2>3. nextId \notin DOMAIN addrOf
    BY <1>1, <2>1, <2>2 DEF IdsExactInv, TypeOK
  <2>4. /\ DOMAIN addrOf' = DOMAIN addrOf \cup {nextId}
        /\ addrOf'[nextId] = c
        /\ \A x \in DOMAIN addrOf : x # nextId => addrOf'[x] = addrOf[x]
        /\ \A h \in Handlers : todo[h] \subseteq todo'[h]
    BY <2>1, PutTyped
  <2>5. IdsExactInv'
    BY <1>1, <1>2, <2>1, <2>2, <2>3, <2>4 DEF IdsExactInv, Enter, TypeOK
  <2>6. HoldersInv'
    BY <1>1, <1>2, <2>3, <2>4, GrowingKeeps DEF Enter
  <2>7. LoopsInv'
    BY <1>1, <1>2, <2>3, <2>4, LoopsKept DEF Enter
  <2> QED BY <2>5, <2>6, <2>7
<1>3. ASSUME NEW c \in Cdns, Take(c) PROVE (IdsExactInv /\ HoldersInv /\ LoopsInv)'
  <2>1. Registering' = Registering /\ c \in Registering
    BY <1>3 DEF Take, Registering, TypeOK
  <2>2. IdsExactInv'
    BY <1>1, <1>3, <2>1 DEF IdsExactInv, Take, TypeOK, Registering
  <2>3. HoldersInv' /\ LoopsInv'
    BY <1>1, <1>3 DEF HoldersInv, LoopsInv, Take
  <2> QED BY <2>2, <2>3
<1>4. ASSUME NEW c \in Cdns, Bump(c) PROVE (IdsExactInv /\ HoldersInv /\ LoopsInv)'
  <2>1. Registering = {c} /\ cdnId[c] = nextId /\ nextId \in Nat
    BY <1>1, <1>4 DEF IdsExactInv, Bump, TypeOK, Registering
  <2>2. Registering' = {} /\ nextId' = nextId + 1
    BY <1>4, <2>1 DEF Bump, TypeOK, Registering
  <2>3. IdsExactInv'
    <3>1. \A x \in Cdns : reg'[x] = "up" => reg[x] = "up" \/ x = c
      BY <1>4 DEF Bump, TypeOK
    <3>2. \A x \in Cdns : reg'[x] # "taken"
      BY <2>2 DEF Registering
    <3>3. UNCHANGED <<addrOf, cdnId>>
      BY <1>4 DEF Bump
    <3>4. cdnId[c] < nextId' /\ cdnId[c] \in DOMAIN addrOf /\ addrOf[cdnId[c]] = c
      BY <1>1, <2>1, <2>2 DEF IdsExactInv
    <3>5. \A x \in Cdns : reg[x] = "up" => cdnId[x] < nextId'
      BY <1>1, <2>1, <2>2 DEF IdsExactInv, TypeOK
    <3>6. \A d \in DOMAIN addrOf : d < nextId'
      BY <1>1, <2>1, <2>2 DEF IdsExactInv, TypeOK
    <3>7. \A x \in Cdns : reg'[x] = "up" =>
            cdnId'[x] < nextId' /\ cdnId'[x] \in DOMAIN addrOf' /\ addrOf'[cdnId'[x]] = x
      BY <1>1, <3>1, <3>3, <3>4, <3>5 DEF IdsExactInv
    <3>8. \A d \in DOMAIN addrOf' : d < nextId'
      BY <3>3, <3>6
    <3>9. \A x, y \in Registering' : x = y
      BY <2>2
    <3>10. \A x \in Registering' : nextId' \in DOMAIN addrOf' /\ addrOf'[nextId'] = x
      BY <2>2
    <3> QED BY <3>2, <3>7, <3>8, <3>9, <3>10 DEF IdsExactInv
  <2>4. HoldersInv' /\ LoopsInv'
    BY <1>1, <1>4 DEF HoldersInv, LoopsInv, Bump
  <2> QED BY <2>3, <2>4
<1>5. CASE RegisterFss
  BY <1>1, <1>5 DEF RegisterFss, IdsExactInv, HoldersInv, LoopsInv, Registering
<1> QED BY <1>2, <1>3, <1>4, <1>5 DEF Registration

LEMMA ListingOrderly == DirectoryInv /\ Listing => OrderlyInv'
<1> SUFFICES ASSUME TypeOK, OrderlyInv, Listing, Orderly' PROVE (IdsExactInv /\ HoldersInv /\ LoopsInv)'
  BY DEF DirectoryInv, OrderlyInv
<1>1. IdsExactInv /\ HoldersInv /\ LoopsInv
  BY ListingAnswers DEF OrderlyInv, Orderly
<1>2. CASE UNCHANGED <<addrOf, todo>>
  BY <1>1, <1>2, ListingAnswers DEF IdsExactInv, HoldersInv, LoopsInv, Registering
<1>3. CASE NoId \notin DOMAIN addrOf /\ Put(NoId, Nowhere)
  <2>1. /\ DOMAIN addrOf' = DOMAIN addrOf \cup {NoId}
        /\ \A x \in DOMAIN addrOf : addrOf'[x] = addrOf[x]
        /\ \A h \in Handlers : todo[h] \subseteq todo'[h]
    BY <1>3, PutTyped
  <2>2. IdsExactInv'
    <3>1. UNCHANGED <<nextId, regVars>> /\ Registering' = Registering
      BY ListingAnswers DEF Registering
    <3>2. NoId < nextId /\ nextId \in Int /\ nextId' = nextId
      BY <3>1 DEF TypeOK
    <3> USE DEF IdsExactInv
    <3>3. \A x, y \in Registering' : x = y
      BY <1>1, <3>1
    <3>4. \A c \in Cdns : reg'[c] = "up" =>
            cdnId'[c] < nextId' /\ cdnId'[c] \in DOMAIN addrOf' /\ addrOf'[cdnId'[c]] = c
      BY <1>1, <2>1, <3>1
    <3>5. \A c \in Registering' : nextId' \in DOMAIN addrOf' /\ addrOf'[nextId'] = c
      BY <1>1, <2>1, <3>1
    <3>6. \A c \in Cdns : reg'[c] = "taken" => cdnId'[c] = nextId'
      BY <1>1, <3>1
    <3>7. ASSUME NEW d \in DOMAIN addrOf'
          PROVE  d < nextId' \/ (d = nextId' /\ Registering' # {})
      <4>1. CASE d = NoId
        BY <3>1, <3>2, <4>1
      <4>2. CASE d \in DOMAIN addrOf
        BY <1>1, <3>1, <4>2
      <4> QED BY <2>1, <4>1, <4>2
    <3> QED BY <3>3, <3>4, <3>5, <3>6, <3>7
  <2>3. HoldersInv' /\ LoopsInv'
    BY <1>1, <1>3, <2>1, ListingAnswers, GrowingKeeps, LoopsKept
  <2> QED BY <2>2, <2>3
<1> QED BY <1>2, <1>3, ListingAnswers DEF Answered

LEMMA UpdatingOrderly == DirectoryInv /\ Updating => OrderlyInv'
<1> SUFFICES ASSUME TypeOK, OrderlyInv, Updating, Orderly' PROVE (IdsExactInv /\ HoldersInv /\ LoopsInv)'
  BY DEF DirectoryInv, OrderlyInv
<1>1. UNCHANGED <<metaVars, regVars, restarts>>
  BY DEF Updating, Advertise, Report, BeginUpdate, Finish, Invalidate, Unreachable
<1>2. IdsExactInv /\ HoldersInv /\ LoopsInv
  BY <1>1 DEF OrderlyInv, Orderly
<1>3. IdsExactInv'
  BY <1>1, <1>2 DEF IdsExactInv, Registering
<1>4. ASSUME NEW c \in Cdns, NEW f \in Files, Advertise(c, f) PROVE (HoldersInv /\ LoopsInv)'
  BY <1>1, <1>2, <1>4 DEF Advertise, HoldersInv, LoopsInv, IdsExactInv, TypeOK
<1>5. ASSUME NEW c \in Cdns, NEW f \in Files, Report(c, f) PROVE (HoldersInv /\ LoopsInv)'
  BY <1>1, <1>2, <1>5 DEF Report, HoldersInv, LoopsInv, TypeOK
<1>6. ASSUME NEW c \in Cdns, NEW f \in Files, NEW h \in Handlers, BeginUpdate(h, c, f)
      PROVE  (HoldersInv /\ LoopsInv)'
  <2>1. HoldersInv'
    BY <1>1, <1>2, <1>6 DEF BeginUpdate, HoldersInv, IdsExactInv, TypeOK
  <2>2. ASSUME NEW x \in due'[h]
        PROVE  \E d \in todo'[h] \cap DOMAIN addrOf : addrOf[d] = x
    <3>1. x \in Cdns \ {c} /\ reg[x] = "up"
      BY <1>6, <2>2 DEF BeginUpdate, TypeOK
    <3>2. cdnId[x] \in DOMAIN addrOf /\ addrOf[cdnId[x]] = x /\ addrOf[cdnId[c]] = c
      BY <1>2, <1>6, <3>1 DEF IdsExactInv, BeginUpdate
    <3> QED BY <1>6, <3>1, <3>2 DEF BeginUpdate, TypeOK
  <2>3. ASSUME NEW g \in Handlers, g # h
        PROVE  pc'[g] = pc[g] /\ todo'[g] = todo[g] /\ due'[g] = due[g]
    BY <1>6, <2>3 DEF BeginUpdate, TypeOK
  <2>4. pc'[h] = "loop"
    BY <1>6 DEF BeginUpdate, TypeOK
  <2>5. LoopsInv'
    BY <1>1, <1>2, <2>2, <2>3, <2>4 DEF LoopsInv
  <2> QED BY <2>1, <2>5
<1>7. ASSUME NEW h \in Handlers, Finish(h) PROVE (HoldersInv /\ LoopsInv)'
  BY <1>1, <1>2, <1>7 DEF Finish, HoldersInv, LoopsInv, TypeOK
<1>8. ASSUME NEW h \in Handlers, NEW d \in todo[h], Invalidate(h, d) PROVE (HoldersInv /\ LoopsInv)'
  <2>1. HoldersInv'
    BY <1>1, <1>2, <1>8 DEF Invalidate, HoldersInv, TypeOK
  <2>2. LoopsInv'
    BY <1>1, <1>2, <1>8 DEF Invalidate, LoopsInv, TypeOK
  <2> QED BY <2>1, <2>2
<1>9. ASSUME NEW h \in Handlers, NEW d \in todo[h], Unreachable(h, d) PROVE (HoldersInv /\ LoopsInv)'
  BY <1>1, <1>2, <1>9 DEF Unreachable, HoldersInv, LoopsInv, TypeOK
<1> QED BY <1>3, <1>4, <1>5, <1>6, <1>7, <1>8, <1>9 DEF Updating

LEMMA NextOrderly == DirectoryInv /\ [Next]_vars => OrderlyInv'
<1>1. TypeOK /\ RestartMeta => ~Orderly'
  BY DEF RestartMeta, Orderly, TypeOK
<1>2. OrderlyInv /\ UNCHANGED vars => OrderlyInv'
  BY DEF vars, OrderlyInv, Orderly, IdsExactInv, HoldersInv, LoopsInv, Registering
<1> QED BY <1>1, <1>2, RegistrationOrderly, ListingOrderly, UpdatingOrderly
        DEF Next, DirectoryInv, OrderlyInv

LEMMA DirectoryKept == Spec => []DirectoryInv
<1>1. Init => DirectoryInv
  BY InitTyped, InitOrderly DEF DirectoryInv
<1>2. DirectoryInv /\ [Next]_vars => DirectoryInv'
  BY NextTyped, NextOrderly DEF DirectoryInv
<1> QED BY <1>1, <1>2, PTL DEF Spec

\* A CDN that runs is the one Meta has under its id.
THEOREM DirectoryIds == Spec => []IdsExact
<1>1. DirectoryInv => IdsExact
  BY DEF DirectoryInv, OrderlyInv, IdsExactInv, IdsExact
<1> QED BY <1>1, DirectoryKept, PTL

\* Every holder of an entry can be reached through the map.
THEOREM DirectoryHolders == Spec => []HoldersRegistered
<1>1. DirectoryInv => HoldersRegistered
  BY DEF DirectoryInv, OrderlyInv, HoldersInv, HoldersRegistered
<1> QED BY <1>1, DirectoryKept, PTL

\* A loop that comes to its end has reached every other CDN.
THEOREM DirectoryLoops == Spec => []LoopsReachAll
<1>1. DirectoryInv => LoopsReachAll
  BY DEF DirectoryInv, OrderlyInv, LoopsInv, LoopsReachAll
<1> QED BY <1>1, DirectoryKept, PTL

-----------------------------------------------------------------------------
(* The choice of a CDN.                                                    *)

\* The addresses of the map have distances.
LEMMA Distances ==
  ASSUME TypeOK, NEW p \in Places
  PROVE  /\ \A d \in DOMAIN addrOf : Dist[p][addrOf[d]] \in Nat
         /\ Dist[p][fssAddr] \in Nat
<1>1. \A a \in Sites : Dist[p][a] \in Nat
  BY DistanceAssumption
<1>2. fssAddr \in Sites /\ \A d \in DOMAIN addrOf : addrOf[d] \in Sites
  BY DEF TypeOK, Sites
<1> QED BY <1>1, <1>2

\* What getClosestCDN finds is as near as any, if its distance is a number.
LEMMA ClosestNear ==
  ASSUME NEW p \in Places, NEW S, NEW d \in Closest(p, S) \cap DOMAIN addrOf,
         Measured(p, addrOf[d])
  PROVE  AsNear(p, addrOf[d], S)
<1>1. CASE S \cap DOMAIN addrOf = {}
  BY <1>1 DEF AsNear
<1>2. CASE S \cap DOMAIN addrOf # {}
  BY <1>2 DEF Closest, AsNear
<1> QED BY <1>1, <1>2

\* A CDN that is not passed over for the FSS is no farther than it.
LEMMA CloserNear ==
  ASSUME NEW p \in Places, NEW d
  PROVE  CloserThanFss(p, d) <=> d \in DOMAIN addrOf /\ NearerThanFss(p, d)
BY DEF CloserThanFss, NearerThanFss, Measured

\* What a client is told: the nearest holder or the nearest CDN, as far as the
\* distances are numbers.
THEOREM DirectoryNearest == Spec => []NearestChosen
<1>1. TypeOK => NearestChosen
  <2> SUFFICES ASSUME TypeOK, NEW p \in Places, NEW f \in Files,
                      NEW c \in Chosen(p, f) \cap DOMAIN addrOf
      PROVE  LET H == holders[f] \cap DOMAIN addrOf IN
             /\ Measured(p, addrOf[c]) =>
                  /\ AsNear(p, addrOf[c], H)
                  /\ ~(c \in H /\ NearerThanFss(p, c)) => AsNear(p, addrOf[c], DOMAIN addrOf)
             /\ /\ \E d \in H : NearerThanFss(p, d)
                /\ \A d \in H : Measured(p, addrOf[d])
                => c \in H
    BY DEF NearestChosen
  <2> DEFINE H == holders[f] \cap DOMAIN addrOf
  <2>1. PICK e \in Closest(p, holders[f]) :
          c \in IF e # NoId /\ CloserThanFss(p, e) THEN {e} ELSE Closest(p, DOMAIN addrOf)
    BY DEF Chosen
  <2>2. CASE e # NoId /\ CloserThanFss(p, e)
    <3>1. c = e /\ c \in H /\ NearerThanFss(p, c)
      BY <2>1, <2>2, ClosestKnown, CloserNear
    <3>2. Measured(p, addrOf[c]) => AsNear(p, addrOf[c], H)
      BY <3>1, ClosestNear DEF AsNear
    <3> QED BY <3>1, <3>2
  <2>3. CASE ~(e # NoId /\ CloserThanFss(p, e))
    <3>1. Measured(p, addrOf[c]) =>
            AsNear(p, addrOf[c], DOMAIN addrOf) /\ AsNear(p, addrOf[c], H)
      BY <2>1, <2>3, ClosestNear DEF AsNear
    <3>2. ASSUME NEW d \in H, NearerThanFss(p, d), \A x \in H : Measured(p, addrOf[x])
          PROVE  FALSE
      <4>1. NoId \notin holders[f]
        BY DEF TypeOK, Ids, NoId
      <4>2. e \in H
        BY <3>2, <4>1, ClosestKnown DEF Closest
      <4>3. ~NearerThanFss(p, e)
        BY <2>3, <4>1, <4>2, CloserNear
      <4>4. AsNear(p, addrOf[e], holders[f]) /\ Measured(p, addrOf[e])
        BY <3>2, <4>2, ClosestNear
      <4>5. Dist[p][addrOf[e]] <= Dist[p][addrOf[d]]
        BY <3>2, <4>4 DEF AsNear
      <4>6. Dist[p][addrOf[d]] <= Dist[p][fssAddr] /\ Measured(p, fssAddr)
        BY <3>2 DEF NearerThanFss, Measured
      <4>7. Dist[p][addrOf[e]] <= Dist[p][fssAddr]
        BY <4>2, <4>5, <4>6, Distances
      <4> QED BY <4>3, <4>4, <4>6, <4>7 DEF NearerThanFss, Measured
    <3> QED BY <3>1, <3>2
  <2> QED BY <2>2, <2>3
<1> QED BY <1>1, DirectoryTyped, PTL

=============================================================================
