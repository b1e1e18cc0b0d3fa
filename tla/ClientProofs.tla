---------------------------- MODULE ClientProofs ----------------------------
(***************************************************************************)
(* Proofs about ClientSync, for any number of clients, files, acts and     *)
(* failures: the types, and that a synchronisation does not bring deleted  *)
(* files back.  Then, for a client that is alone, that it uploads nothing  *)
(* older than what the server has and does not download what it has.       *)
(***************************************************************************)
EXTENDS ClientSync, TLAPS

\* What the lists of a pass may contain: what is to be downloaded is stored,
\* what is to be uploaded, or is being uploaded, has been listed.
ListsSound(c) ==
  /\ downs[c] \subseteq Stored
  /\ ups[c] \subseteq Present(seen[c])
  /\ pc[c] = "send" => body[c].file \in Present(seen[c])
  /\ pc[c] \notin {"transfer", "send"} => downs[c] = {} /\ ups[c] = {}

TypeInv == TypeOK /\ \A c \in Clients : ListsSound(c)

-----------------------------------------------------------------------------
\* What is added to the directory, or to the server's record.
LEMMA CopyTyped ==
  ASSUME NEW x \in Contents, NEW t \in Nat
  PROVE  [content |-> x, mtime |-> t] \in Copy
  BY DEF Copy

LEMMA RecordTyped ==
  ASSUME NEW x \in Contents, NEW h \in Contents \cup {NoHash}, NEW t \in Nat
  PROVE  /\ [content |-> x, hash |-> h, stamp |-> t] \in Recorded
         /\ [content |-> x, hash |-> h, stamp |-> t] # Absent
  BY AbsentAssumption DEF Recorded

\* Time stamps are numbers, and the clock does not go back.
LEMMA NowTyped ==
  ASSUME clock \in Nat, NEW t \in Now
  PROVE  t \in Nat /\ t >= clock /\ (~Coarse => t > clock)
  BY DEF Now

LEMMA InitTyped == Init => TypeInv
  BY BoundAssumption
     DEF Init, TypeInv, TypeOK, ListsSound, NoFiles, Nothing, Contents, Empty, Present, Stored

\* A step of a client that changes neither directories nor the server.
LEMMA MemoryTyped ==
  ASSUME TypeInv, NEW c \in Clients,
         \/ Wake(c) \/ Scan(c) \/ Ask(c) \/ Finish(c) \/ NextPass(c) \/ Record(c)
         \/ AskFails(c) \/ SendFails(c) \/ Stop(c)
         \/ \E f \in Files : Skip(c, f) \/ Read(c, f) \/ DownloadFails(c, f)
  PROVE  TypeInv'
<1> USE DEF TypeInv, TypeOK, ListsSound, Present, Stored, userVars, memoryVars, passVars,
            Goto, Drop, Forget, BeginPass, Nothing, NoFiles
<1> Empty \in Contents
  BY BoundAssumption DEF Contents, Empty
<1>1. CASE Wake(c)
  BY <1>1 DEF Wake
<1>2. CASE Scan(c)
  <2>1. ASSUME NEW d \in Clients
        PROVE  seen'[d] \in [Files -> Copy \cup {Absent}]
    BY <1>2 DEF Scan
  <2>2. seen' \in [Clients -> [Files -> Copy \cup {Absent}]]
    BY <1>2, <2>1 DEF Scan
  <2>3. deleted' \in [Clients -> SUBSET Files]
    <3>1. deleted[c] \cup (post[c] \ Present(dir[c])) \in SUBSET Files
      OBVIOUS
    <3>2. \/ deleted' = deleted
          \/ deleted' = [deleted EXCEPT ![c] = deleted[c] \cup (post[c] \ Present(dir[c]))]
      BY <1>2 DEF Scan
    <3> HIDE DEF Present
    <3> QED BY <3>1, <3>2
  <2>4. needs' \in [Clients -> BOOLEAN]
    BY <1>2 DEF Scan
  <2> QED BY <1>2, <2>2, <2>3, <2>4 DEF Scan
<1>3. CASE Ask(c)
  BY <1>3 DEF Ask, DownloadList, UploadList, SyncDownloads, SyncUploads, Newer, Differing
<1>4. CASE Finish(c)
  BY <1>4 DEF Finish, Transferred
<1>5. CASE NextPass(c)
  <2>1. CASE pass[c] = "download" /\ BeginPass(c, "sync") /\ UNCHANGED first
    BY <1>5, <2>1 DEF NextPass, Transferred
  <2>2. CASE pass[c] = "sync" /\ Goto(c, "record") /\ UNCHANGED <<passVars, first>>
    BY <1>5, <2>2 DEF NextPass, Transferred
  <2>3. CASE pass[c] = "upload" /\ Goto(c, "asleep") /\ Forget(c) /\ UNCHANGED pass
             /\ first' = [first EXCEPT ![c] = FALSE]
    BY <1>5, <2>3 DEF NextPass, Transferred
  <2> QED BY <1>5, <2>1, <2>2, <2>3 DEF NextPass
<1>6. CASE Record(c)
  <2>1. post' \in [Clients -> SUBSET Files]
    <3>1. Present(dir[c]) \in SUBSET Files
      OBVIOUS
    <3> QED BY <1>6, <3>1 DEF Record
  <2>2. CASE needs[c]
    <3>1. BeginPass(c, "upload") /\ UNCHANGED first
      BY <1>6, <2>2 DEF Record
    <3> QED BY <1>6, <2>1, <3>1 DEF Record
  <2>3. CASE ~needs[c]
    <3>1. /\ Goto(c, "asleep") /\ Forget(c) /\ UNCHANGED pass
          /\ first' = [first EXCEPT ![c] = FALSE]
      BY <1>6, <2>3 DEF Record
    <3> QED BY <1>6, <2>1, <3>1 DEF Record
  <2> QED BY <2>2, <2>3
<1>7. CASE AskFails(c)
  BY <1>7, BoundAssumption DEF AskFails
<1>8. CASE SendFails(c)
  BY <1>8, BoundAssumption DEF SendFails
<1>9. CASE Stop(c)
  BY <1>9, BoundAssumption DEF Stop
<1>10. ASSUME NEW f \in Files, Skip(c, f)
       PROVE  TypeInv'
  <2>1. CASE Drop(downs, c, f) /\ UNCHANGED ups
    BY <1>10, <2>1 DEF Skip
  <2>2. CASE Drop(ups, c, f) /\ UNCHANGED downs
    BY <1>10, <2>2 DEF Skip
  <2> QED BY <1>10, <2>1, <2>2 DEF Skip
<1>11. ASSUME NEW f \in Files, Read(c, f)
       PROVE  TypeInv'
  BY <1>11 DEF Read, Copy
<1>12. ASSUME NEW f \in Files, DownloadFails(c, f)
       PROVE  TypeInv'
  BY <1>12, BoundAssumption DEF DownloadFails
<1> QED BY <1>1, <1>2, <1>3, <1>4, <1>5, <1>6, <1>7, <1>8, <1>9, <1>10, <1>11, <1>12

\* A step that changes a directory, the server's record, or starts a client.
LEMMA DataTyped ==
  ASSUME TypeInv, NEW c \in Clients,
         \/ Send(c)
         \/ \E f \in Files : Edit(c, f) \/ Delete(c, f) \/ Download(c, f)
         \/ \E command \in {"download", "upload", "sync"} : Start(c, command)
  PROVE  TypeInv'
<1> USE DEF TypeInv, TypeOK, ListsSound, Present, Stored, userVars, memoryVars, passVars,
            Goto, Drop, Forget, BeginPass, Nothing, NoFiles
<1> Empty \in Contents
  BY BoundAssumption DEF Contents, Empty
<1>1. CASE Send(c)
  <2> DEFINE f == body[c].file
             r == [content |-> body[c].content, hash |-> Hash(dir[c], f),
                   stamp |-> seen[c][f].mtime]
  <2>1. f \in Files /\ seen[c][f] \in Copy /\ body[c].content \in Contents
    BY <1>1 DEF Send
  <2>2. Hash(dir[c], f) \in Contents \cup {NoHash}
    BY <2>1 DEF Hash, Copy
  <2>3. r \in Recorded /\ r # Absent
    <3>1. seen[c][f].mtime \in Nat
      BY <2>1 DEF Copy
    <3> QED BY <2>1, <2>2, <3>1, RecordTyped
  <2>4. server' = [server EXCEPT ![f] = r]
    BY <1>1 DEF Send
  <2> HIDE DEF r
  <2> QED BY <1>1, <2>1, <2>3, <2>4 DEF Send
<1>2. ASSUME NEW f \in Files, Edit(c, f)
      PROVE  TypeInv'
  <2>1. PICK t \in Now : /\ dir'   = [dir EXCEPT ![c][f] = [content |-> acts + 1, mtime |-> t]]
                         /\ clock' = t
    BY <1>2 DEF Edit
  <2>2. acts + 1 \in Contents
    BY <1>2, BoundAssumption DEF Edit, Contents, Empty
  <2>3. [content |-> acts + 1, mtime |-> t] \in Copy /\ t \in Nat
    BY <2>1, <2>2, NowTyped, CopyTyped
  <2> QED BY <1>2, <2>1, <2>3, BoundAssumption DEF Edit
<1>3. ASSUME NEW f \in Files, Delete(c, f)
      PROVE  TypeInv'
  BY <1>3, BoundAssumption DEF Delete
<1>4. ASSUME NEW f \in Files, Download(c, f)
      PROVE  TypeInv'
  <2>1. PICK t \in Now :
          /\ dir'   = [dir EXCEPT ![c][f] = [content |-> server[f].content, mtime |-> t]]
          /\ clock' = t
    BY <1>4 DEF Download
  <2>2. server[f].content \in Contents
    BY <1>4 DEF Download, Recorded
  <2>3. [content |-> server[f].content, mtime |-> t] \in Copy /\ t \in Nat
    BY <2>1, <2>2, NowTyped, CopyTyped
  <2> QED BY <1>4, <2>1, <2>3 DEF Download
<1>5. ASSUME NEW command \in {"download", "upload", "sync"}, Start(c, command)
      PROVE  TypeInv'
  <2>1. CASE command = "sync"
    <3>1. Goto(c, "asleep") /\ UNCHANGED passVars
      BY <1>5, <2>1 DEF Start
    <3> QED BY <1>5, <2>1, <3>1, BoundAssumption DEF Start
  <2>2. CASE command # "sync"
    <3>1. BeginPass(c, command)
      BY <1>5, <2>2 DEF Start
    <3> QED BY <1>5, <2>2, <3>1, BoundAssumption DEF Start
  <2> QED BY <2>1, <2>2
<1> QED BY <1>1, <1>2, <1>3, <1>4, <1>5

\* The types and the lists of a pass hold in every state of the client and
\* the server.
THEOREM ClientsTyped == Spec => []TypeInv
<1>1. TypeInv /\ [Next]_vars => TypeInv'
  <2> SUFFICES ASSUME TypeInv, [Next]_vars PROVE TypeInv'
    OBVIOUS
  <2>1. CASE UNCHANGED vars
    BY <2>1 DEF vars, userVars, memoryVars, passVars, TypeInv, TypeOK, ListsSound, Present, Stored
  <2>2. ASSUME NEW c \in Clients, Step(c) \/ Fail(c) \/ User(c)
        PROVE  TypeInv'
    BY <2>2, MemoryTyped, DataTyped DEF Step, Fail, User
  <2> QED BY <2>1, <2>2 DEF Next
<1> QED BY <1>1, InitTyped, PTL DEF Spec

\* Every variable of ClientSync keeps its type.
THEOREM ClientTypesHold == Spec => []TypeOK
  BY ClientsTyped, PTL DEF TypeInv

-----------------------------------------------------------------------------
\* What a client knows of the files that have disappeared: during a pass of
\* autoSync, those of the last list that are not in the present one are noted
\* as deleted; before the end of the first there is no last list.
Remembers(c) ==
  /\ first[c] => ~needs[c] /\ post[c] = {}
  /\ pass[c] = "sync" /\ pc[c] \in {"ask", "transfer", "send", "record"} =>
       \A f \in post[c] : seen[c][f] = Absent => f \in deleted[c]

MemoryInv == TypeInv /\ \A c \in Clients : Remembers(c)

\* The contents and time stamps of a client that is alone: nothing is from
\* the future, the directory is at least as recent as the server, as what is
\* being sent and as the list of the pass, and so is that list when the Origin
\* is asked.
Bounded(c) ==
  /\ body[c].content <= acts
  /\ \A f \in Files :
       /\ dir[c][f] # Absent => dir[c][f].content <= acts /\ dir[c][f].mtime <= clock
       /\ seen[c][f] # Absent => seen[c][f].content <= acts /\ seen[c][f].mtime <= clock
       /\ server[f] # Absent => server[f].content <= acts /\ server[f].stamp <= clock

Recent(c) ==
  \A f \in Files :
    /\ dir[c][f] # Absent /\ server[f] # Absent =>
         server[f].content <= dir[c][f].content /\ server[f].stamp <= dir[c][f].mtime
    /\ dir[c][f] # Absent /\ seen[c][f] # Absent => seen[c][f].mtime <= dir[c][f].mtime
    /\ pc[c] = "send" /\ body[c].file = f /\ dir[c][f] # Absent =>
         body[c].content <= dir[c][f].content

Listed(c) ==
  \A f \in Files :
    pc[c] = "ask" /\ seen[c][f] # Absent /\ server[f] # Absent =>
      server[f].content <= seen[c][f].content /\ server[f].stamp <= seen[c][f].mtime

\* If no two changes have the same stamp, a copy with the recorded stamp is the
\* one whose hash is recorded; the list of the pass agrees when it is sent.
Stamped(c) ==
  ~Coarse => \A f \in Files : server[f] # Absent =>
    /\ dir[c][f] # Absent /\ dir[c][f].mtime = server[f].stamp =>
         dir[c][f].content = server[f].hash
    /\ pc[c] = "ask" /\ seen[c][f] # Absent /\ seen[c][f].mtime = server[f].stamp =>
         seen[c][f].content = server[f].hash

Alone(c) == Bounded(c) /\ Recent(c) /\ Listed(c) /\ Stamped(c)

LoneInv == MemoryInv /\ \A c \in Clients : Alone(c)

-----------------------------------------------------------------------------
LEMMA RemembersStep ==
  ASSUME MemoryInv, NEW c \in Clients, Step(c) \/ Fail(c) \/ User(c)
  PROVE  \A d \in Clients : Remembers(d)'
<1> USE DEF MemoryInv, TypeInv, TypeOK, Remembers, userVars, memoryVars, passVars, Goto, Forget, BeginPass
<1>1. CASE Wake(c)
  BY <1>1 DEF Wake
<1>2. CASE Scan(c)
  <2> DEFINE gone == deleted[c] \cup (post[c] \ Present(dir[c]))
  <2>1. pc[c] = "scan" /\ seen' = [seen EXCEPT ![c] = dir[c]] /\ pc' = [pc EXCEPT ![c] = "ask"]
        /\ UNCHANGED <<first, post, pass>>
    BY <1>2 DEF Scan
  <2>2. CASE /\ pass[c] = "sync" /\ ~first[c]
             /\ deleted' = [deleted EXCEPT ![c] = gone]
             /\ needs'   = [needs EXCEPT ![c] = ~(Present(dir[c]) \subseteq post[c] \cup gone)]
    <3>1. \A f \in post[c] : dir[c][f] = Absent => f \in gone
      BY DEF Present
    <3> HIDE DEF gone
    <3> QED BY <2>1, <2>2, <3>1
  <2>3. CASE /\ pass[c] # "sync" \/ first[c]
             /\ UNCHANGED <<deleted, needs>>
    BY <2>1, <2>3
  <2> QED BY <1>2, <2>2, <2>3 DEF Scan
<1>3. CASE Ask(c)
  BY <1>3 DEF Ask
<1>4. CASE Send(c)
  BY <1>4 DEF Send
<1>5. CASE Finish(c)
  BY <1>5 DEF Finish
<1>6. CASE NextPass(c)
  <2>1. CASE pass[c] = "download" /\ BeginPass(c, "sync") /\ UNCHANGED first
    BY <1>6, <2>1 DEF NextPass
  <2>2. CASE pass[c] = "sync" /\ Goto(c, "record") /\ UNCHANGED <<passVars, first>>
    BY <1>6, <2>2 DEF NextPass, Transferred
  <2>3. CASE Goto(c, "asleep") /\ Forget(c) /\ UNCHANGED pass
             /\ first' = [first EXCEPT ![c] = FALSE]
    BY <1>6, <2>3 DEF NextPass
  <2> QED BY <1>6, <2>1, <2>2, <2>3 DEF NextPass
<1>7. CASE Record(c)
  BY <1>7 DEF Record
<1>8. CASE AskFails(c) \/ SendFails(c)
  BY <1>8 DEF AskFails, SendFails
<1>9. CASE Stop(c)
  BY <1>9 DEF Stop
<1>10. ASSUME NEW f \in Files,
              Skip(c, f) \/ Download(c, f) \/ Read(c, f) \/ DownloadFails(c, f)
       PROVE  \A d \in Clients : Remembers(d)'
  BY <1>10 DEF Skip, Download, Read, DownloadFails
<1>11. ASSUME NEW f \in Files, Edit(c, f) \/ Delete(c, f)
       PROVE  \A d \in Clients : Remembers(d)'
  BY <1>11 DEF Edit, Delete
<1>12. ASSUME NEW command \in {"download", "upload", "sync"}, Start(c, command)
       PROVE  \A d \in Clients : Remembers(d)'
  <2>1. CASE Goto(c, "asleep") /\ UNCHANGED passVars
    BY <1>12, <2>1 DEF Start
  <2>2. CASE BeginPass(c, command)
    BY <1>12, <2>2 DEF Start
  <2> QED BY <1>12, <2>1, <2>2 DEF Start
<1> QED BY <1>1, <1>2, <1>3, <1>4, <1>5, <1>6, <1>7, <1>8, <1>9, <1>10, <1>11, <1>12
           DEF Step, Fail, User

\* Types and memory, in every state.
THEOREM MemoryKept == Spec => []MemoryInv
<1>1. Init => \A c \in Clients : Remembers(c)
  BY DEF Init, Remembers
<1>2. MemoryInv /\ TypeInv' /\ [Next]_vars => MemoryInv'
  <2> SUFFICES ASSUME MemoryInv, TypeInv', [Next]_vars
               PROVE  \A c \in Clients : Remembers(c)'
    BY DEF MemoryInv
  <2>1. CASE UNCHANGED vars
    BY <2>1 DEF vars, memoryVars, passVars, MemoryInv, Remembers
  <2>2. ASSUME NEW c \in Clients, Step(c) \/ Fail(c) \/ User(c)
        PROVE  \A d \in Clients : Remembers(d)'
    BY <2>2, RemembersStep
  <2> QED BY <2>1, <2>2 DEF Next
<1>3. TypeInv /\ (\A c \in Clients : Remembers(c)) => MemoryInv
  BY DEF MemoryInv
<1> QED BY <1>1, <1>2, <1>3, InitTyped, ClientsTyped, PTL DEF Spec

\* A file that was there when the last pass ended and was missing when this
\* one began is not downloaded by it, whatever other clients upload and
\* whichever calls fail.
THEOREM DeletedStayDeleted == Spec => NoResurrection
<1>1. MemoryInv /\ [Next]_vars =>
        [\A c \in Clients, f \in Files :
           Download(c, f) /\ pass[c] = "sync" /\ seen[c][f] = Absent => f \notin post[c]]_vars
  BY DEF MemoryInv, Remembers, Download
<1> QED BY <1>1, MemoryKept, PTL DEF Spec, NoResurrection

-----------------------------------------------------------------------------
\* Steps of a lone client that change neither its directory nor the server.
LEMMA LoneMemoryStep ==
  ASSUME LoneInv, LoneClient, NEW c \in Clients, TypeInv',
         \/ Wake(c) \/ Scan(c) \/ Ask(c) \/ Finish(c) \/ NextPass(c) \/ Record(c)
         \/ AskFails(c) \/ SendFails(c) \/ Stop(c)
         \/ \E f \in Files : Skip(c, f) \/ Read(c, f) \/ DownloadFails(c, f)
         \/ \E command \in {"download", "upload", "sync"} : Start(c, command)
  PROVE  Alone(c)'
<1> USE DEF LoneInv, MemoryInv, TypeInv, TypeOK, ListsSound, Copy, Recorded, Contents, Empty,
            Alone, Bounded, Recent, Listed, Stamped, userVars, memoryVars, passVars,
            Goto, Drop, Forget, BeginPass, Nothing, NoFiles
<1>1. CASE Wake(c)
  BY <1>1 DEF Wake
<1>2. CASE Scan(c)
  BY <1>2 DEF Scan
<1>3. CASE Ask(c)
  BY <1>3 DEF Ask
<1>4. CASE Finish(c)
  BY <1>4 DEF Finish
<1>5. CASE NextPass(c)
  BY <1>5 DEF NextPass, Transferred
<1>6. CASE Record(c)
  BY <1>6 DEF Record
<1>7. CASE AskFails(c)
  BY <1>7 DEF AskFails
<1>8. CASE SendFails(c)
  BY <1>8 DEF SendFails
<1>9. CASE Stop(c)
  BY <1>9 DEF Stop
<1>10. ASSUME NEW f \in Files, Skip(c, f)
       PROVE  Alone(c)'
  BY <1>10 DEF Skip
<1>11. ASSUME NEW f \in Files, Read(c, f)
       PROVE  Alone(c)'
  BY <1>11 DEF Read
<1>12. ASSUME NEW f \in Files, DownloadFails(c, f)
       PROVE  Alone(c)'
  BY <1>12 DEF DownloadFails
<1>13. ASSUME NEW command \in {"download", "upload", "sync"}, Start(c, command)
       PROVE  Alone(c)'
  BY <1>13 DEF Start
<1> QED BY <1>1, <1>2, <1>3, <1>4, <1>5, <1>6, <1>7, <1>8, <1>9, <1>10, <1>11, <1>12, <1>13

\* Steps of a lone client or its user that do.
LEMMA LoneDataStep ==
  ASSUME LoneInv, LoneClient, NEW c \in Clients, TypeInv',
         \/ Send(c)
         \/ \E f \in Files : Edit(c, f) \/ Delete(c, f) \/ Download(c, f)
  PROVE  Alone(c)'
<1> USE DEF LoneInv, MemoryInv, TypeInv, TypeOK, ListsSound, Copy, Recorded, Contents, Empty,
            Alone, Bounded, Recent, Listed, Stamped, userVars, memoryVars, passVars, Goto, Drop, Nothing
<1>1. CASE Send(c)
  <2> DEFINE f == body[c].file
  <2>1. /\ f \in Files /\ seen[c][f] # Absent
        /\ pc' = [pc EXCEPT ![c] = "transfer"]
        /\ server' = [server EXCEPT ![f] = [content |-> body[c].content,
                                           hash    |-> Hash(dir[c], f),
                                           stamp   |-> seen[c][f].mtime]]
        /\ body' = [body EXCEPT ![c] = Nothing]
        /\ UNCHANGED <<dir, acts, clock, seen>>
    BY <1>1 DEF Send, Present
  <2>2. server'[f] = [content |-> body[c].content, hash |-> Hash(dir[c], f),
                      stamp |-> seen[c][f].mtime]
    BY <2>1
  <2>3. \A g \in Files \ {f} : server'[g] = server[g]
    BY <2>1
  <2>4. Bounded(c)' /\ Recent(c)' /\ Listed(c)'
    BY <1>1, <2>1, <2>2, <2>3 DEF Send, Present
  <2>5. Stamped(c)'
    BY <2>1, <2>2, <2>3 DEF Hash
  <2> QED BY <2>4, <2>5
<1>2. ASSUME NEW f \in Files, Edit(c, f)
      PROVE  Alone(c)'
  <2>1. PICK t \in Now : /\ dir'   = [dir EXCEPT ![c][f] = [content |-> acts + 1, mtime |-> t]]
                         /\ clock' = t
    BY <1>2 DEF Edit
  <2>2. t \in Nat /\ t >= clock /\ (~Coarse => t > clock)
    BY <2>1, NowTyped
  <2> QED BY <1>2, <2>1, <2>2 DEF Edit
<1>3. ASSUME NEW f \in Files, Delete(c, f)
      PROVE  Alone(c)'
  BY <1>3 DEF Delete
<1>4. ASSUME NEW f \in Files, Download(c, f)
      PROVE  Alone(c)'
  <2>1. PICK t \in Now :
          /\ dir'   = [dir EXCEPT ![c][f] = [content |-> server[f].content, mtime |-> t]]
          /\ clock' = t
    BY <1>4 DEF Download
  <2>2. t \in Nat /\ t >= clock /\ (~Coarse => t > clock) /\ server[f] # Absent
    BY <1>4, <2>1, NowTyped DEF Stored, Present, Download
  <2> QED BY <1>4, <2>1, <2>2 DEF Download
<1> QED BY <1>1, <1>2, <1>3, <1>4

\* What a client that is alone knows, in every state.
THEOREM LoneKept == LoneClient /\ Spec => []LoneInv
<1> SUFFICES ASSUME LoneClient PROVE Spec => []LoneInv
  OBVIOUS
<1>1. Init => \A c \in Clients : Alone(c)
  BY DEF Init, Alone, Bounded, Recent, Listed, Stamped, NoFiles, Nothing, Empty
<1>2. LoneInv /\ MemoryInv' /\ [Next]_vars => LoneInv'
  <2> SUFFICES ASSUME LoneInv, MemoryInv', [Next]_vars, NEW c \in Clients
               PROVE  Alone(c)'
    BY DEF LoneInv
  <2>1. CASE UNCHANGED vars
    BY <2>1 DEF vars, userVars, memoryVars, passVars, LoneInv, Alone, Bounded, Recent, Listed, Stamped
  <2>2. CASE Step(c) \/ Fail(c) \/ User(c)
    <3>1. TypeInv'
      BY DEF MemoryInv
    <3> QED BY <2>2, <3>1, LoneMemoryStep, LoneDataStep DEF Step, Fail, User
  <2> QED BY <2>1, <2>2 DEF Next, LoneClient
<1>3. MemoryInv /\ (\A c \in Clients : Alone(c)) => LoneInv
  BY DEF LoneInv
<1> QED BY <1>1, <1>2, <1>3, MemoryKept, PTL DEF Spec

\* A client that is alone does not upload what is older than the server's
\* content, whatever its user does during its passes.
THEOREM LoneUploadsNotOlder == LoneClient /\ Spec => UploadsNotOlder
<1> SUFFICES ASSUME LoneClient PROVE Spec => UploadsNotOlder
  OBVIOUS
<1>1. LoneInv /\ [Next]_vars =>
        [\A c \in Clients : Ask(c) /\ pass[c] = "sync" =>
           \A f \in ups'[c] : seen[c][f].content >= server[f].content]_vars
  <2> SUFFICES ASSUME LoneInv, NEW c \in Clients, Ask(c), pass[c] = "sync", NEW f \in ups'[c]
               PROVE  seen[c][f].content >= server[f].content
    OBVIOUS
  <2>1. f \in Newer(seen[c]) /\ pc[c] = "ask"
    BY DEF Ask, SyncUploads, LoneInv, MemoryInv, TypeInv, TypeOK
  <2>2. /\ f \in Files /\ seen[c][f] \in Copy /\ server[f] \in Recorded
        /\ seen[c][f] # Absent /\ server[f] # Absent
    BY <2>1, AbsentAssumption DEF Newer, Present, Stored, LoneInv, MemoryInv, TypeInv, TypeOK
  <2> QED BY <2>1, <2>2 DEF LoneInv, Alone, Listed, Copy, Recorded, Contents, Empty
<1> QED BY <1>1, LoneKept, PTL DEF Spec, UploadsNotOlder

\* A client that is alone is not told to download a copy it has listed, unless
\* stamps are whole seconds and it has the recorded one: what it lists is at
\* least as recent as the record, and one of the same stamp has the same hash.
THEOREM LoneFilesKept == LoneClient /\ Spec => OwnFilesKept
<1> SUFFICES ASSUME LoneClient PROVE Spec => OwnFilesKept
  OBVIOUS
<1>1. LoneInv /\ [Next]_vars =>
        [\A c \in Clients : Ask(c) /\ pass[c] = "sync" =>
           \A f \in downs'[c] :
             seen[c][f] = Absent \/ (Coarse /\ seen[c][f].mtime = server[f].stamp)]_vars
  <2> SUFFICES ASSUME LoneInv, NEW c \in Clients, Ask(c), pass[c] = "sync", NEW f \in downs'[c],
                      seen[c][f] # Absent
               PROVE  Coarse /\ seen[c][f].mtime = server[f].stamp
    OBVIOUS
  <2>1. pc[c] = "ask" /\ f \in Differing(seen[c]) /\ f \notin Newer(seen[c])
    BY DEF Ask, SyncDownloads, LoneInv, MemoryInv, TypeInv, TypeOK
  <2>2. /\ f \in Files /\ server[f] # Absent
        /\ seen[c][f] \in Copy /\ server[f] \in Recorded
        /\ seen[c][f].content # server[f].hash
    BY <2>1, AbsentAssumption
       DEF Differing, Hash, Present, Stored, LoneInv, MemoryInv, TypeInv, TypeOK
  <2>3. seen[c][f].mtime <= server[f].stamp
    BY <2>1, <2>2 DEF Newer, Present, Stored, Copy, Recorded
  <2>4. server[f].stamp <= seen[c][f].mtime
    BY <2>1, <2>2 DEF LoneInv, Alone, Listed
  <2>5. seen[c][f].mtime = server[f].stamp
    BY <2>2, <2>3, <2>4 DEF Copy, Recorded
  <2> QED BY <2>1, <2>2, <2>5 DEF LoneInv, Alone, Stamped
<1> QED BY <1>1, LoneKept, PTL DEF Spec, OwnFilesKept

=============================================================================
