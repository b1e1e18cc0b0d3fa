----------------------------- MODULE ClientSync -----------------------------
(***************************************************************************)
(* The client program and the lists the Origin and Meta servers compute    *)
(* for it.  A user changes the files of a directory at any moment; the     *)
(* client lists them, asks the Origin which to transfer, and transfers     *)
(* them one by one.  The storage side is one record per file, changed by   *)
(* one upload at a time; ContentNetwork says when that is justified.       *)
(*                                                                         *)
(* A content is the number of the act of a user that made it, so that of   *)
(* two contents the larger one is the more recent.  The clocks of all      *)
(* clients agree; if Coarse, changes of one second have the same stamp,    *)
(* otherwise no two have.                                                  *)
(* The names in a list are transferred in any order.                       *)
(***************************************************************************)
EXTENDS Integers, FiniteSets

CONSTANTS
  Clients,    \* clients, each with a directory of its own
  Writers,    \* the clients whose users change files
  Files,      \* file names
  Coarse,     \* whether two changes may happen in the same second
  MaxActs,    \* bound: edits, deletions and commands of users
  MaxFaults,  \* bound: calls that fail and clients that are stopped
  Absent      \* no such file

ASSUME WriterAssumption == Writers \subseteq Clients
ASSUME CoarseAssumption == Coarse \in BOOLEAN
ASSUME BoundAssumption  == MaxActs \in Nat /\ MaxFaults \in Nat

VARIABLES
  dir,      \* dir[c]: the files of client c, with content and time stamp
  server,   \* FSS and Meta: content, recorded hash, recorded time stamp
  acts,     \* what users have done so far: edits, deletions and commands
  clock,    \* the time
  faults,   \* failures so far
  cmd,      \* the command each client runs: --download, --upload or --sync
  pc,       \* where it is
  pass,     \* what its current pass does
  first,    \* isFirstRun
  seen,     \* the directory as the current pass has listed it
  post,     \* postSyncFileList: the names only
  deleted,  \* deletedFiles
  needs,    \* needsSyncUpload
  downs,    \* files it still has to download
  ups,      \* files it still has to upload
  body      \* the file it is uploading and the content it has read

userVars   == <<acts, clock>>
memoryVars == <<first, post, deleted, needs>>
passVars   == <<pass, seen, downs, ups, body>>
vars == <<dir, server, userVars, faults, cmd, pc, memoryVars, passVars>>

Empty    == 0
Contents == Empty..MaxActs
NoHash   == -1      \* what hashing a missing file gives
Nothing  == [file |-> Absent, content |-> Empty]

Copy     == [content : Contents, mtime : Nat]
Recorded == [content : Contents, hash : Contents \cup {NoHash}, stamp : Nat]

ASSUME AbsentAssumption == Absent \notin Copy \cup Recorded

\* The type of every variable.
TypeOK ==
  /\ dir     \in [Clients -> [Files -> Copy \cup {Absent}]]
  /\ server  \in [Files -> Recorded \cup {Absent}]
  /\ acts    \in 0..MaxActs
  /\ clock   \in Nat
  /\ faults  \in 0..MaxFaults
  /\ cmd     \in [Clients -> {"none", "download", "upload", "sync"}]
  /\ pc      \in [Clients -> {"off", "asleep", "scan", "ask", "transfer", "send", "record"}]
  /\ pass    \in [Clients -> {"download", "upload", "sync"}]
  /\ first   \in [Clients -> BOOLEAN]
  /\ seen    \in [Clients -> [Files -> Copy \cup {Absent}]]
  /\ post    \in [Clients -> SUBSET Files]
  /\ deleted \in [Clients -> SUBSET Files]
  /\ needs   \in [Clients -> BOOLEAN]
  /\ downs   \in [Clients -> SUBSET Files]
  /\ ups     \in [Clients -> SUBSET Files]
  /\ body    \in [Clients -> [file : Files \cup {Absent}, content : Contents]]

NoFiles == [f \in Files |-> Absent]

Init ==
  /\ dir     = [c \in Clients |-> NoFiles]
  /\ server  = NoFiles
  /\ acts    = 0
  /\ clock   = 0
  /\ faults  = 0
  /\ cmd     = [c \in Clients |-> "none"]
  /\ pc      = [c \in Clients |-> "off"]
  /\ pass    = [c \in Clients |-> "download"]
  /\ first   = [c \in Clients |-> TRUE]
  /\ seen    = [c \in Clients |-> NoFiles]
  /\ post    = [c \in Clients |-> {}]
  /\ deleted = [c \in Clients |-> {}]
  /\ needs   = [c \in Clients |-> FALSE]
  /\ downs   = [c \in Clients |-> {}]
  /\ ups     = [c \in Clients |-> {}]
  /\ body    = [c \in Clients |-> Nothing]

Present(d) == {f \in Files : d[f] # Absent}
Stored     == Present(server)
Hash(d, f) == IF d[f] = Absent THEN NoHash ELSE d[f].content

\* The time stamps a file that is written now may get.
Now == IF Coarse THEN {clock, clock + 1} ELSE {clock + 1}

\* Whether the present second is the stamp of anything: if it is not, a later
\* one would make no difference.
InUse == \/ \E f \in Stored : server[f].stamp = clock
         \/ \E c \in Clients : \E f \in Present(dir[c]) : dir[c][f].mtime = clock

-----------------------------------------------------------------------------
(* The lists Meta computes from a client's list d.                         *)

Differing(d) == {f \in Stored : Hash(d, f) # server[f].hash}

\* processListFromOriginDownload for an explicit download.
DownloadList(d) == {f \in Stored : f \in Present(d) => f \in Differing(d)}

\* processListFromOriginUpload for an explicit upload.
UploadList(d) == (Present(d) \cap Differing(d)) \cup (Present(d) \ Stored)

\* processSyncWithTimeStamp: the files of which the client has a later stamp;
\* all others that Meta knows are to be downloaded.
Newer(d) == {f \in Present(d) \cap Stored : d[f].mtime > server[f].stamp}

\* Mutant of SyncUploads: the test of the hashes is negated.
SyncUploadsAgreeing(d) == Newer(d) \ Differing(d)

\* handle_sync: both lists without the files whose hashes agree.  A file the
\* client does not have is looked up with an empty hash.
SyncUploads(d)   == Newer(d) \cap Differing(d)
SyncDownloads(d) == Differing(d) \ Newer(d)

-----------------------------------------------------------------------------
(* The user.                                                               *)

Edit(c, f) ==
  /\ acts < MaxActs
  /\ \E t \in Now :
       /\ dir'   = [dir EXCEPT ![c][f] = [content |-> acts + 1, mtime |-> t]]
       /\ clock' = t
  /\ acts' = acts + 1
  /\ UNCHANGED <<server, faults, cmd, pc, memoryVars, passVars>>

Delete(c, f) ==
  /\ acts < MaxActs
  /\ dir[c][f] # Absent
  /\ dir'   = [dir EXCEPT ![c][f] = Absent]
  /\ acts'  = acts + 1
  /\ UNCHANGED <<server, clock, faults, cmd, pc, memoryVars, passVars>>

-----------------------------------------------------------------------------
(* The client.                                                             *)

Goto(c, s) == pc' = [pc EXCEPT ![c] = s]

\* A pass has ended or a new one begins: its local variables are gone.
Forget(c) == /\ seen'  = [seen EXCEPT ![c] = NoFiles]
             /\ downs' = [downs EXCEPT ![c] = {}]
             /\ ups'   = [ups EXCEPT ![c] = {}]
             /\ body'  = [body EXCEPT ![c] = Nothing]

BeginPass(c, p) == /\ pass' = [pass EXCEPT ![c] = p]
                   /\ Goto(c, "scan")
                   /\ Forget(c)

\* The user starts the client: its memory is empty.
Start(c, command) ==
  /\ pc[c] = "off"
  /\ acts < MaxActs
  /\ acts' = acts + 1
  /\ cmd' = [cmd EXCEPT ![c] = command]
  /\ IF command = "sync" THEN Goto(c, "asleep") /\ UNCHANGED passVars
                         ELSE BeginPass(c, command)
  /\ UNCHANGED <<dir, server, clock, faults, memoryVars>>

\* The ten seconds are over: autoSync, the first time after a syncDownload.
Wake(c) ==
  /\ pc[c] = "asleep"
  /\ BeginPass(c, IF first[c] THEN "download" ELSE "sync")
  /\ clock' = IF InUse THEN clock + 1 ELSE clock
  /\ UNCHANGED <<dir, server, acts, faults, cmd, memoryVars>>

\* Mutant of Scan: files that have disappeared are not noted as deleted.
ScanOnlyNew(c) ==
  /\ pc[c] = "scan"
  /\ seen' = [seen EXCEPT ![c] = dir[c]]
  /\ needs' = [needs EXCEPT ![c] = ~(Present(dir[c]) \subseteq post[c])]
  /\ Goto(c, "ask")
  /\ UNCHANGED <<dir, server, userVars, faults, cmd, first, post, deleted,
                 pass, downs, ups, body>>

\* getListOfFilesFromDirectory, and compareLocalFileLists unless it is the
\* first pass or an explicit one.
Scan(c) ==
  LET gone == deleted[c] \cup (post[c] \ Present(dir[c])) IN
  /\ pc[c] = "scan"
  /\ seen' = [seen EXCEPT ![c] = dir[c]]
  /\ \/ /\ pass[c] = "sync" /\ ~first[c]
        /\ deleted' = [deleted EXCEPT ![c] = gone]
        /\ needs'   = [needs EXCEPT ![c] = ~(Present(dir[c]) \subseteq post[c] \cup gone)]
     \/ /\ pass[c] # "sync" \/ first[c]
        /\ UNCHANGED <<deleted, needs>>
  /\ Goto(c, "ask")
  /\ UNCHANGED <<dir, server, userVars, faults, cmd, first, post,
                 pass, downs, ups, body>>

\* The Origin answers with the lists of files to transfer.
Ask(c) ==
  LET d == seen[c] IN
  /\ pc[c] = "ask"
  /\ downs' = [downs EXCEPT ![c] = CASE pass[c] = "download" -> DownloadList(d)
                                     [] pass[c] = "sync"     -> SyncDownloads(d)
                                     [] pass[c] = "upload"   -> {}]
  /\ ups'   = [ups EXCEPT ![c] = CASE pass[c] = "upload"   -> UploadList(d)
                                   [] pass[c] = "sync"     -> SyncUploads(d)
                                   [] pass[c] = "download" -> {}]
  /\ Goto(c, "transfer")
  /\ UNCHANGED <<dir, server, userVars, faults, cmd, memoryVars, pass, seen, body>>

\* The Origin cannot be reached: the pass goes on with empty lists.
AskFails(c) ==
  /\ pc[c] = "ask"
  /\ faults < MaxFaults
  /\ faults' = faults + 1
  /\ Goto(c, "transfer")
  /\ UNCHANGED <<dir, server, userVars, cmd, memoryVars, passVars>>

Drop(todo, c, f) == todo' = [todo EXCEPT ![c] = @ \ {f}]

\* A file that is noted as deleted is neither downloaded nor uploaded.
Skip(c, f) ==
  /\ pc[c] = "transfer"
  /\ f \in deleted[c]
  /\ \/ f \in downs[c] /\ Drop(downs, c, f) /\ UNCHANGED ups
     \/ downs[c] = {} /\ f \in ups[c] /\ Drop(ups, c, f) /\ UNCHANGED downs
  /\ UNCHANGED <<dir, server, userVars, faults, cmd, pc, memoryVars, pass, seen, body>>

\* downloadFile: what is in the directory is overwritten, and is as new as
\* the moment it is written.
Download(c, f) ==
  /\ pc[c] = "transfer"
  /\ f \in downs[c] \ deleted[c]
  /\ \E t \in Now :
       /\ dir'   = [dir EXCEPT ![c][f] = [content |-> server[f].content, mtime |-> t]]
       /\ clock' = t
  /\ Drop(downs, c, f)
  /\ UNCHANGED <<server, acts, faults, cmd, pc, memoryVars, pass, seen, ups, body>>

\* Mutant of DownloadFails: the body of the failed answer is saved.
DownloadSavesFailure(c, f) ==
  /\ pc[c] = "transfer"
  /\ f \in downs[c] \ deleted[c]
  /\ faults < MaxFaults
  /\ faults' = faults + 1
  /\ \E t \in Now :
       /\ dir'   = [dir EXCEPT ![c][f] = [content |-> Empty, mtime |-> t]]
       /\ clock' = t
  /\ Drop(downs, c, f)
  /\ UNCHANGED <<server, acts, cmd, pc, memoryVars, pass, seen, ups, body>>

\* The download fails, the pass goes on.
DownloadFails(c, f) ==
  /\ pc[c] = "transfer"
  /\ f \in downs[c] \ deleted[c]
  /\ faults < MaxFaults
  /\ faults' = faults + 1
  /\ Drop(downs, c, f)
  /\ UNCHANGED <<dir, server, userVars, cmd, pc, memoryVars, pass, seen, ups, body>>

\* Mutant of Read: a file that is gone is not read as an empty one.
ReadMissing(c, f) ==
  /\ pc[c] = "transfer"
  /\ downs[c] = {}
  /\ f \in ups[c] \ deleted[c]
  /\ body' = [body EXCEPT ![c] = [file |-> f, content |-> Hash(dir[c], f)]]
  /\ Drop(ups, c, f)
  /\ Goto(c, "send")
  /\ UNCHANGED <<dir, server, userVars, faults, cmd, memoryVars, pass, seen, downs>>

\* uploadFile, after the downloads: reading the file, which may be gone.
Read(c, f) ==
  /\ pc[c] = "transfer"
  /\ downs[c] = {}
  /\ f \in ups[c] \ deleted[c]
  /\ body' = [body EXCEPT ![c] =
                [file    |-> f,
                 content |-> IF dir[c][f] = Absent THEN Empty ELSE dir[c][f].content]]
  /\ Drop(ups, c, f)
  /\ Goto(c, "send")
  /\ UNCHANGED <<dir, server, userVars, faults, cmd, memoryVars, pass, seen, downs>>

\* Mutant of Send: the upload is stamped with the time of the upload.
SendStampedNow(c) ==
  LET f == body[c].file IN
  /\ pc[c] = "send"
  /\ server' = [server EXCEPT ![f] = [content |-> body[c].content,
                                      hash    |-> Hash(dir[c], f),
                                      stamp   |-> clock + 1]]
  /\ body' = [body EXCEPT ![c] = Nothing]
  /\ Goto(c, "transfer")
  /\ UNCHANGED <<dir, userVars, faults, cmd, memoryVars, pass, seen, downs, ups>>

\* ... hashing it again from the directory, and the PUT, which announces the
\* time stamp the pass has listed.
Send(c) ==
  LET f == body[c].file IN
  /\ pc[c] = "send"
  /\ server' = [server EXCEPT ![f] = [content |-> body[c].content,
                                      hash    |-> Hash(dir[c], f),
                                      stamp   |-> seen[c][f].mtime]]
  /\ body' = [body EXCEPT ![c] = Nothing]
  /\ Goto(c, "transfer")
  /\ UNCHANGED <<dir, userVars, faults, cmd, memoryVars, pass, seen, downs, ups>>

SendFails(c) ==
  /\ pc[c] = "send"
  /\ faults < MaxFaults
  /\ faults' = faults + 1
  /\ body' = [body EXCEPT ![c] = Nothing]
  /\ Goto(c, "transfer")
  /\ UNCHANGED <<dir, server, userVars, cmd, memoryVars, pass, seen, downs, ups>>

Transferred(c) == pc[c] = "transfer" /\ downs[c] = {} /\ ups[c] = {}

\* The end of a --download or --upload command.
Finish(c) ==
  /\ Transferred(c)
  /\ cmd[c] # "sync"
  /\ cmd' = [cmd EXCEPT ![c] = "none"]
  /\ Goto(c, "off")
  /\ Forget(c)
  /\ UNCHANGED <<dir, server, userVars, faults, memoryVars, pass>>

\* The end of a pass of autoSync that another one follows.
NextPass(c) ==
  /\ Transferred(c)
  /\ cmd[c] = "sync"
  /\ \/ pass[c] = "download" /\ BeginPass(c, "sync") /\ UNCHANGED first
     \/ pass[c] = "sync" /\ Goto(c, "record") /\ UNCHANGED <<passVars, first>>
     \/ /\ pass[c] = "upload"
        /\ Goto(c, "asleep")
        /\ Forget(c)
        /\ first' = [first EXCEPT ![c] = FALSE]
        /\ UNCHANGED pass
  /\ UNCHANGED <<dir, server, userVars, faults, cmd, post, deleted, needs>>

\* postSyncFileList is read from the directory; a syncUpload follows if the
\* pass has seen new files.
Record(c) ==
  /\ pc[c] = "record"
  /\ post' = [post EXCEPT ![c] = Present(dir[c])]
  /\ IF needs[c]
     THEN BeginPass(c, "upload") /\ UNCHANGED first
     ELSE /\ Goto(c, "asleep")
          /\ Forget(c)
          /\ first' = [first EXCEPT ![c] = FALSE]
          /\ UNCHANGED pass
  /\ UNCHANGED <<dir, server, userVars, faults, cmd, deleted, needs>>

\* The client is stopped.
Stop(c) ==
  /\ pc[c] # "off"
  /\ faults < MaxFaults
  /\ faults'  = faults + 1
  /\ cmd'     = [cmd EXCEPT ![c] = "none"]
  /\ Goto(c, "off")
  /\ first'   = [first EXCEPT ![c] = TRUE]
  /\ post'    = [post EXCEPT ![c] = {}]
  /\ deleted' = [deleted EXCEPT ![c] = {}]
  /\ needs'   = [needs EXCEPT ![c] = FALSE]
  /\ Forget(c)
  /\ UNCHANGED <<dir, server, userVars, pass>>

-----------------------------------------------------------------------------
\* What the program does next of its own accord.
Step(c) == \/ Wake(c) \/ Scan(c) \/ Ask(c) \/ Send(c)
           \/ Finish(c) \/ NextPass(c) \/ Record(c)
           \/ \E f \in Files : Skip(c, f) \/ Download(c, f) \/ Read(c, f)

Fail(c) == \/ AskFails(c) \/ SendFails(c) \/ Stop(c)
           \/ \E f \in Files : DownloadFails(c, f)

User(c) == \/ c \in Writers /\ \E f \in Files : Edit(c, f) \/ Delete(c, f)
           \/ \E command \in {"download", "upload", "sync"} : Start(c, command)

Next == \E c \in Clients : Step(c) \/ Fail(c) \/ User(c)

Spec == Init /\ [][Next]_vars

\* A client that runs goes on running; users need not do anything.
FairSpec == Spec /\ \A c \in Clients : WF_vars(Step(c))

-----------------------------------------------------------------------------
\* There is only one client: UploadsNotOlder and OwnFilesKept are guaranteed to
\* it alone.
LoneClient == \A c, d \in Clients : c = d

\* What a client uploads because its stamp is later is not older than what
\* the server has: MetaServer.cpp:530, "client has more recent version; client
\* needs to upload it to fss".
UploadsNotOlder ==
  [][\A c \in Clients : Ask(c) /\ pass[c] = "sync" =>
       \A f \in ups'[c] : seen[c][f].content >= server[f].content]_vars

\* A client is not told to download what it has: whatever edits, uploads and
\* failures came before, the copies it lists are as recent as the server's record
\* or are to be uploaded.  Only where stamps are whole seconds may a copy be
\* downloaded over, one with the stamp that is recorded.
OwnFilesKept ==
  [][\A c \in Clients : Ask(c) /\ pass[c] = "sync" =>
       \A f \in downs'[c] :
         seen[c][f] = Absent \/ (Coarse /\ seen[c][f].mtime = server[f].stamp)]_vars

\* A file that was there when the last pass ended and was missing when this
\* one began is not brought back: MetaServer.cpp:536, "Removed files will be
\* handled by client app".
NoResurrection ==
  [][\A c \in Clients, f \in Files :
       Download(c, f) /\ pass[c] = "sync" /\ seen[c][f] = Absent => f \notin post[c]]_vars

\* When users have stopped changing files, a client that keeps synchronising
\* comes to agree with the server on every file both have, unless it was
\* deleted there once.
Agrees(c, f) == f \in (Present(dir[c]) \cap Stored) \ deleted[c] =>
                  dir[c][f].content = server[f].hash

Converges == \A c \in Clients, f \in Files :
               <>[](cmd[c] = "sync") => <>[]Agrees(c, f)

=============================================================================
