----------------------------- MODULE MetaStore -----------------------------
(***************************************************************************)
(* How MetaServer keeps its two tables on disk.  Each table is a ring of   *)
(* version files: an operation that changes or removes lines bumps the     *)
(* version number in memory, then copies the file of the old version line  *)
(* by line into the file of the new one; a new line is appended to the     *)
(* current file.  The handlers of the server run on a thread pool and take *)
(* no lock; the version numbers start from 0 again when Meta restarts,     *)
(* over the files the last run left behind.                                *)
(*                                                                         *)
(* The steps of a handler are the accesses that others can see: reading    *)
(* and bumping the version, opening (and truncating) the files, and        *)
(* copying the lines, which reach the disk when the file is closed.  A     *)
(* version file is the set of its lines: no operation depends on their     *)
(* order or tells a line from a second copy of it.                         *)
(***************************************************************************)
EXTENDS Integers, FiniteSets, SequencesExt

CONSTANTS
  Handlers,     \* threads of Meta that serve messages of CDNs
  Files,        \* file names
  Contents,     \* contents, standing for their hash and their time stamp
  Ids,          \* ids of CDNs
  Ring,         \* number of version files of a table: 10 in the code
  MaxRestarts,  \* bound: how often Meta restarts
  Absent        \* no such entry, no message

ASSUME RingAssumption   == Ring \in Nat /\ Ring >= 2
ASSUME BoundAssumption  == MaxRestarts \in Nat
ASSUME AbsentAssumption == Absent \notin Contents
VARIABLES
  store,     \* store[k][v]: the lines of version file v of table k, if it exists
  ver,       \* ver[k]: m_version, m_version_timestamp
  restarts,  \* how often Meta has restarted
  recorded,  \* files whose upload Meta has answered with OK
  pc,        \* where each handler is
  job,       \* the message it serves
  kind,      \* the table it works on
  from, to,  \* the version files it works on; until it has saved the new
             \* version, to is the value it is about to save
  reply      \* its last reply: "ok", "notFound", or "lost" if it sends none

handlerVars == <<pc, job, kind, from, to, reply>>
vars == <<store, ver, restarts, recorded, handlerVars>>

Kinds    == {"entry", "stamp"}
Versions == 0..(Ring - 1)

\* A line of the entry table: file, hash and the CDNs listed; a line of the
\* time stamp table lists none.
Line    == [file : Files, content : Contents, cdns : Seq(Ids)]
Message == [op : {"add", "remove"}, file : Files, id : Ids, content : {Absent}]
           \cup [op : {"record"}, file : Files, id : Ids, content : Contents]

Steps == {"idle", "test", "recheck", "bump", "load", "save", "reread", "open", "rewrite",
          "append"}

\* The type of every variable; a handler that works has a message.
TypeOK ==
  /\ store    = [k \in Kinds |-> store[k]]
  /\ \A k \in Kinds : /\ DOMAIN store[k] \subseteq Versions
                       /\ store[k] \in [DOMAIN store[k] -> SUBSET Line]
  /\ ver      \in [Kinds -> Versions]
  /\ restarts \in Nat
  /\ recorded \subseteq Files
  /\ pc       \in [Handlers -> Steps]
  /\ job      \in [Handlers -> Message \cup {Absent}]
  /\ kind     \in [Handlers -> Kinds]
  /\ from     \in [Handlers -> Versions]
  /\ to       \in [Handlers -> Versions]
  /\ reply    \in [Handlers -> {"none", "ok", "notFound", "lost"}]
  /\ \A h \in Handlers : pc[h] # "idle" => job[h] \in Message

Init ==
  /\ store    = [k \in Kinds |-> <<>>]
  /\ ver      = [k \in Kinds |-> 0]
  /\ restarts = 0
  /\ recorded = {}
  /\ pc       = [h \in Handlers |-> "idle"]
  /\ job      = [h \in Handlers |-> Absent]
  /\ kind     = [h \in Handlers |-> "entry"]
  /\ from     = [h \in Handlers |-> 0]
  /\ to       = [h \in Handlers |-> 0]
  /\ reply    = [h \in Handlers |-> "none"]

-----------------------------------------------------------------------------
\* Reading a version file that is missing finds no lines.
Exists(k, v)  == v \in DOMAIN store[k]
LinesOf(k, v) == IF Exists(k, v) THEN store[k][v] ELSE {}
Current(k)    == LinesOf(k, ver[k])

\* doesExist.
Listed(lines, f) == \E l \in lines : l.file = f

\* Version file v of table k is created or replaced.
Write(k, v, lines) ==
  store' = [store EXCEPT ![k] =
              [w \in DOMAIN @ \cup {v} |-> IF w = v THEN lines ELSE @[w]]]

\* Mutant of WithCdn: the list is not searched for the CDN first.
WithCdnAgain(line, d) == [line EXCEPT !.cdns = Append(@, d)]

\* What addCdnToMetaEntry and deleteCdnFromMetaEntry make of the file's line.
WithCdn(line, d) == IF d \in ToSet(line.cdns) THEN line
                    ELSE [line EXCEPT !.cdns = Append(@, d)]

WithoutCdn(line, d) == [line EXCEPT !.cdns = RemoveFirst(@, d)]

\* Mutant of Rewritten: an entry whose last CDN is removed is removed with it.
RewrittenWithoutEmpty(m, lines) ==
  LET old == {l \in lines : l.file = m.file} IN
  (lines \ old) \cup CASE m.op = "record" -> {}
                        [] m.op = "add"    -> {WithCdn(l, m.id) : l \in old}
                        [] m.op = "remove" -> {WithoutCdn(l, m.id) : l \in
                                                 {o \in old : o.cdns # <<m.id>>}}

\* What the copy loop of each operation makes of the lines of its file.
Rewritten(m, lines) ==
  LET old == {l \in lines : l.file = m.file} IN
  (lines \ old) \cup CASE m.op = "record" -> {}
                        [] m.op = "add"    -> {WithCdn(l, m.id) : l \in old}
                        [] m.op = "remove" -> {WithoutCdn(l, m.id) : l \in old}

\* What may be left of lines that others have written into a file since it was
\* opened: the copy covers them from the start, as far as it goes.  A line that
\* is covered in part belongs to no file.
Uncovered(others, copy) == IF copy = {} THEN {others} ELSE SUBSET others

\* Mutant of NewLine: the CDN that has the first copy is not listed.
NewLineAlone(k, m) == [file |-> m.file, content |-> m.content, cdns |-> <<>>]

\* The line addNewMetaEntry or addNewTimeStamp adds.
NewLine(k, m) == [file |-> m.file, content |-> m.content,
                  cdns |-> IF k = "entry" THEN <<m.id>> ELSE <<>>]

Goto(h, s) == pc' = [pc EXCEPT ![h] = s]

\* The handler returns, its local variables end.
Finish(h, answer) == /\ Goto(h, "idle")
                     /\ reply' = [reply EXCEPT ![h] = answer]
                     /\ job'   = [job EXCEPT ![h] = Absent]
                     /\ kind'  = [kind EXCEPT ![h] = "entry"]
                     /\ from'  = [from EXCEPT ![h] = 0]
                     /\ to'    = [to EXCEPT ![h] = 0]

Continue(h, s) == Goto(h, s) /\ UNCHANGED <<job, kind, from, to, reply>>

-----------------------------------------------------------------------------
\* A message arrives: addCdnToMetaEntry ("add"), deleteCdnFromMetaEntry
\* ("remove"), or updateMetaEntry and updateTimeStamp ("record").
Begin(h, m) ==
  /\ pc[h] = "idle"
  /\ job'   = [job EXCEPT ![h] = m]
  /\ kind'  = [kind EXCEPT ![h] = "entry"]
  /\ reply' = [reply EXCEPT ![h] = "none"]
  /\ Goto(h, IF m.op = "record" THEN "test" ELSE "bump")
  /\ UNCHANGED <<store, ver, restarts, recorded, from, to>>

\* Mutant of Test: updateTimeStamp does not delete the old time stamp.
TestStampKept(h) ==
  LET k == kind[h] IN
  /\ pc[h] = "test"
  /\ from' = [from EXCEPT ![h] = ver[k]]
  /\ Goto(h, IF k = "stamp" THEN "append"
             ELSE IF Listed(Current(k), job[h].file) THEN "bump" ELSE "recheck")
  /\ UNCHANGED <<store, ver, restarts, recorded, job, kind, to, reply>>

\* The first test of updateMetaEntry (is there an entry?) and of
\* updateTimeStamp (is there a file?).
Test(h) ==
  LET k == kind[h] IN
  /\ pc[h] = "test"
  /\ from' = [from EXCEPT ![h] = ver[k]]
  /\ Goto(h, IF k = "entry"
             THEN IF Listed(Current(k), job[h].file) THEN "bump" ELSE "recheck"
             ELSE IF Exists(k, ver[k]) THEN "bump" ELSE "append")
  /\ UNCHANGED <<store, ver, restarts, recorded, job, kind, to, reply>>

\* The name of the old file is made ...
NameOld(h) ==
  /\ pc[h] = "bump"
  /\ from' = [from EXCEPT ![h] = ver[kind[h]]]
  /\ Goto(h, "load")
  /\ UNCHANGED <<store, ver, restarts, recorded, job, kind, to, reply>>

\* Mutant of LoadVersion: the version does not wrap.
LoadUnwrapped(h) ==
  /\ pc[h] = "load"
  /\ to' = [to EXCEPT ![h] = ver[kind[h]] + 1]
  /\ Goto(h, "save")
  /\ UNCHANGED <<store, ver, restarts, recorded, job, kind, from, reply>>

\* ... updateVersion reads the version ...
LoadVersion(h) ==
  /\ pc[h] = "load"
  /\ to' = [to EXCEPT ![h] = (ver[kind[h]] + 1) % Ring]
  /\ Goto(h, "save")
  /\ UNCHANGED <<store, ver, restarts, recorded, job, kind, from, reply>>

\* ... and writes it, whatever it is by now ...
SaveVersion(h) ==
  /\ pc[h] = "save"
  /\ ver' = [ver EXCEPT ![kind[h]] = to[h]]
  /\ Goto(h, "reread")
  /\ UNCHANGED <<store, restarts, recorded, job, kind, from, to, reply>>

\* Mutant of NameNew: both names are made after the bump.
NameBoth(h) ==
  /\ pc[h] = "reread"
  /\ from' = [from EXCEPT ![h] = ver[kind[h]]]
  /\ to'   = [to EXCEPT ![h] = ver[kind[h]]]
  /\ Goto(h, "open")
  /\ UNCHANGED <<store, ver, restarts, recorded, job, kind, reply>>

\* ... and the name of the new file is made of what the version is then.
NameNew(h) ==
  /\ pc[h] = "reread"
  /\ to' = [to EXCEPT ![h] = ver[kind[h]]]
  /\ Goto(h, "open")
  /\ UNCHANGED <<store, ver, restarts, recorded, job, kind, from, reply>>

Bump(h) == NameOld(h) \/ LoadVersion(h) \/ SaveVersion(h) \/ NameNew(h)

\* Opening the file of the new version empties it.
Open(h) ==
  LET k == kind[h] IN
  /\ pc[h] = "open"
  /\ Exists(k, from[h])
  /\ Write(k, to[h], {})
  /\ Goto(h, "rewrite")
  /\ UNCHANGED <<ver, restarts, recorded, job, kind, from, to, reply>>

\* There is no file of the old version.  The version stays bumped; a failed
\* updateMetaEntry makes handle_update return without a reply; the result of
\* deleteTimeStamp is ignored.
OpenFails(h) ==
  LET k == kind[h] IN
  /\ pc[h] = "open"
  /\ ~Exists(k, from[h])
  /\ \/ /\ k = "stamp"
        /\ Continue(h, "append")
     \/ /\ k = "entry"
        /\ Finish(h, CASE job[h].op = "record" -> "lost"
                       [] job[h].op = "add"    -> "notFound"
                       [] job[h].op = "remove" -> "ok")
  /\ UNCHANGED <<store, ver, restarts, recorded>>

\* The copy loop and the closing of both files.
Rewrite(h) ==
  LET k     == kind[h]
      lines == LinesOf(k, from[h])
      copy  == Rewritten(job[h], lines) IN
  /\ pc[h] = "rewrite"
  /\ \E rest \in Uncovered(LinesOf(k, to[h]), copy) : Write(k, to[h], copy \cup rest)
  /\ \/ /\ job[h].op = "record"
        /\ Continue(h, IF k = "entry" THEN "recheck" ELSE "append")
     \/ /\ job[h].op = "add"
        /\ Finish(h, IF Listed(lines, job[h].file) THEN "ok" ELSE "notFound")
     \/ /\ job[h].op = "remove"
        /\ Finish(h, "ok")
  /\ UNCHANGED <<ver, restarts, recorded>>

\* addNewMetaEntry refuses to add a second entry: updateMetaEntry fails and
\* handle_update returns without a reply.
Recheck(h) ==
  /\ pc[h] = "recheck"
  /\ IF Listed(Current("entry"), job[h].file)
     THEN Finish(h, "lost")
     ELSE Continue(h, "append")
  /\ UNCHANGED <<store, ver, restarts, recorded>>

\* addNewMetaEntry and addNewTimeStamp append a line to the current file.
\* After the entry comes the time stamp, after the time stamp the reply.
AppendLine(h) ==
  LET k == kind[h]  m == job[h] IN
  /\ pc[h] = "append"
  /\ Write(k, ver[k], Current(k) \cup {NewLine(k, m)})
  /\ \/ /\ k = "entry"
        /\ kind' = [kind EXCEPT ![h] = "stamp"]
        /\ Goto(h, "test")
        /\ UNCHANGED <<recorded, job, from, to, reply>>
     \/ /\ k = "stamp"
        /\ recorded' = recorded \cup {m.file}
        /\ Finish(h, "ok")
  /\ UNCHANGED <<ver, restarts>>

\* Meta computes a list for a client: opening the entry table creates its
\* current version file when there is none.
ListForClient ==
  /\ ~Exists("entry", ver["entry"])
  /\ Write("entry", ver["entry"], {})
  /\ UNCHANGED <<ver, restarts, recorded, handlerVars>>

\* Meta restarts: its memory is gone, its files are not.
Restart ==
  /\ restarts < MaxRestarts
  /\ restarts' = restarts + 1
  /\ ver'   = [k \in Kinds |-> 0]
  /\ pc'    = [h \in Handlers |-> "idle"]
  /\ job'   = [h \in Handlers |-> Absent]
  /\ kind'  = [h \in Handlers |-> "entry"]
  /\ from'  = [h \in Handlers |-> 0]
  /\ to'    = [h \in Handlers |-> 0]
  /\ reply' = [h \in Handlers |-> "none"]
  /\ UNCHANGED <<store, recorded>>

HandlerStep(h) == Test(h) \/ Bump(h) \/ Open(h) \/ OpenFails(h) \/ Rewrite(h)
                  \/ Recheck(h) \/ AppendLine(h)

Next == \/ \E h \in Handlers : HandlerStep(h) \/ \E m \in Message : Begin(h, m)
        \/ ListForClient
        \/ Restart

Spec == Init /\ [][Next]_vars

-----------------------------------------------------------------------------
Working(h)     == pc[h] # "idle"
NothingRunning == \A h \in Handlers : ~Working(h)
FirstRun       == restarts = 0

\* A file whose upload Meta has acknowledged is in Meta's list from then on, as
\* long as Meta runs: README.md:13, "Meta Server keeps track of a list of files
\* that are uploaded".
RecordedStaysListed ==
  FirstRun /\ NothingRunning => \A f \in recorded : Listed(Current("entry"), f)

\* The current file of a table has one line for a file: a client that asks
\* for its list is given one hash, or time stamp, per file.  A run of Meta that
\* starts on the file a handler was stopped at keeps it that way too.
OneLinePerFile ==
  \A k \in Kinds : \A l, m \in Current(k) : l.file = m.file => l = m

\* A CDN is listed once: deleteCdnFromMetaEntry erases the first it finds,
\* "assuming there is only one entry for each cdn in the list"
\* (MetaServer.cpp:457).
OneEntryPerCdn == \A l \in Current("entry") : IsInjective(l.cdns)

\* Why: no version file, of any version, lists a CDN twice, and only an upload
\* adds lines.
AllLinesDistinct ==
  /\ TypeOK
  /\ \A k \in Kinds, v \in Versions : \A l \in LinesOf(k, v) : IsInjective(l.cdns)
  /\ \A h \in Handlers :
       pc[h] \in {"test", "recheck", "append"} \/ kind[h] = "stamp" => job[h].op = "record"

\* Every message is answered: MetaCDNReceiver.cpp:71, "Response: status OK or
\* Forbidden".
EveryMessageAnswered == \A h \in Handlers : reply[h] # "lost"

\* What the tables say when the change a handler is working on has not taken
\* effect: an operation on a table takes effect with its last write.
Pending(h, k) == kind[h] = k /\ pc[h] \in {"reread", "open", "rewrite", "recheck",
                                               "append"}
Effective(k)  ==
  IF \E h \in Handlers : Pending(h, k)
  THEN LinesOf(k, from[CHOOSE h \in Handlers : Pending(h, k)])
  ELSE Current(k)

LineOf(k, f)    == CHOOSE l \in Effective(k) : l.file = f
ContentOf(k, f) == IF Listed(Effective(k), f) THEN LineOf(k, f).content ELSE Absent
HoldersOf(f)    == IF Listed(Effective("entry"), f)
                   THEN ToSet(LineOf("entry", f).cdns) ELSE {}

\* The table the version files stand for.
Table == INSTANCE MetaTable WITH
  hash    <- [f \in Files |-> ContentOf("entry", f)],
  stamp   <- [f \in Files |-> ContentOf("stamp", f)],
  holders <- [f \in Files |-> HoldersOf(f)]

\* With one handler at a time, and until Meta restarts, the files of MetaServer
\* are the table that the rest of the system takes Meta for.
ImplementsTable == Table!Init /\ [][FirstRun' => [Table!Next]_(Table!vars)]_vars

=============================================================================
