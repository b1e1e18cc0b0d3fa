-------------------------- MODULE MetaStoreProofs --------------------------
(***************************************************************************)
(* MetaServer's tables on disk: what holds for any number of concurrent    *)
(* handlers and any restarts, and, in the second half, what holds for one  *)
(* handler at a time, the refinement of MetaTable among it.                *)
(***************************************************************************)
EXTENDS MetaStore, SequenceLemmas

USE DEF handlerVars, Goto, Continue, Finish, Kinds, Versions

\* A line that lists one CDN, or none, lists no CDN twice.
LEMMA NewLineKeeps ==
  ASSUME NEW k \in Kinds, NEW m \in Message, m.op = "record"
  PROVE  NewLine(k, m) \in Line /\ IsInjective(NewLine(k, m).cdns)
<1>1. m.file \in Files /\ m.id \in Ids /\ m.content \in Contents
  BY DEF Message
<1>2. <<m.id>> \in Seq(Ids) /\ IsInjective(<<m.id>>)
  BY <1>1 DEF IsInjective
<1>3. <<>> \in Seq(Ids) /\ IsInjective(<<>>)
  BY DEF IsInjective
<1> QED BY <1>1, <1>2, <1>3 DEF NewLine, Line

\* addCdnToMetaEntry makes a line of a line, and lists no CDN twice.
LEMMA WithCdnKeeps ==
  ASSUME NEW line \in Line, NEW d \in Ids, IsInjective(line.cdns)
  PROVE  WithCdn(line, d) \in Line /\ IsInjective(WithCdn(line, d).cdns)
<1> DEFINE s == line.cdns  t == Append(s, d)
<1>1. s \in Seq(Ids) /\ t \in Seq(Ids) /\ Len(s) \in Nat
  BY DEF Line
<1>2. [line EXCEPT !.cdns = t] \in Line /\ [line EXCEPT !.cdns = t].cdns = t
  BY <1>1 DEF Line
<1>3. ASSUME d \notin ToSet(s)
      PROVE  IsInjective(t)
  <2>1. DOMAIN t = 1..(Len(s) + 1) /\ t[Len(s) + 1] = d
    BY <1>1
  <2>2. \A i \in 1..Len(s) : t[i] = s[i] /\ s[i] # d
    BY <1>1, <1>3 DEF ToSet
  <2>3. \A i, j \in 1..Len(s) : s[i] = s[j] => i = j
    BY <1>1 DEF IsInjective
  <2> HIDE DEF t, s
  <2>4. \A i, j \in 1..(Len(s) + 1) : t[i] = t[j] => i = j
    <3> SUFFICES ASSUME NEW i \in 1..(Len(s) + 1), NEW j \in 1..(Len(s) + 1),
                        t[i] = t[j]
                 PROVE  i = j
      OBVIOUS
    <3>1. i \in 1..Len(s) \/ i = Len(s) + 1
      BY <1>1
    <3>2. j \in 1..Len(s) \/ j = Len(s) + 1
      BY <1>1
    <3> QED BY <2>1, <2>2, <2>3, <3>1, <3>2
  <2> QED BY <2>1, <2>4 DEF IsInjective
<1> QED BY <1>2, <1>3 DEF WithCdn

\* deleteCdnFromMetaEntry does too.
LEMMA WithoutCdnKeeps ==
  ASSUME NEW line \in Line, NEW d, IsInjective(line.cdns)
  PROVE  WithoutCdn(line, d) \in Line /\ IsInjective(WithoutCdn(line, d).cdns)
<1> DEFINE t == RemoveFirst(line.cdns, d)
<1>1. t \in Seq(Ids) /\ IsInjective(t)
  <2>1. line.cdns \in Seq(Ids)
    BY DEF Line
  <2> QED BY <2>1, RemoveFirstKeeps
<1>2. WithoutCdn(line, d) = [line EXCEPT !.cdns = t]
  BY DEF WithoutCdn
<1> HIDE DEF t
<1> QED BY <1>1, <1>2 DEF Line

\* The copy loops make lines that list no CDN twice of such lines.
LEMMA RewrittenKeeps ==
  ASSUME NEW m \in Message, NEW lines \in SUBSET Line,
         \A l \in lines : IsInjective(l.cdns)
  PROVE  /\ Rewritten(m, lines) \in SUBSET Line
         /\ \A l \in Rewritten(m, lines) : IsInjective(l.cdns)
<1> DEFINE old == {l \in lines : l.file = m.file}
<1>1. m.id \in Ids /\ m.op \in {"add", "remove", "record"}
  BY DEF Message
<1>2. \A l \in old : WithCdn(l, m.id) \in Line /\ IsInjective(WithCdn(l, m.id).cdns)
  BY <1>1, WithCdnKeeps
<1>3. \A l \in old : WithoutCdn(l, m.id) \in Line /\ IsInjective(WithoutCdn(l, m.id).cdns)
  BY WithoutCdnKeeps
<1>4. CASE m.op = "record"
  BY <1>4 DEF Rewritten
<1>5. CASE m.op = "add"
  <2>1. Rewritten(m, lines) = (lines \ old) \cup {WithCdn(l, m.id) : l \in old}
    BY <1>5 DEF Rewritten
  <2> HIDE DEF old
  <2>2. \A l \in Rewritten(m, lines) :
          l \in lines \/ \E o \in old : l = WithCdn(o, m.id)
    BY <2>1
  <2> QED BY <1>2, <2>2
<1>6. CASE m.op = "remove"
  <2>1. Rewritten(m, lines) = (lines \ old) \cup {WithoutCdn(l, m.id) : l \in old}
    BY <1>6 DEF Rewritten
  <2> HIDE DEF old
  <2>2. \A l \in Rewritten(m, lines) :
          l \in lines \/ \E o \in old : l = WithoutCdn(o, m.id)
    BY <2>1
  <2> QED BY <1>3, <2>2
<1> QED BY <1>1, <1>4, <1>5, <1>6

-----------------------------------------------------------------------------
\* The part of TypeOK about the version files.
StoreType ==
  /\ store = [k \in Kinds |-> store[k]]
  /\ \A k \in Kinds : /\ DOMAIN store[k] \subseteq Versions
                      /\ store[k] \in [DOMAIN store[k] -> SUBSET Line]

\* What is read from a version file are lines.
LEMMA LinesType ==
  ASSUME StoreType, NEW k \in Kinds, NEW v
  PROVE  LinesOf(k, v) \in SUBSET Line
BY DEF StoreType, LinesOf, Exists

\* Writing lines that list no CDN twice into a version file.
LEMMA WriteKeeps ==
  ASSUME StoreType, \A k \in Kinds, v \in Versions :
           \A l \in LinesOf(k, v) : IsInjective(l.cdns),
         NEW k \in Kinds, NEW v \in Versions,
         NEW lines \in SUBSET Line, \A l \in lines : IsInjective(l.cdns),
         Write(k, v, lines)
  PROVE  /\ StoreType'
         /\ \A j \in Kinds, w \in Versions :
              \A l \in LinesOf(j, w)' : IsInjective(l.cdns)
<1> DEFINE new == [w \in DOMAIN store[k] \cup {v} |->
                     IF w = v THEN lines ELSE store[k][w]]
<1>1. /\ DOMAIN new = {v} \cup DOMAIN store[k]
      /\ \A w \in DOMAIN new : new[w] = IF w = v THEN lines ELSE store[k][w]
      /\ new = [w \in DOMAIN new |-> new[w]]
  OBVIOUS
<1>2. store' = [store EXCEPT ![k] = new]
  BY DEF Write
<1> HIDE DEF new
<1>3. /\ store' = [j \in Kinds |-> store'[j]]
      /\ \A j \in Kinds : store'[j] = IF j = k THEN new ELSE store[j]
  BY <1>2 DEF StoreType
<1>4. /\ DOMAIN new \subseteq Versions
      /\ new \in [DOMAIN new -> SUBSET Line]
  BY <1>1 DEF StoreType
<1>5. StoreType'
  BY <1>3, <1>4 DEF StoreType
<1>6. \A j \in Kinds, w \in Versions :
        LinesOf(j, w)' = IF j = k /\ w = v THEN lines ELSE LinesOf(j, w)
  BY <1>1, <1>3 DEF LinesOf, Exists
<1> QED BY <1>5, <1>6

\* A handler that leaves the files alone, or writes such lines, and goes on to
\* a state it may be in.
LEMMA HandlerKeeps ==
  ASSUME AllLinesDistinct, NEW h \in Handlers, NEW s, TypeOK',
         \A k \in Kinds, v \in Versions :
           \A l \in LinesOf(k, v)' : IsInjective(l.cdns),
         pc' = [pc EXCEPT ![h] = s],
         \A g \in Handlers \ {h} : job'[g] = job[g] /\ kind'[g] = kind[g],
         s \in {"test", "recheck", "append"} \/ kind'[h] = "stamp" =>
           job'[h].op = "record"
  PROVE  AllLinesDistinct'
<1>1. \A g \in Handlers : pc'[g] = IF g = h THEN s ELSE pc[g]
  BY DEF AllLinesDistinct, TypeOK
<1>2. ASSUME NEW g \in Handlers,
             pc'[g] \in {"test", "recheck", "append"} \/ kind'[g] = "stamp"
      PROVE  job'[g].op = "record"
  <2>1. CASE g = h
    BY <1>1, <1>2, <2>1
  <2>2. CASE g # h
    BY <1>1, <1>2, <2>2 DEF AllLinesDistinct
  <2> QED BY <2>1, <2>2
<1> QED BY <1>2 DEF AllLinesDistinct

\* Nothing is written.
LEMMA UnchangedKeeps ==
  ASSUME AllLinesDistinct, UNCHANGED store
  PROVE  /\ StoreType /\ StoreType'
         /\ \A k \in Kinds, v \in Versions :
              \A l \in LinesOf(k, v)' : IsInjective(l.cdns)
BY DEF AllLinesDistinct, TypeOK, StoreType, LinesOf, Exists

\* A message arrives.
LEMMA BeginKeeps ==
  ASSUME AllLinesDistinct, NEW h \in Handlers, NEW m \in Message, Begin(h, m)
  PROVE  AllLinesDistinct'
<1> DEFINE s == IF m.op = "record" THEN "test" ELSE "bump"
<1>1. TypeOK'
  <2>1. s \in {"test", "bump"} /\ "entry" \in Kinds
    OBVIOUS
  <2>2. \A g \in Handlers : pc'[g] # "idle" => job'[g] \in Message
    BY DEF AllLinesDistinct, TypeOK, Begin
  <2> QED BY <2>1, <2>2 DEF AllLinesDistinct, TypeOK, Steps, Begin
<1>2. job'[h] = m /\ kind'[h] = "entry"
  BY DEF AllLinesDistinct, TypeOK, Begin
<1>3. \A g \in Handlers \ {h} : job'[g] = job[g] /\ kind'[g] = kind[g]
  BY DEF AllLinesDistinct, TypeOK, Begin
<1>4. pc' = [pc EXCEPT ![h] = s] /\ UNCHANGED store /\ s # "rewrite"
  BY DEF Begin
<1>5. s \in {"test", "recheck", "append"} \/ kind'[h] = "stamp" => job'[h].op = "record"
  BY <1>2
<1> HIDE DEF s
<1> QED BY <1>1, <1>3, <1>4, <1>5, UnchangedKeeps, HandlerKeeps

\* The first test of an upload.
LEMMA TestKeeps ==
  ASSUME AllLinesDistinct, NEW h \in Handlers, Test(h)
  PROVE  AllLinesDistinct'
<1>1. PICK s \in {"bump", "recheck", "append"} : Goto(h, s)
  BY DEF Test
<1>2. pc[h] = "test" /\ job[h].op = "record" /\ job[h] \in Message
  BY DEF AllLinesDistinct, TypeOK, Test
<1>3. TypeOK'
  <2>1. ver[kind[h]] \in Versions
    BY DEF AllLinesDistinct, TypeOK
  <2>2. \A g \in Handlers : pc'[g] # "idle" => job'[g] \in Message
    BY <1>1, <1>2 DEF AllLinesDistinct, TypeOK, Test
  <2> QED BY <1>1, <2>1, <2>2 DEF AllLinesDistinct, TypeOK, Steps, Test
<1>4. UNCHANGED <<store, job, kind>>
  BY DEF Test
<1> QED BY <1>1, <1>2, <1>3, <1>4, UnchangedKeeps, HandlerKeeps

\* The version is bumped.
LEMMA BumpKeeps ==
  ASSUME AllLinesDistinct, NEW h \in Handlers, Bump(h)
  PROVE  AllLinesDistinct'
<1> DEFINE next == (ver[kind[h]] + 1) % Ring
<1>1. ver[kind[h]] \in Versions /\ kind[h] \in Kinds /\ to[h] \in Versions
  BY DEF AllLinesDistinct, TypeOK
<1>2. next \in Versions
  BY <1>1, RingAssumption
<1>3. pc[h] \in {"bump", "load", "save", "reread"} /\ job[h] \in Message
  BY DEF AllLinesDistinct, TypeOK, Bump, NameOld, LoadVersion, SaveVersion, NameNew
<1>4. PICK s \in {"load", "save", "reread", "open"} :
        pc' = [pc EXCEPT ![h] = s] /\ UNCHANGED <<store, restarts, recorded, job, kind, reply>>
  BY DEF Bump, NameOld, LoadVersion, SaveVersion, NameNew, Goto
<1>5. /\ from' = from \/ from' = [from EXCEPT ![h] = ver[kind[h]]]
      /\ to' = to \/ to' = [to EXCEPT ![h] = next] \/ to' = [to EXCEPT ![h] = ver[kind[h]]]
      /\ ver' = ver \/ ver' = [ver EXCEPT ![kind[h]] = to[h]]
  BY DEF Bump, NameOld, LoadVersion, SaveVersion, NameNew
<1> HIDE DEF next
<1>6. TypeOK'
  <2>1. \A g \in Handlers : pc'[g] # "idle" => job'[g] \in Message
    BY <1>3, <1>4 DEF AllLinesDistinct, TypeOK
  <2>2. from' \in [Handlers -> Versions]
    BY <1>1, <1>5 DEF AllLinesDistinct, TypeOK
  <2>3. to' \in [Handlers -> Versions]
    BY <1>1, <1>2, <1>5 DEF AllLinesDistinct, TypeOK
  <2>4. ver' \in [Kinds -> Versions]
    BY <1>1, <1>5 DEF AllLinesDistinct, TypeOK
  <2>5. pc' \in [Handlers -> Steps]
    BY <1>4 DEF AllLinesDistinct, TypeOK, Steps
  <2> QED BY <1>4, <2>1, <2>2, <2>3, <2>4, <2>5 DEF AllLinesDistinct, TypeOK
<1>7. kind'[h] = "stamp" => job'[h].op = "record"
  BY <1>4 DEF AllLinesDistinct
<1> QED BY <1>4, <1>6, <1>7, UnchangedKeeps, HandlerKeeps

\* A handler returns without touching the files.
LEMMA FinishKeeps ==
  ASSUME AllLinesDistinct, NEW h \in Handlers,
         NEW answer \in {"ok", "notFound", "lost"}, Finish(h, answer),
         UNCHANGED <<store, ver, restarts, recorded>>
  PROVE  AllLinesDistinct'
<1>1. 0 \in Versions /\ "entry" \in Kinds
  BY RingAssumption
<1>2. /\ pc'[h] = "idle" /\ kind'[h] = "entry"
      /\ \A g \in Handlers \ {h} : /\ pc'[g] = pc[g] /\ job'[g] = job[g]
                                   /\ kind'[g] = kind[g]
  BY DEF AllLinesDistinct, TypeOK
<1>3. TypeOK'
  <2>1. \A g \in Handlers : pc'[g] # "idle" => job'[g] \in Message
    BY <1>2 DEF AllLinesDistinct, TypeOK
  <2> QED BY <1>1, <2>1 DEF AllLinesDistinct, TypeOK, Steps
<1> QED BY <1>2, <1>3, UnchangedKeeps, HandlerKeeps

\* A handler goes on without touching the files.
LEMMA ContinueKeeps ==
  ASSUME AllLinesDistinct, NEW h \in Handlers, pc[h] # "idle",
         NEW s \in {"test", "recheck", "append"}, Continue(h, s), job[h].op = "record",
         UNCHANGED <<store, ver, restarts, recorded>>
  PROVE  AllLinesDistinct'
<1>1. TypeOK'
  <2>1. \A g \in Handlers : pc'[g] # "idle" => job'[g] \in Message
    BY DEF AllLinesDistinct, TypeOK
  <2> QED BY <2>1 DEF AllLinesDistinct, TypeOK, Steps
<1> QED BY <1>1, UnchangedKeeps, HandlerKeeps

\* The file to copy from is missing.
LEMMA OpenFailsKeeps ==
  ASSUME AllLinesDistinct, NEW h \in Handlers, OpenFails(h)
  PROVE  AllLinesDistinct'
<1>1. CASE kind[h] = "stamp"
  <2>1. job[h].op = "record" /\ pc[h] # "idle"
    BY <1>1 DEF AllLinesDistinct, OpenFails
  <2>2. Continue(h, "append") /\ UNCHANGED <<store, ver, restarts, recorded>>
    BY <1>1 DEF OpenFails
  <2> QED BY <2>1, <2>2, ContinueKeeps
<1>2. CASE kind[h] # "stamp"
  <2>1. job[h] \in Message
    BY DEF AllLinesDistinct, TypeOK, OpenFails
  <2>2. job[h].op \in {"record", "add", "remove"}
    BY <2>1 DEF Message
  <2>3. \E a \in {"ok", "notFound", "lost"} : Finish(h, a)
    BY <1>2, <2>2 DEF OpenFails
  <2> QED BY <2>3, FinishKeeps DEF OpenFails
<1> QED BY <1>1, <1>2

\* The second test of an upload.
LEMMA RecheckKeeps ==
  ASSUME AllLinesDistinct, NEW h \in Handlers, Recheck(h)
  PROVE  AllLinesDistinct'
<1>1. pc[h] = "recheck" /\ job[h].op = "record"
  BY DEF AllLinesDistinct, Recheck
<1>2. UNCHANGED <<store, ver, restarts, recorded>>
  BY DEF Recheck
<1>3. CASE Finish(h, "lost")
  BY <1>2, <1>3, FinishKeeps
<1>4. CASE Continue(h, "append")
  BY <1>1, <1>2, <1>4, ContinueKeeps
<1> QED BY <1>3, <1>4 DEF Recheck

\* The file of the new version is emptied.
LEMMA OpenKeeps ==
  ASSUME AllLinesDistinct, NEW h \in Handlers, Open(h)
  PROVE  AllLinesDistinct'
<1>1. /\ kind[h] \in Kinds /\ to[h] \in Versions
      /\ pc[h] = "open" /\ job[h] \in Message
  BY DEF AllLinesDistinct, TypeOK, Open
<1>2. /\ Write(kind[h], to[h], {}) /\ pc' = [pc EXCEPT ![h] = "rewrite"]
      /\ UNCHANGED <<ver, restarts, recorded, job, kind, from, to, reply>>
  BY DEF Open
<1>3. /\ StoreType'
      /\ \A k \in Kinds, v \in Versions : \A l \in LinesOf(k, v)' : IsInjective(l.cdns)
  <2>1. StoreType /\ \A k \in Kinds, v \in Versions : \A l \in LinesOf(k, v) : IsInjective(l.cdns)
    BY DEF AllLinesDistinct, TypeOK, StoreType
  <2>2. {} \in SUBSET Line /\ \A l \in {} : IsInjective(l.cdns)
    OBVIOUS
  <2> QED BY <1>1, <1>2, <2>1, <2>2, WriteKeeps
<1>4. TypeOK'
  <2>1. \A g \in Handlers : pc'[g] # "idle" => job'[g] \in Message
    BY <1>1, <1>2 DEF AllLinesDistinct, TypeOK
  <2> QED BY <1>2, <1>3, <2>1 DEF AllLinesDistinct, TypeOK, Steps, StoreType
<1>5. kind'[h] = "stamp" => job'[h].op = "record"
  BY <1>2 DEF AllLinesDistinct
<1> QED BY <1>2, <1>3, <1>4, <1>5, HandlerKeeps

\* The lines are copied.
LEMMA RewriteKeeps ==
  ASSUME AllLinesDistinct, NEW h \in Handlers, Rewrite(h)
  PROVE  AllLinesDistinct'
<1> DEFINE old == LinesOf(kind[h], from[h])  new == Rewritten(job[h], old)
<1>1. /\ kind[h] \in Kinds /\ to[h] \in Versions /\ from[h] \in Versions
      /\ pc[h] = "rewrite" /\ job[h] \in Message
  BY DEF AllLinesDistinct, TypeOK, Rewrite
<1>2. StoreType /\ \A k \in Kinds, v \in Versions : \A l \in LinesOf(k, v) : IsInjective(l.cdns)
  BY DEF AllLinesDistinct, TypeOK, StoreType
<1>3. old \in SUBSET Line /\ \A l \in old : IsInjective(l.cdns)
  BY <1>1, <1>2, LinesType
<1>4. new \in SUBSET Line /\ \A l \in new : IsInjective(l.cdns)
  BY <1>1, <1>3, RewrittenKeeps
<1>5. PICK rest \in SUBSET LinesOf(kind[h], to[h]) :
        Write(kind[h], to[h], new \cup rest) /\ UNCHANGED <<ver, restarts, recorded>>
  BY DEF Rewrite, Uncovered
<1>6. \/ /\ job[h].op = "record"
         /\ \E s \in {"recheck", "append"} : Continue(h, s)
      \/ \E a \in {"ok", "notFound"} : Finish(h, a)
  BY DEF Rewrite
<1> HIDE DEF new
<1>7. /\ StoreType'
      /\ \A k \in Kinds, v \in Versions : \A l \in LinesOf(k, v)' : IsInjective(l.cdns)
  <2>1. new \cup rest \in SUBSET Line /\ \A l \in new \cup rest : IsInjective(l.cdns)
    BY <1>1, <1>2, <1>4, LinesType
  <2> QED BY <1>1, <1>2, <1>5, <2>1, WriteKeeps
<1>8. CASE job[h].op = "record" /\ \E s \in {"recheck", "append"} : Continue(h, s)
  <2>1. PICK s \in {"recheck", "append"} : Continue(h, s)
    BY <1>8
  <2>2. pc' = [pc EXCEPT ![h] = s] /\ UNCHANGED <<job, kind, from, to, reply>>
    BY <2>1
  <2>3. TypeOK'
    <3>1. \A g \in Handlers : pc'[g] # "idle" => job'[g] \in Message
      BY <1>1, <2>2 DEF AllLinesDistinct, TypeOK
    <3> QED BY <1>5, <1>7, <2>2, <3>1 DEF AllLinesDistinct, TypeOK, Steps, StoreType
  <2> QED BY <1>7, <1>8, <2>2, <2>3, HandlerKeeps
<1>9. CASE \E a \in {"ok", "notFound"} : Finish(h, a)
  <2>1. PICK a \in {"ok", "notFound"} : Finish(h, a)
    BY <1>9
  <2>2. 0 \in Versions /\ "entry" \in Kinds
    BY RingAssumption
  <2>3. /\ pc' = [pc EXCEPT ![h] = "idle"] /\ kind'[h] = "entry"
        /\ \A g \in Handlers \ {h} : job'[g] = job[g] /\ kind'[g] = kind[g]
    BY <2>1 DEF AllLinesDistinct, TypeOK
  <2>4. TypeOK'
    <3>1. \A g \in Handlers : pc'[g] # "idle" => job'[g] \in Message
      BY <2>1 DEF AllLinesDistinct, TypeOK
    <3> QED BY <1>5, <1>7, <2>1, <2>2, <3>1 DEF AllLinesDistinct, TypeOK, Steps, StoreType
  <2> QED BY <1>7, <2>3, <2>4, HandlerKeeps
<1> QED BY <1>6, <1>8, <1>9

\* A line is added.
LEMMA AppendKeeps ==
  ASSUME AllLinesDistinct, NEW h \in Handlers, AppendLine(h)
  PROVE  AllLinesDistinct'
<1> DEFINE k == kind[h]  m == job[h]
           new == Current(k) \cup {NewLine(k, m)}
<1>1. /\ k \in Kinds /\ ver[k] \in Versions /\ pc[h] = "append"
      /\ m \in Message /\ m.op = "record" /\ m.file \in Files
  BY DEF AllLinesDistinct, TypeOK, AppendLine, Message
<1>2. StoreType /\ \A j \in Kinds, v \in Versions : \A l \in LinesOf(j, v) : IsInjective(l.cdns)
  BY DEF AllLinesDistinct, TypeOK, StoreType
<1>3. Current(k) \in SUBSET Line /\ \A l \in Current(k) : IsInjective(l.cdns)
  BY <1>1, <1>2, LinesType DEF Current
<1>4. new \in SUBSET Line /\ \A l \in new : IsInjective(l.cdns)
  BY <1>1, <1>3, NewLineKeeps
<1>5. Write(k, ver[k], new) /\ UNCHANGED <<ver, restarts>>
  BY DEF AppendLine
<1>6. \/ /\ kind' = [kind EXCEPT ![h] = "stamp"] /\ pc' = [pc EXCEPT ![h] = "test"]
         /\ UNCHANGED <<recorded, job, from, to, reply>>
      \/ recorded' = recorded \cup {m.file} /\ Finish(h, "ok")
  BY DEF AppendLine
<1> HIDE DEF new
<1>7. /\ StoreType'
      /\ \A j \in Kinds, v \in Versions : \A l \in LinesOf(j, v)' : IsInjective(l.cdns)
  BY <1>1, <1>2, <1>4, <1>5, WriteKeeps
<1>8. CASE /\ kind' = [kind EXCEPT ![h] = "stamp"] /\ pc' = [pc EXCEPT ![h] = "test"]
           /\ UNCHANGED <<recorded, job, from, to, reply>>
  <2>1. TypeOK'
    <3>1. \A g \in Handlers : pc'[g] # "idle" => job'[g] \in Message
      BY <1>1, <1>8 DEF AllLinesDistinct, TypeOK
    <3> QED BY <1>5, <1>7, <1>8, <3>1 DEF AllLinesDistinct, TypeOK, Steps, StoreType
  <2>2. \A g \in Handlers \ {h} : job'[g] = job[g] /\ kind'[g] = kind[g]
    BY <1>8 DEF AllLinesDistinct, TypeOK
  <2> QED BY <1>1, <1>7, <1>8, <2>1, <2>2, HandlerKeeps
<1>9. CASE recorded' = recorded \cup {m.file} /\ Finish(h, "ok")
  <2>1. 0 \in Versions /\ "entry" \in Kinds
    BY RingAssumption
  <2>2. /\ pc' = [pc EXCEPT ![h] = "idle"] /\ kind'[h] = "entry"
        /\ \A g \in Handlers \ {h} : job'[g] = job[g] /\ kind'[g] = kind[g]
    BY <1>9 DEF AllLinesDistinct, TypeOK
  <2>3. TypeOK'
    <3>1. \A g \in Handlers : pc'[g] # "idle" => job'[g] \in Message
      BY <1>9 DEF AllLinesDistinct, TypeOK
    <3> QED BY <1>1, <1>5, <1>7, <1>9, <2>1, <3>1 DEF AllLinesDistinct, TypeOK, Steps, StoreType
  <2> QED BY <1>7, <2>2, <2>3, HandlerKeeps
<1> QED BY <1>6, <1>8, <1>9

-----------------------------------------------------------------------------
\* Every step keeps the invariant.
LEMMA StoreNext == AllLinesDistinct /\ [Next]_vars => AllLinesDistinct'
<1> SUFFICES ASSUME AllLinesDistinct, [Next]_vars PROVE AllLinesDistinct'
  OBVIOUS
<1>1. ASSUME NEW h \in Handlers, HandlerStep(h) PROVE AllLinesDistinct'
  BY <1>1, TestKeeps, BumpKeeps, OpenKeeps, OpenFailsKeeps, RewriteKeeps,
     RecheckKeeps, AppendKeeps DEF HandlerStep
<1>2. CASE Restart
  <2>1. 0 \in Versions /\ "entry" \in Kinds
    BY RingAssumption
  <2>2. TypeOK'
    BY <1>2, <2>1, UnchangedKeeps DEF AllLinesDistinct, TypeOK, Steps, StoreType, Restart
  <2> QED BY <1>2, <2>2, UnchangedKeeps DEF AllLinesDistinct, Restart
<1>3. CASE UNCHANGED vars
  BY <1>3 DEF AllLinesDistinct, TypeOK, LinesOf, Exists, vars
<1>4. CASE ListForClient
  <2>1. /\ "entry" \in Kinds /\ ver["entry"] \in Versions
        /\ StoreType
        /\ \A k \in Kinds, v \in Versions : \A l \in LinesOf(k, v) : IsInjective(l.cdns)
    BY DEF AllLinesDistinct, TypeOK, StoreType
  <2>2. Write("entry", ver["entry"], {})
    BY <1>4 DEF ListForClient
  <2>3. /\ StoreType'
        /\ \A k \in Kinds, v \in Versions : \A l \in LinesOf(k, v)' : IsInjective(l.cdns)
    BY <2>1, <2>2, WriteKeeps
  <2>4. UNCHANGED <<ver, restarts, recorded, handlerVars>>
    BY <1>4 DEF ListForClient
  <2>5. TypeOK'
    BY <2>3, <2>4 DEF AllLinesDistinct, TypeOK, StoreType, handlerVars
  <2> QED BY <2>3, <2>4, <2>5 DEF AllLinesDistinct, handlerVars
<1> QED BY <1>1, <1>2, <1>3, <1>4, BeginKeeps DEF Next

\* The empty tables satisfy it.
LEMMA StoreInit == Init => AllLinesDistinct
<1> SUFFICES ASSUME Init PROVE AllLinesDistinct
  OBVIOUS
<1>1. \A k \in Kinds : store[k] = <<>> /\ DOMAIN store[k] = {}
  BY DEF Init
<1>2. StoreType
  BY <1>1 DEF Init, StoreType
<1>3. \A k \in Kinds, v \in Versions : LinesOf(k, v) = {}
  BY <1>1 DEF LinesOf, Exists
<1>4. 0 \in Versions /\ "entry" \in Kinds
  BY RingAssumption
<1>5. TypeOK
  BY <1>2, <1>4 DEF Init, TypeOK, Steps, StoreType
<1> QED BY <1>3, <1>5 DEF Init, AllLinesDistinct

\* No version file ever lists a CDN twice, whatever handlers run at the same
\* time and however often Meta restarts.
THEOREM LinesStayDistinct == Spec => []AllLinesDistinct
<1> QED BY StoreInit, StoreNext, PTL DEF Spec

\* The tables on disk are well formed: version numbers stay within the ring.
THEOREM StoreTyped == Spec => []TypeOK
<1>1. AllLinesDistinct => TypeOK
  BY DEF AllLinesDistinct
<1> QED BY <1>1, LinesStayDistinct, PTL

\* MetaServer.cpp:457, "assuming there is only one entry for each cdn in the
\* list": the assumption deleteCdnFromMetaEntry rests on is justified.
THEOREM CdnsListedOnce == Spec => []OneEntryPerCdn
<1>1. AllLinesDistinct => OneEntryPerCdn
  BY DEF AllLinesDistinct, TypeOK, OneEntryPerCdn, Current
<1> QED BY <1>1, LinesStayDistinct, PTL

-----------------------------------------------------------------------------
(* One handler at a time: the version files are one table that changes     *)
(* atomically, every message is answered, and an upload Meta has           *)
(* acknowledged stays listed.                                              *)

\* One handler at a time, which is how Meta serves a single client.
OneHandler == \A g, h \in Handlers : g = h

-----------------------------------------------------------------------------
(* The invariant.                                                          *)

\* No file has two lines in one set of lines.
OneEach(lines) == \A l, m \in lines : l.file = m.file => l = m

\* The lines of the other files.
Others(lines, f) == {l \in lines : l.file # f}

\* What a handler may rely on, from its first test to its last write: the file
\* it copies from is the version before the current one, and between the copy
\* and the append the current file lacks just the line that is replaced.
HandlerInv(h) ==
  LET k == kind[h]  f == job[h].file  records == job[h].op = "record" IN
  /\ pc[h] \in {"idle", "recheck"} => k = "entry"
  /\ pc[h] \in {"load", "save"} => from[h] = ver[k]
  /\ pc[h] = "save" => to[h] # from[h]
  /\ pc[h] \in {"reread", "open", "rewrite"} => to[h] = ver[k] /\ from[h] # to[h]
  /\ pc[h] = "bump" /\ records => Exists(k, ver[k])
  /\ pc[h] \in {"load", "save", "reread", "open"} /\ records => Exists(k, from[h])
  /\ pc[h] = "rewrite" => Exists(k, to[h]) /\ LinesOf(k, to[h]) = {}
  /\ pc[h] \in {"recheck", "append"} => Current(k) = Others(LinesOf(k, from[h]), f)

\* Every version file, not only the current one, has one line for a file.
SerialInv ==
  /\ AllLinesDistinct
  /\ \A k \in Kinds, v \in Versions : OneEach(LinesOf(k, v))
  /\ \A h \in Handlers : HandlerInv(h)
  /\ EveryMessageAnswered

-----------------------------------------------------------------------------
(* Sets of lines and version files.                                        *)

\* The operations on a line keep its file and its content.
LEMMA LineKept ==
  ASSUME NEW l \in Line, NEW d
  PROVE  /\ WithCdn(l, d).file = l.file /\ WithCdn(l, d).content = l.content
         /\ WithoutCdn(l, d).file = l.file /\ WithoutCdn(l, d).content = l.content
BY DEF Line, WithCdn, WithoutCdn

\* The copy loops keep one line for a file.
LEMMA RewrittenOneEach ==
  ASSUME NEW m \in Message, NEW lines \in SUBSET Line, OneEach(lines)
  PROVE  OneEach(Rewritten(m, lines))
<1> DEFINE old == {l \in lines : l.file = m.file}
<1>1. OneEach(lines \ old)
  BY DEF OneEach
<1>2. \A l, o \in old : l = o
  BY DEF OneEach
<1>3. CASE m.op = "record"
  BY <1>1, <1>3 DEF Rewritten
<1>4. CASE m.op = "add"
  <2>1. Rewritten(m, lines) = (lines \ old) \cup {WithCdn(l, m.id) : l \in old}
    BY <1>4 DEF Rewritten
  <2>2. \A l \in old : WithCdn(l, m.id).file = m.file
    BY LineKept
  <2>3. \A l \in lines \ old : l.file # m.file
    OBVIOUS
  <2> HIDE DEF old
  <2> QED BY <1>1, <1>2, <2>1, <2>2, <2>3 DEF OneEach
<1>5. CASE m.op = "remove"
  <2>1. Rewritten(m, lines) = (lines \ old) \cup {WithoutCdn(l, m.id) : l \in old}
    BY <1>5 DEF Rewritten
  <2>2. \A l \in old : WithoutCdn(l, m.id).file = m.file
    BY LineKept
  <2>3. \A l \in lines \ old : l.file # m.file
    OBVIOUS
  <2> HIDE DEF old
  <2> QED BY <1>1, <1>2, <2>1, <2>2, <2>3 DEF OneEach
<1> QED BY <1>3, <1>4, <1>5 DEF Message

\* The copy loop of an upload leaves the file's line out.
LEMMA RewrittenRecord ==
  ASSUME NEW m, m.op = "record", NEW lines
  PROVE  Rewritten(m, lines) = Others(lines, m.file)
BY DEF Rewritten, Others

\* Those of the other messages keep every file listed, and list no other.
LEMMA RewrittenListed ==
  ASSUME NEW m \in Message, m.op # "record", NEW lines \in SUBSET Line, NEW f
  PROVE  Listed(Rewritten(m, lines), f) <=> Listed(lines, f)
<1> DEFINE old == {l \in lines : l.file = m.file}
<1>1. CASE m.op = "add"
  <2>1. Rewritten(m, lines) = (lines \ old) \cup {WithCdn(l, m.id) : l \in old}
    BY <1>1 DEF Rewritten
  <2>2. \A l \in old : WithCdn(l, m.id).file = l.file
    BY LineKept
  <2> QED BY <2>1, <2>2 DEF Listed
<1>2. CASE m.op = "remove"
  <2>1. Rewritten(m, lines) = (lines \ old) \cup {WithoutCdn(l, m.id) : l \in old}
    BY <1>2 DEF Rewritten
  <2>2. \A l \in old : WithoutCdn(l, m.id).file = l.file
    BY LineKept
  <2> QED BY <2>1, <2>2 DEF Listed
<1> QED BY <1>1, <1>2 DEF Message

\* What a write makes of the version files.
LEMMA ReadBack ==
  ASSUME StoreType, NEW k \in Kinds, NEW v, NEW lines, Write(k, v, lines)
  PROVE  \A j \in Kinds : \A w :
           /\ LinesOf(j, w)' = IF j = k /\ w = v THEN lines ELSE LinesOf(j, w)
           /\ Exists(j, w)' <=> Exists(j, w) \/ (j = k /\ w = v)
<1> DEFINE new == [w \in DOMAIN store[k] \cup {v} |->
                     IF w = v THEN lines ELSE store[k][w]]
<1>1. /\ DOMAIN new = {v} \cup DOMAIN store[k]
      /\ \A w \in DOMAIN new : new[w] = IF w = v THEN lines ELSE store[k][w]
  OBVIOUS
<1>2. store' = [store EXCEPT ![k] = new]
  BY DEF Write
<1> HIDE DEF new
<1>3. \A j \in Kinds : store'[j] = IF j = k THEN new ELSE store[j]
  BY <1>2 DEF StoreType
<1> QED BY <1>1, <1>3 DEF LinesOf, Exists

\* Nothing is written.
LEMMA ReadSame ==
  ASSUME UNCHANGED store
  PROVE  \A j, w : LinesOf(j, w)' = LinesOf(j, w) /\ Exists(j, w)' = Exists(j, w)
BY DEF LinesOf, Exists

-----------------------------------------------------------------------------
(* Every step keeps the invariant.                                         *)

\* The local variables of the handlers are functions.
HandlerType ==
  /\ pc    \in [Handlers -> Steps]
  /\ job   \in [Handlers -> Message \cup {Absent}]
  /\ kind  \in [Handlers -> Kinds]
  /\ from  \in [Handlers -> Versions]
  /\ to    \in [Handlers -> Versions]
  /\ reply \in [Handlers -> {"none", "ok", "notFound", "lost"}]
  /\ ver   \in [Kinds -> Versions]

LEMMA SerialType == SerialInv => HandlerType
BY DEF SerialInv, AllLinesDistinct, TypeOK, HandlerType

\* What the types say of a handler at work.
LEMMA AtWork ==
  ASSUME SerialInv, NEW h \in Handlers
  PROVE  /\ AllLinesDistinct /\ HandlerType /\ StoreType
         /\ kind[h] \in Kinds /\ from[h] \in Versions /\ to[h] \in Versions
         /\ \A k \in Kinds : ver[k] \in Versions
         /\ pc[h] # "idle" => job[h] \in Message
         /\ pc[h] \in {"test", "recheck", "append"} \/ kind[h] = "stamp" => job[h].op = "record"
BY DEF SerialInv, AllLinesDistinct, TypeOK, StoreType, HandlerType

\* What the invariant says of it.
LEMMA AtWorkSerially ==
  ASSUME SerialInv, NEW h \in Handlers
  PROVE  /\ HandlerInv(h) /\ reply[h] # "lost"
         /\ \A k \in Kinds, v \in Versions : OneEach(LinesOf(k, v))
BY DEF SerialInv, EveryMessageAnswered

\* The accesses to the version that make up a bump.
LEMMA BumpSteps ==
  ASSUME HandlerType, NEW h \in Handlers, Bump(h)
  PROVE  /\ UNCHANGED <<store, restarts, recorded, job, kind, reply>>
         /\ \A j \in Kinds : j # kind[h] => ver'[j] = ver[j]
         /\ \/ /\ pc[h] = "bump" /\ pc'[h] = "load"
               /\ from'[h] = ver[kind[h]] /\ UNCHANGED <<ver, to>>
            \/ /\ pc[h] = "load" /\ pc'[h] = "save"
               /\ to'[h] = (ver[kind[h]] + 1) % Ring /\ UNCHANGED <<ver, from>>
            \/ /\ pc[h] = "save" /\ pc'[h] = "reread"
               /\ ver'[kind[h]] = to[h] /\ UNCHANGED <<from, to>>
            \/ /\ pc[h] = "reread" /\ pc'[h] = "open"
               /\ to'[h] = ver[kind[h]] /\ UNCHANGED <<ver, from>>
<1>1. CASE NameOld(h)
  BY <1>1 DEF HandlerType, NameOld, Goto
<1>2. CASE LoadVersion(h)
  BY <1>2 DEF HandlerType, LoadVersion, Goto
<1>3. CASE SaveVersion(h)
  BY <1>3 DEF HandlerType, SaveVersion, Goto
<1>4. CASE NameNew(h)
  BY <1>4 DEF HandlerType, NameNew, Goto
<1> QED BY <1>1, <1>2, <1>3, <1>4 DEF Bump

\* With one handler, what that one leaves behind is all there is to show.
LEMMA SerialKeeps ==
  ASSUME OneHandler, NEW h \in Handlers, AllLinesDistinct',
         \A k \in Kinds, v \in Versions : OneEach(LinesOf(k, v)'),
         HandlerInv(h)', reply'[h] # "lost"
  PROVE  SerialInv'
<1>1. \A g \in Handlers : g = h
  BY DEF OneHandler
<1>2. \A g \in Handlers : HandlerInv(g)' /\ reply'[g] # "lost"
  BY <1>1
<1> QED BY <1>2 DEF SerialInv, EveryMessageAnswered

\* The version files are left alone.
LEMMA SerialKeepsSame ==
  ASSUME OneHandler, SerialInv, NEW h \in Handlers, AllLinesDistinct',
         UNCHANGED store, HandlerInv(h)', reply'[h] # "lost"
  PROVE  SerialInv'
<1>1. \A k \in Kinds, v \in Versions : OneEach(LinesOf(k, v)')
  BY ReadSame, AtWorkSerially
<1> QED BY <1>1, SerialKeeps

\* A message arrives.
LEMMA SerialBegin ==
  ASSUME OneHandler, SerialInv, NEW h \in Handlers, NEW m \in Message, Begin(h, m)
  PROVE  SerialInv'
<1>1. AllLinesDistinct'
  BY BeginKeeps DEF SerialInv
<1>2. /\ pc'[h] = (IF m.op = "record" THEN "test" ELSE "bump")
      /\ job'[h] = m /\ reply'[h] = "none" /\ UNCHANGED store
  BY SerialType DEF HandlerType, Begin
<1>3. HandlerInv(h)'
  BY <1>2 DEF HandlerInv
<1> QED BY <1>1, <1>2, <1>3, SerialKeepsSame

\* The first test of an upload: a line that is not there is not missed.
LEMMA SerialTest ==
  ASSUME OneHandler, SerialInv, NEW h \in Handlers, Test(h)
  PROVE  SerialInv'
<1> DEFINE k == kind[h]  f == job[h].file
<1>1. AllLinesDistinct'
  BY TestKeeps DEF SerialInv
<1>2. /\ k \in Kinds /\ UNCHANGED <<store, ver, job, kind, to, reply>>
      /\ from'[h] = ver[k]
      /\ pc'[h] = IF k = "entry"
                  THEN IF Listed(Current(k), f) THEN "bump" ELSE "recheck"
                  ELSE IF Exists(k, ver[k]) THEN "bump" ELSE "append"
  BY SerialType DEF HandlerType, Test
<1>3. pc'[h] = "bump" => Exists(k, ver[k])
  BY <1>2 DEF Current, LinesOf, Listed
<1>4. pc'[h] \in {"recheck", "append"} => Current(k) = Others(Current(k), f)
  BY <1>2 DEF Current, LinesOf, Listed, Others
<1>5. HandlerInv(h)'
  BY <1>2, <1>3, <1>4, ReadSame DEF HandlerInv, Current
<1> QED BY <1>1, <1>2, <1>5, AtWorkSerially, SerialKeepsSame

\* The version is bumped: the ring has another file than the current one.
LEMMA SerialBump ==
  ASSUME OneHandler, SerialInv, NEW h \in Handlers, Bump(h)
  PROVE  SerialInv'
<1> DEFINE k == kind[h]  next == (ver[k] + 1) % Ring
<1>1. AllLinesDistinct'
  BY BumpKeeps DEF SerialInv
<1>2. k \in Kinds /\ ver[k] \in Versions /\ HandlerType /\ HandlerInv(h)
  BY AtWork, AtWorkSerially
<1>3. next # ver[k]
  BY <1>2, RingAssumption
<1> HIDE DEF next
<1>4. HandlerInv(h)'
  <2>1. /\ UNCHANGED <<store, job, kind>>
        /\ \A w : Exists(k, w)' = Exists(k, w)
    BY <1>2, BumpSteps, ReadSame
  <2>2. CASE pc[h] = "bump" /\ pc'[h] = "load" /\ from'[h] = ver[k] /\ UNCHANGED <<ver, to>>
    BY <1>2, <2>1, <2>2 DEF HandlerInv
  <2>3. CASE pc[h] = "load" /\ pc'[h] = "save" /\ to'[h] = next /\ UNCHANGED <<ver, from>>
    BY <1>2, <1>3, <2>1, <2>3 DEF HandlerInv
  <2>4. CASE pc[h] = "save" /\ pc'[h] = "reread" /\ ver'[k] = to[h] /\ UNCHANGED <<from, to>>
    BY <1>2, <2>1, <2>4 DEF HandlerInv
  <2>5. CASE pc[h] = "reread" /\ pc'[h] = "open" /\ to'[h] = ver[k] /\ UNCHANGED <<ver, from>>
    BY <1>2, <2>1, <2>5 DEF HandlerInv
  <2> QED BY <1>2, <2>2, <2>3, <2>4, <2>5, BumpSteps DEF next
<1>5. UNCHANGED <<store, reply>>
  BY <1>2, BumpSteps
<1> QED BY <1>1, <1>4, <1>5, AtWorkSerially, SerialKeepsSame

\* The file of the new version is emptied, not the one that is copied from.
LEMMA SerialOpen ==
  ASSUME OneHandler, SerialInv, NEW h \in Handlers, Open(h)
  PROVE  SerialInv'
<1> DEFINE k == kind[h]
<1>1. AllLinesDistinct'
  BY OpenKeeps DEF SerialInv
<1>2. /\ k \in Kinds /\ StoreType /\ Write(k, to[h], {})
      /\ pc[h] = "open" /\ pc'[h] = "rewrite"
      /\ UNCHANGED <<ver, job, kind, from, to, reply>>
  BY SerialType, AtWork DEF HandlerType, Open
<1>3. \A j \in Kinds, w \in Versions : OneEach(LinesOf(j, w)')
  BY <1>2, ReadBack, AtWorkSerially DEF OneEach
<1>4. HandlerInv(h)'
  <2>1. Exists(k, to[h])' /\ LinesOf(k, to[h])' = {}
    BY <1>2, ReadBack
  <2>2. to[h] = ver[k] /\ from[h] # to[h]
    BY <1>2, AtWorkSerially DEF HandlerInv
  <2> QED BY <1>2, <2>1, <2>2 DEF HandlerInv
<1> QED BY <1>1, <1>2, <1>3, <1>4, AtWorkSerially, SerialKeeps

\* Only the file of a table that never had one can be missing.
LEMMA SerialOpenFails ==
  ASSUME OneHandler, SerialInv, NEW h \in Handlers, OpenFails(h)
  PROVE  SerialInv'
<1> DEFINE k == kind[h]
<1>1. AllLinesDistinct'
  BY OpenFailsKeeps DEF SerialInv
<1>2. k \in Kinds /\ job[h] \in Message /\ pc[h] = "open" /\ ~Exists(k, from[h])
  BY AtWork DEF OpenFails
<1>3. job[h].op # "record" /\ k = "entry"
  <2>1. job[h].op # "record"
    BY <1>2, AtWorkSerially DEF HandlerInv
  <2>2. k = "stamp" => job[h].op = "record"
    BY AtWork
  <2> QED BY <1>2, <2>1, <2>2
<1>4. PICK a \in {"notFound", "ok"} : Finish(h, a)
  BY <1>2, <1>3 DEF OpenFails, Message
<1>5. /\ pc'[h] = "idle" /\ kind'[h] = "entry" /\ reply'[h] = a
      /\ UNCHANGED <<store, ver>>
  BY <1>4, SerialType DEF HandlerType, OpenFails
<1>6. HandlerInv(h)'
  BY <1>5 DEF HandlerInv
<1> QED BY <1>1, <1>5, <1>6, SerialKeepsSame

\* The lines are copied into a file that is empty.
LEMMA SerialRewriteFile ==
  ASSUME SerialInv, NEW h \in Handlers, Rewrite(h)
  PROVE  Write(kind[h], to[h], Rewritten(job[h], LinesOf(kind[h], from[h])))
<1> DEFINE copy == Rewritten(job[h], LinesOf(kind[h], from[h]))
<1>1. LinesOf(kind[h], to[h]) = {}
  BY AtWorkSerially DEF HandlerInv, Rewrite
<1>2. PICK rest \in SUBSET {} : Write(kind[h], to[h], copy \cup rest)
  BY <1>1 DEF Rewrite, Uncovered
<1>3. copy \cup rest = copy
  OBVIOUS
<1> QED BY <1>2, <1>3

LEMMA SerialRewrite ==
  ASSUME OneHandler, SerialInv, NEW h \in Handlers, Rewrite(h)
  PROVE  SerialInv'
<1> DEFINE k == kind[h]  m == job[h]  lines == LinesOf(k, from[h])
<1>1. AllLinesDistinct'
  BY RewriteKeeps DEF SerialInv
<1>2. /\ k \in Kinds /\ StoreType /\ m \in Message /\ pc[h] = "rewrite"
      /\ from[h] \in Versions /\ lines \in SUBSET Line
  BY AtWork, LinesType DEF SerialInv, Rewrite
<1>3. Write(k, to[h], Rewritten(m, lines))
  BY SerialRewriteFile
<1>4. OneEach(Rewritten(m, lines))
  BY <1>2, RewrittenOneEach, AtWorkSerially
<1>5. \A j \in Kinds, w \in Versions : OneEach(LinesOf(j, w)')
  BY <1>2, <1>3, <1>4, ReadBack, AtWorkSerially
<1>6. to[h] = ver[k] /\ from[h] # to[h] /\ UNCHANGED ver
  BY <1>2, AtWorkSerially DEF HandlerInv, Rewrite
<1>7. CASE m.op = "record"
  <2>1. PICK s \in {"recheck", "append"} : Continue(h, s) /\ (s = "recheck" => k = "entry")
    BY <1>2, <1>7 DEF Rewrite
  <2>2. pc'[h] = s /\ UNCHANGED <<job, kind, from, to, reply>>
    BY <2>1, SerialType DEF HandlerType
  <2>3. LinesOf(k, ver[k])' = Others(lines, m.file) /\ LinesOf(k, from[h])' = lines
    BY <1>2, <1>3, <1>6, <1>7, <2>2, ReadBack, RewrittenRecord
  <2>4. HandlerInv(h)'
    BY <1>6, <2>1, <2>2, <2>3 DEF HandlerInv, Current
  <2> QED BY <1>1, <1>5, <2>2, <2>4, AtWorkSerially, SerialKeeps
<1>8. CASE m.op # "record"
  <2>1. PICK a \in {"ok", "notFound"} : Finish(h, a)
    BY <1>8 DEF Rewrite
  <2>2. pc'[h] = "idle" /\ kind'[h] = "entry" /\ reply'[h] = a
    BY <2>1, SerialType DEF HandlerType
  <2>3. HandlerInv(h)'
    BY <2>2 DEF HandlerInv
  <2> QED BY <1>1, <1>5, <2>2, <2>3, SerialKeeps
<1> QED BY <1>7, <1>8

\* The second test of an upload never finds the line: the reply is not lost.
LEMMA SerialRecheck ==
  ASSUME OneHandler, SerialInv, NEW h \in Handlers, Recheck(h)
  PROVE  SerialInv' /\ Continue(h, "append")
<1>1. AllLinesDistinct'
  BY RecheckKeeps DEF SerialInv
<1>2. pc[h] = "recheck" /\ kind[h] \in Kinds /\ UNCHANGED <<store, ver>>
  BY AtWork DEF Recheck
<1>3. kind[h] = "entry"
  BY <1>2, AtWorkSerially DEF HandlerInv
<1>4. ~Listed(Current("entry"), job[h].file)
  BY <1>2, <1>3, AtWorkSerially DEF HandlerInv, Others, Listed
<1>5. Continue(h, "append")
  BY <1>4 DEF Recheck
<1>6. pc'[h] = "append" /\ UNCHANGED <<job, kind, from, to, reply>>
  BY <1>5, SerialType DEF HandlerType
<1>7. HandlerInv(h)'
  BY <1>2, <1>6, ReadSame, AtWorkSerially DEF HandlerInv, Current
<1> QED BY <1>1, <1>2, <1>5, <1>6, <1>7, AtWorkSerially, SerialKeepsSame

\* The line that is added is the file's only one.
LEMMA SerialAppend ==
  ASSUME OneHandler, SerialInv, NEW h \in Handlers, AppendLine(h)
  PROVE  SerialInv'
<1> DEFINE k == kind[h]  m == job[h]  new == Current(k) \cup {NewLine(k, m)}
<1>1. AllLinesDistinct'
  BY AppendKeeps DEF SerialInv
<1>2. /\ k \in Kinds /\ StoreType /\ ver[k] \in Versions /\ pc[h] = "append"
      /\ Write(k, ver[k], new) /\ UNCHANGED ver
  BY AtWork DEF AppendLine
<1>3. OneEach(new)
  <2>1. \A l \in Current(k) : l.file # m.file
    BY <1>2, AtWorkSerially DEF HandlerInv, Others
  <2>2. OneEach(Current(k))
    BY <1>2, AtWorkSerially DEF Current
  <2>3. NewLine(k, m).file = m.file
    BY DEF NewLine
  <2> QED BY <2>1, <2>2, <2>3 DEF OneEach
<1> HIDE DEF new
<1>4. \A j \in Kinds, w \in Versions : OneEach(LinesOf(j, w)')
  BY <1>2, <1>3, ReadBack, AtWorkSerially
<1>5. CASE k = "entry"
  <2>1. /\ pc'[h] = "test" /\ kind'[h] = "stamp" /\ UNCHANGED reply
    BY <1>5, SerialType DEF HandlerType, AppendLine
  <2>2. HandlerInv(h)'
    BY <2>1 DEF HandlerInv
  <2> QED BY <1>1, <1>4, <2>1, <2>2, AtWorkSerially, SerialKeeps
<1>6. CASE k = "stamp"
  <2>1. pc'[h] = "idle" /\ kind'[h] = "entry" /\ reply'[h] = "ok"
    BY <1>6, SerialType DEF HandlerType, AppendLine
  <2>2. HandlerInv(h)'
    BY <2>1 DEF HandlerInv
  <2> QED BY <1>1, <1>4, <2>1, <2>2, SerialKeeps
<1> QED BY <1>2, <1>5, <1>6

\* A list for a client may create the current file of the entry table, while
\* the handler of a message is between two of its steps.
LEMMA SerialList ==
  ASSUME SerialInv, ListForClient, AllLinesDistinct'
  PROVE  SerialInv'
<1>1. /\ "entry" \in Kinds /\ StoreType /\ ~Exists("entry", ver["entry"])
      /\ Write("entry", ver["entry"], {}) /\ UNCHANGED <<ver, handlerVars>>
  BY DEF ListForClient, SerialInv, AllLinesDistinct, TypeOK, StoreType
<1>2. \A j \in Kinds : \A w : LinesOf(j, w)' = LinesOf(j, w)
  BY <1>1, ReadBack DEF LinesOf
<1>3. \A j \in Kinds : \A w : Exists(j, w) => Exists(j, w)'
  BY <1>1, ReadBack
<1>4. ASSUME NEW h \in Handlers
      PROVE  HandlerInv(h)'
  <2>1. kind[h] \in Kinds
    BY AtWork
  <2> QED BY <1>1, <1>2, <1>3, <2>1, AtWorkSerially DEF HandlerInv, Current
<1> QED BY <1>1, <1>2, <1>4 DEF SerialInv, EveryMessageAnswered

\* A restart ends the handler, whatever it was doing, and goes back to version
\* 0: any version file may become the current one.
LEMMA SerialRestart ==
  ASSUME SerialInv, Restart, AllLinesDistinct'
  PROVE  SerialInv'
<1>1. \A h \in Handlers : pc'[h] = "idle" /\ kind'[h] = "entry" /\ reply'[h] = "none"
  BY DEF Restart
<1>2. \A h \in Handlers : HandlerInv(h)'
  BY <1>1 DEF HandlerInv
<1>3. UNCHANGED store
  BY DEF Restart
<1> QED BY <1>1, <1>2, <1>3, ReadSame DEF SerialInv, EveryMessageAnswered

LEMMA SerialNext == OneHandler /\ SerialInv /\ [Next]_vars => SerialInv'
<1> SUFFICES ASSUME OneHandler, SerialInv, [Next]_vars PROVE SerialInv'
  OBVIOUS
<1>1. AllLinesDistinct'
  BY StoreNext DEF SerialInv
<1>2. ASSUME NEW h \in Handlers, HandlerStep(h) PROVE SerialInv'
  BY <1>2, SerialTest, SerialBump, SerialOpen, SerialOpenFails, SerialRewrite,
     SerialRecheck, SerialAppend DEF HandlerStep
<1>3. CASE UNCHANGED vars
  BY <1>1, <1>3, ReadSame DEF SerialInv, HandlerInv, EveryMessageAnswered, Current, vars
<1> QED BY <1>1, <1>2, <1>3, SerialBegin, SerialList, SerialRestart DEF Next

LEMMA SerialInit == Init => SerialInv
<1> SUFFICES ASSUME Init PROVE SerialInv
  OBVIOUS
<1>1. AllLinesDistinct
  BY StoreInit
<1>2. \A k \in Kinds, v \in Versions : LinesOf(k, v) = {}
  BY DEF Init, LinesOf, Exists
<1>3. \A h \in Handlers : HandlerInv(h) /\ reply[h] # "lost"
  BY DEF Init, HandlerInv
<1> QED BY <1>1, <1>2, <1>3 DEF SerialInv, OneEach, EveryMessageAnswered

\* The invariant holds, whatever messages come and however often Meta restarts.
THEOREM SerialHolds == OneHandler /\ Spec => []SerialInv
<1> SUFFICES ASSUME OneHandler PROVE Spec => []SerialInv
  OBVIOUS
<1> QED BY SerialInit, SerialNext, PTL DEF Spec

\* MetaCDNReceiver.cpp:71, "Response: status OK or Forbidden": with one handler
\* at a time updateMetaEntry never fails, so that every message has an answer.
THEOREM MessagesAnswered == OneHandler /\ Spec => []EveryMessageAnswered
<1>1. SerialInv => EveryMessageAnswered
  BY DEF SerialInv
<1> QED BY <1>1, SerialHolds, PTL

\* A client that asks for its list is given one hash, or time stamp, per file:
\* also from a file that a handler of an earlier run of Meta was stopped at.
THEOREM FilesListedOnce == OneHandler /\ Spec => []OneLinePerFile
<1>1. SerialInv => OneLinePerFile
  BY DEF SerialInv, AllLinesDistinct, TypeOK, OneLinePerFile, OneEach, Current
<1> QED BY <1>1, SerialHolds, PTL

-----------------------------------------------------------------------------
(* The table the version files stand for.  What a step of a handler does   *)
(* to it shows in the lines that are in effect.                            *)

Empty(k) == \A v \in Versions : LinesOf(k, v) = {}

\* A table whose file is missing never had a line, so that a bump past it brings
\* no old lines back; an upload reaches the time stamps after its file is listed.
FirstHandlerInv(h) ==
  /\ \A k \in Kinds :
       ~Exists(k, IF pc[h] \in {"reread", "open"} /\ kind[h] = k
                  THEN from[h] ELSE ver[k]) => Empty(k)
  /\ kind[h] = "stamp" => Listed(Current("entry"), job[h].file)

\* Until Meta restarts, what it has acknowledged is listed.
FirstInv ==
  FirstRun =>
    /\ \A f \in recorded : Listed(Effective("entry"), f)
    /\ \A h \in Handlers : FirstHandlerInv(h)

\* The three effects of a step: none, a copy that edits the file's line, and
\* the line of an upload in place of the file's old one.
Keeps(k)    == Effective(k)' = Effective(k)
Edits(m)    == /\ m.op # "record"
               /\ Effective("entry")' = Rewritten(m, Effective("entry"))
               /\ Keeps("stamp")
Adds(k, m)  == /\ Effective(k)' = Others(Effective(k), m.file) \cup {NewLine(k, m)}
               /\ \A j \in Kinds \ {k} : Keeps(j)

\* Which version file is in effect.
LEMMA EffectiveIs ==
  ASSUME OneHandler, NEW h \in Handlers, NEW k
  PROVE  /\ Effective(k) = LinesOf(k, IF Pending(h, k) THEN from[h] ELSE ver[k])
         /\ Effective(k)' = LinesOf(k, IF Pending(h, k) THEN from[h] ELSE ver[k])'
<1>1. \A g \in Handlers : g = h
  BY DEF OneHandler
<1>2. ASSUME Pending(h, k)
      PROVE  Effective(k) = LinesOf(k, from[h])
  <2>1. (CHOOSE g \in Handlers : Pending(g, k)) = h
    BY <1>1, <1>2
  <2> QED BY <1>2, <2>1 DEF Effective
<1>3. ASSUME ~Pending(h, k)
      PROVE  Effective(k) = LinesOf(k, ver[k])
  BY <1>1, <1>3 DEF Effective, Current
<1>4. ASSUME Pending(h, k)'
      PROVE  Effective(k)' = LinesOf(k, from[h])'
  <2>1. (CHOOSE g \in Handlers : Pending(g, k)') = h
    BY <1>1, <1>4
  <2> QED BY <1>4, <2>1 DEF Effective
<1>5. ASSUME ~Pending(h, k)'
      PROVE  Effective(k)' = LinesOf(k, ver[k])'
  BY <1>1, <1>5 DEF Effective, Current
<1> QED BY <1>2, <1>3, <1>4, <1>5

\* A message arrives.
LEMMA EffectBegin ==
  ASSUME OneHandler, SerialInv, NEW h \in Handlers, NEW m \in Message, Begin(h, m),
         NEW k \in Kinds
  PROVE  Keeps(k)
<1>1. /\ pc[h] = "idle" /\ pc'[h] \in {"test", "bump"} /\ UNCHANGED <<store, ver>>
  BY SerialType DEF HandlerType, Begin
<1> QED BY <1>1, EffectiveIs, ReadSame DEF Keeps, Pending

\* The first test of an upload.
LEMMA EffectTest ==
  ASSUME OneHandler, SerialInv, NEW h \in Handlers, Test(h), NEW k \in Kinds
  PROVE  Keeps(k)
<1>1. /\ pc[h] = "test" /\ from'[h] = ver[kind[h]] /\ UNCHANGED <<store, ver, kind>>
  BY SerialType DEF HandlerType, Test
<1> QED BY <1>1, EffectiveIs, ReadSame DEF Keeps, Pending

\* After the bump the old version stays in effect,
LEMMA EffectBump ==
  ASSUME OneHandler, SerialInv, NEW h \in Handlers, Bump(h), NEW k \in Kinds
  PROVE  Keeps(k)
<1>1. HandlerType /\ HandlerInv(h)
  BY AtWork, AtWorkSerially
<1>2. /\ pc[h] \in {"bump", "load", "save", "reread"} /\ UNCHANGED <<store, kind>>
      /\ pc[h] \in {"bump", "load"} => pc'[h] \notin {"reread", "open"} /\ UNCHANGED ver
      /\ pc[h] = "save" => pc'[h] = "reread" /\ from'[h] = ver[kind[h]]
      /\ pc[h] = "reread" => pc'[h] = "open" /\ UNCHANGED <<ver, from>>
      /\ pc'[h] \in {"load", "save", "reread", "open"}
      /\ \A j \in Kinds : j # kind[h] => ver'[j] = ver[j]
  BY <1>1, BumpSteps DEF HandlerInv
<1> QED BY <1>2, EffectiveIs, ReadSame DEF Keeps, Pending

\* and it is not the file that is emptied.
LEMMA EffectOpen ==
  ASSUME OneHandler, SerialInv, NEW h \in Handlers, Open(h), NEW k \in Kinds
  PROVE  Keeps(k)
<1>1. /\ pc[h] = "open" /\ pc'[h] = "rewrite" /\ from[h] # to[h]
      /\ kind[h] \in Kinds /\ StoreType /\ Write(kind[h], to[h], {})
      /\ UNCHANGED <<ver, kind, from>>
  BY SerialType, AtWork, AtWorkSerially DEF HandlerType, HandlerInv, Open
<1> QED BY <1>1, EffectiveIs, ReadBack DEF Keeps, Pending

\* A table whose file is missing has no lines, in this version or the next.
LEMMA EffectOpenFails ==
  ASSUME OneHandler, SerialInv, FirstInv, FirstRun,
         NEW h \in Handlers, OpenFails(h), NEW k \in Kinds
  PROVE  Keeps(k)
<1>1. /\ pc[h] = "open" /\ ~Exists(kind[h], from[h]) /\ UNCHANGED <<store, ver>>
      /\ kind[h] \in Kinds /\ from[h] \in Versions /\ \A j \in Kinds : ver[j] \in Versions
  BY AtWork DEF OpenFails
<1>2. Empty(kind[h])
  BY <1>1 DEF FirstInv, FirstHandlerInv
<1>3. \/ pc'[h] = "idle" /\ kind'[h] = "entry"
      \/ pc'[h] = "append" /\ UNCHANGED <<kind, from>>
  BY SerialType DEF HandlerType, OpenFails
<1>4. CASE k = kind[h]
  <2>1. Effective(k) = {} /\ Effective(k)' = {}
    BY <1>1, <1>2, <1>3, <1>4, EffectiveIs, ReadSame DEF Pending, Empty
  <2> QED BY <2>1 DEF Keeps
<1>5. CASE k # kind[h]
  BY <1>1, <1>3, <1>5, EffectiveIs, ReadSame DEF Keeps, Pending
<1> QED BY <1>4, <1>5

\* A copy takes effect when it is written, except that of an upload, which goes
\* on to append the file's new line.
LEMMA EffectRewrite ==
  ASSUME OneHandler, SerialInv, NEW h \in Handlers, Rewrite(h)
  PROVE  (\A k \in Kinds : Keeps(k)) \/ Edits(job[h])
<1> DEFINE j == kind[h]  m == job[h]  copy == Rewritten(m, LinesOf(j, from[h]))
<1>1. /\ pc[h] = "rewrite" /\ to[h] = ver[j] /\ from[h] # to[h]
      /\ j \in Kinds /\ StoreType /\ UNCHANGED ver
  BY AtWork, AtWorkSerially DEF HandlerInv, Rewrite
<1>2. Write(j, ver[j], copy)
  BY <1>1, SerialRewriteFile
<1> HIDE DEF copy
<1>3. \A k \in Kinds : \A w :
        LinesOf(k, w)' = IF k = j /\ w = ver[j] THEN copy ELSE LinesOf(k, w)
  BY <1>1, <1>2, ReadBack
<1>4. CASE m.op = "record"
  <2>1. /\ pc'[h] \in {"recheck", "append"} /\ UNCHANGED <<kind, from>>
    BY <1>4, SerialType DEF HandlerType, Rewrite
  <2>2. ASSUME NEW k \in Kinds PROVE Keeps(k)
    BY <1>1, <1>3, <2>1, EffectiveIs DEF Keeps, Pending
  <2> QED BY <2>2
<1>5. CASE m.op # "record"
  <2>1. j = "entry" /\ pc'[h] = "idle"
    BY <1>1, <1>5, AtWork, SerialType DEF HandlerType, Rewrite
  <2>2. Effective("entry")' = copy /\ Effective("entry") = LinesOf(j, from[h])
    BY <1>1, <1>3, <2>1, EffectiveIs DEF Pending
  <2>3. Keeps("stamp")
    BY <1>1, <1>3, <2>1, EffectiveIs DEF Keeps, Pending
  <2> QED BY <1>5, <2>2, <2>3 DEF Edits, copy
<1> QED BY <1>4, <1>5

\* The second test of an upload.
LEMMA EffectRecheck ==
  ASSUME OneHandler, SerialInv, NEW h \in Handlers, Recheck(h), NEW k \in Kinds
  PROVE  Keeps(k)
<1>1. Continue(h, "append")
  BY SerialRecheck
<1>2. /\ pc[h] = "recheck" /\ pc'[h] = "append" /\ UNCHANGED <<store, ver, kind, from>>
  BY <1>1, SerialType DEF HandlerType, Recheck
<1> QED BY <1>2, EffectiveIs, ReadSame DEF Keeps, Pending

\* With the append the upload takes effect.
LEMMA EffectAppend ==
  ASSUME OneHandler, SerialInv, NEW h \in Handlers, AppendLine(h),
         NEW k \in Kinds, k = kind[h], NEW m, m = job[h]
  PROVE  Adds(k, m)
<1> DEFINE new == Current(k) \cup {NewLine(k, m)}
<1>1. /\ pc[h] = "append" /\ StoreType /\ Write(k, ver[k], new)
      /\ Current(k) = Others(LinesOf(k, from[h]), m.file) /\ UNCHANGED ver
  BY AtWork, AtWorkSerially DEF HandlerInv, AppendLine
<1> HIDE DEF new
<1>2. \A j \in Kinds : \A w :
        LinesOf(j, w)' = IF j = k /\ w = ver[k] THEN new ELSE LinesOf(j, w)
  BY <1>1, ReadBack
<1>3. \A j : ~Pending(h, j)'
  BY SerialType DEF HandlerType, AppendLine, Pending
<1>4. Effective(k) = LinesOf(k, from[h])
  BY <1>1, EffectiveIs DEF Pending
<1>5. \A j \in Kinds : Effective(j)' = LinesOf(j, ver[j])'
  BY <1>3, EffectiveIs
<1>6. Effective(k)' = new
  BY <1>1, <1>2, <1>5
<1>7. ASSUME NEW j \in Kinds \ {k} PROVE Keeps(j)
  <2>1. Effective(j) = LinesOf(j, ver[j])
    BY EffectiveIs DEF Pending
  <2> QED BY <1>1, <1>2, <1>5, <2>1 DEF Keeps
<1> QED BY <1>1, <1>4, <1>6, <1>7 DEF Adds, new

-----------------------------------------------------------------------------
\* Steps that write no file.
LEMMA FirstQuiet ==
  ASSUME OneHandler, SerialInv, FirstInv, FirstRun, NEW h \in Handlers,
         NEW m \in Message,
         Begin(h, m) \/ Test(h) \/ Bump(h) \/ OpenFails(h) \/ Recheck(h)
  PROVE  FirstHandlerInv(h)' /\ UNCHANGED recorded
<1>1. UNCHANGED <<store, recorded>>
  BY DEF Begin, Test, Bump, NameOld, LoadVersion, SaveVersion, NameNew, OpenFails, Recheck
<1>2. \A k \in Kinds : Empty(k)' = Empty(k)
  BY <1>1, ReadSame DEF Empty
<1>3. FirstHandlerInv(h) /\ kind[h] \in Kinds
  BY AtWork DEF FirstInv
<1>4. CASE Begin(h, m)
  <2>1. /\ pc[h] = "idle" /\ pc'[h] \in {"test", "bump"} /\ kind'[h] = "entry"
        /\ UNCHANGED ver
    BY <1>4, SerialType DEF HandlerType, Begin
  <2> QED BY <1>1, <1>2, <1>3, <2>1, ReadSame DEF FirstHandlerInv
<1>5. CASE Test(h)
  <2>1. /\ pc[h] = "test" /\ pc'[h] \in {"bump", "recheck", "append"}
        /\ UNCHANGED <<ver, kind, job>>
    BY <1>5, SerialType DEF HandlerType, Test
  <2> QED BY <1>1, <1>2, <1>3, <2>1, ReadSame DEF FirstHandlerInv, Current
<1>6. CASE Bump(h)
  <2>1. HandlerType /\ HandlerInv(h)
    BY AtWork, AtWorkSerially
  <2>2. /\ UNCHANGED <<kind, job>>
        /\ \A k \in Kinds : k # kind[h] => ver'[k] = ver[k]
        /\ \/ pc[h] \in {"bump", "load"} /\ pc'[h] \in {"load", "save"} /\ UNCHANGED ver
           \/ pc[h] = "save" /\ pc'[h] = "reread" /\ from'[h] = ver[kind[h]]
           \/ pc[h] = "reread" /\ pc'[h] = "open" /\ UNCHANGED <<ver, from>>
    BY <1>6, <2>1, BumpSteps DEF HandlerInv
  <2>3. kind[h] = "stamp" => ver'["entry"] = ver["entry"]
    BY <2>2
  <2> QED BY <1>1, <1>2, <1>3, <2>2, <2>3, ReadSame DEF FirstHandlerInv, Current
<1>7. CASE OpenFails(h)
  <2>1. pc[h] = "open" /\ ~Exists(kind[h], from[h]) /\ UNCHANGED ver
    BY <1>7 DEF OpenFails
  <2>2. pc'[h] \notin {"reread", "open"}
    BY <1>7, SerialType DEF HandlerType, OpenFails
  <2>3. kind'[h] = "stamp" => UNCHANGED <<kind, job>>
    BY <1>7, SerialType DEF HandlerType, OpenFails
  <2>4. Empty(kind[h])
    BY <1>3, <2>1 DEF FirstHandlerInv
  <2> QED BY <1>1, <1>2, <1>3, <2>1, <2>2, <2>3, <2>4, ReadSame DEF FirstHandlerInv, Current
<1>8. CASE Recheck(h)
  <2>1. Continue(h, "append")
    BY <1>8, SerialRecheck
  <2>2. /\ pc[h] = "recheck" /\ pc'[h] = "append" /\ UNCHANGED <<ver, kind, job>>
    BY <1>8, <2>1, SerialType DEF HandlerType, Recheck
  <2> QED BY <1>1, <1>2, <1>3, <2>2, ReadSame DEF FirstHandlerInv, Current
<1> QED BY <1>1, <1>4, <1>5, <1>6, <1>7, <1>8

\* Steps that write the current file.
LEMMA FirstWrites ==
  ASSUME OneHandler, SerialInv, FirstInv, FirstRun, NEW h \in Handlers,
         Open(h) \/ Rewrite(h) \/ AppendLine(h)
  PROVE  FirstHandlerInv(h)'
<1> DEFINE j == kind[h]
<1>1. FirstHandlerInv(h) /\ j \in Kinds /\ StoreType
  BY AtWork DEF FirstInv
<1>2. PICK lines : Write(j, ver[j], lines) /\ (AppendLine(h) => NewLine(j, job[h]) \in lines)
  <2>1. CASE Open(h) \/ Rewrite(h)
    <3>1. pc[h] \in {"open", "rewrite"} /\ pc[h] # "append"
      BY <2>1 DEF Open, Rewrite
    <3>2. to[h] = ver[j] /\ ~AppendLine(h)
      BY <3>1, AtWorkSerially DEF HandlerInv, AppendLine
    <3> QED BY <2>1, <3>2, SerialRewriteFile DEF Open
  <2>2. CASE AppendLine(h)
    BY <2>2 DEF AppendLine
  <2> QED BY <2>1, <2>2
<1>3. /\ pc[h] \in {"open", "rewrite", "append"} /\ pc'[h] \notin {"reread", "open"}
      /\ UNCHANGED ver
  BY SerialType DEF HandlerType, Open, Rewrite, AppendLine
<1>4. \A k \in Kinds : \A w :
        /\ LinesOf(k, w)' = IF k = j /\ w = ver[j] THEN lines ELSE LinesOf(k, w)
        /\ Exists(k, w)' <=> Exists(k, w) \/ (k = j /\ w = ver[j])
  BY <1>1, <1>2, ReadBack
<1>5. ASSUME NEW k \in Kinds, 
             ~Exists(k, IF pc[h] \in {"reread", "open"} /\ kind[h] = k
                        THEN from[h] ELSE ver[k])'
      PROVE  Empty(k)'
  <2>1. ~Exists(k, ver[k])'
    BY <1>3, <1>5
  <2>2. k # j /\ ~Exists(k, ver[k])
    BY <1>3, <1>4, <2>1
  <2>3. Empty(k)
    BY <1>1, <2>2 DEF FirstHandlerInv
  <2> QED BY <1>4, <2>2, <2>3 DEF Empty
<1>6. ASSUME kind'[h] = "stamp"
      PROVE  Listed(Current("entry"), job[h].file)'
  <2>1. CASE AppendLine(h) /\ j = "entry"
    <3>1. UNCHANGED job
      BY <2>1 DEF AppendLine
    <3>2. Current("entry")' = lines
      BY <1>3, <1>4, <2>1 DEF Current
    <3>3. NewLine(j, job[h]).file = job[h].file
      BY DEF NewLine
    <3> QED BY <1>2, <2>1, <3>1, <3>2, <3>3 DEF Listed
  <2>2. CASE ~(AppendLine(h) /\ j = "entry")
    <3>1. j = "stamp" /\ UNCHANGED job
      BY <1>1, <1>6, <2>2, SerialType DEF HandlerType, Open, Rewrite, AppendLine
    <3>2. Current("entry")' = Current("entry")
      BY <1>3, <1>4, <3>1 DEF Current
    <3> QED BY <1>1, <3>1, <3>2 DEF FirstHandlerInv
  <2> QED BY <2>1, <2>2
<1> QED BY <1>5, <1>6 DEF FirstHandlerInv

\* What is listed stays listed, but for the line an upload adds.
LEMMA EffectListed ==
  ASSUME SerialInv, NEW f,
         \/ Keeps("entry")
         \/ \E m \in Message : Edits(m)
         \/ \E m : Adds("entry", m),
         Listed(Effective("entry"), f), Effective("entry") \in SUBSET Line
  PROVE  Listed(Effective("entry"), f)'
<1>1. CASE Keeps("entry")
  BY <1>1 DEF Keeps, Listed
<1>2. CASE \E m \in Message : Edits(m)
  BY <1>2, RewrittenListed DEF Edits
<1>3. CASE \E m : Adds("entry", m)
  <2>1. PICK m : Effective("entry")' = Others(Effective("entry"), m.file) \cup {NewLine("entry", m)}
    BY <1>3 DEF Adds
  <2>2. NewLine("entry", m).file = m.file
    BY DEF NewLine
  <2> QED BY <2>1, <2>2 DEF Listed, Others
<1> QED BY <1>1, <1>2, <1>3

\* The lines in effect are lines, one for a file, and list a CDN once.
LEMMA EffectiveType ==
  ASSUME OneHandler, SerialInv, NEW k \in Kinds
  PROVE  /\ Effective(k) \in SUBSET Line /\ OneEach(Effective(k))
         /\ \A l \in Effective(k) : IsInjective(l.cdns)
<1>1. /\ StoreType /\ ver[k] \in Versions
      /\ \A v \in Versions : OneEach(LinesOf(k, v))
      /\ \A v \in Versions : \A l \in LinesOf(k, v) : IsInjective(l.cdns)
  BY DEF SerialInv, AllLinesDistinct, TypeOK, StoreType
<1>2. PICK v \in Versions : Effective(k) = LinesOf(k, v)
  <2>1. CASE Handlers = {}
    BY <1>1, <2>1 DEF Effective, Current
  <2>2. CASE Handlers # {}
    <3>1. PICK h \in Handlers : TRUE
      BY <2>2
    <3>2. from[h] \in Versions
      BY AtWork
    <3> QED BY <1>1, <3>2, EffectiveIs
  <2> QED BY <2>1, <2>2
<1> QED BY <1>1, <1>2, LinesType

\* A list for a client changes no line.
LEMMA EffectList ==
  ASSUME SerialInv, ListForClient
  PROVE  /\ \A k \in Kinds : Keeps(k)
         /\ \A h \in Handlers : FirstHandlerInv(h) => FirstHandlerInv(h)'
<1>1. /\ "entry" \in Kinds /\ StoreType /\ ~Exists("entry", ver["entry"])
      /\ Write("entry", ver["entry"], {}) /\ UNCHANGED <<ver, handlerVars>>
  BY DEF ListForClient, SerialInv, AllLinesDistinct, TypeOK, StoreType
<1>2. \A j \in Kinds : \A w : LinesOf(j, w)' = LinesOf(j, w)
  BY <1>1, ReadBack DEF LinesOf
<1>3. \A j \in Kinds : \A w : Exists(j, w) => Exists(j, w)'
  BY <1>1, ReadBack
<1>4. ASSUME NEW k \in Kinds PROVE Keeps(k)
  <2>1. \A h : Pending(h, k)' = Pending(h, k)
    BY <1>1 DEF Pending
  <2> QED BY <1>1, <1>2, <2>1 DEF Keeps, Effective, Current
<1>5. ASSUME NEW h \in Handlers, FirstHandlerInv(h) PROVE FirstHandlerInv(h)'
  BY <1>1, <1>2, <1>3, <1>5 DEF FirstHandlerInv, Empty, Current
<1> QED BY <1>4, <1>5

\* What a step of the first run does to the lines in effect.
LEMMA StepEffect ==
  ASSUME OneHandler, SerialInv, FirstInv, FirstRun', [Next]_vars
  PROVE  /\ FirstRun
         /\ \A h \in Handlers : FirstHandlerInv(h)'
         /\ \/ UNCHANGED recorded /\ \A k \in Kinds : Keeps(k)
            \/ UNCHANGED recorded /\ \E m \in Message : Edits(m)
            \/ UNCHANGED recorded /\ \E m \in Message : m.op = "record" /\ Adds("entry", m)
            \/ \E m \in Message :
                 /\ recorded' = recorded \cup {m.file}
                 /\ m.op = "record" /\ Adds("stamp", m) /\ Listed(Effective("entry"), m.file)
<1>1. restarts \in Nat /\ ~Restart
  BY DEF SerialInv, AllLinesDistinct, TypeOK, Restart, FirstRun
<1>2. FirstRun
  BY <1>1 DEF Next, HandlerStep, Begin, Test, Bump, NameOld, LoadVersion, SaveVersion,
              NameNew, Open, OpenFails, Rewrite, Recheck,
              AppendLine, ListForClient, FirstRun, vars
<1>3. CASE UNCHANGED vars
  <2>1. \A k \in Kinds : Keeps(k)
    BY <1>3, ReadSame DEF Keeps, Effective, Pending, Current, vars
  <2>2. \A h \in Handlers : FirstHandlerInv(h)'
    BY <1>2, <1>3, ReadSame DEF FirstInv, FirstHandlerInv, Empty, Current, vars
  <2> QED BY <1>2, <1>3, <2>1, <2>2 DEF vars
<1>4. CASE ListForClient
  <2>1. UNCHANGED recorded
    BY <1>4 DEF ListForClient
  <2>2. \A h \in Handlers : FirstHandlerInv(h)
    BY <1>2 DEF FirstInv
  <2> QED BY <1>2, <1>4, <2>1, <2>2, EffectList
<1>5. ASSUME NEW h \in Handlers, FirstHandlerInv(h)'
      PROVE  \A g \in Handlers : FirstHandlerInv(g)'
  BY <1>5 DEF OneHandler
<1>6. ASSUME NEW h \in Handlers, NEW m \in Message, Begin(h, m)
      PROVE  FirstHandlerInv(h)' /\ UNCHANGED recorded /\ \A k \in Kinds : Keeps(k)
  BY <1>2, <1>6, FirstQuiet, EffectBegin
<1>7. ASSUME NEW h \in Handlers, Test(h) \/ Bump(h) \/ OpenFails(h) \/ Recheck(h)
      PROVE  FirstHandlerInv(h)' /\ UNCHANGED recorded /\ \A k \in Kinds : Keeps(k)
  <2>1. job[h] \in Message
    BY <1>7, AtWork DEF Test, Bump, NameOld, LoadVersion, SaveVersion, NameNew, OpenFails, Recheck
  <2> QED BY <1>2, <1>7, <2>1, FirstQuiet, EffectTest, EffectBump, EffectOpenFails, EffectRecheck
<1>8. ASSUME NEW h \in Handlers, Open(h)
      PROVE  FirstHandlerInv(h)' /\ UNCHANGED recorded /\ \A k \in Kinds : Keeps(k)
  <2>1. UNCHANGED recorded
    BY <1>8 DEF Open
  <2> QED BY <1>2, <1>8, <2>1, FirstWrites, EffectOpen
<1>9. ASSUME NEW h \in Handlers, Rewrite(h)
      PROVE  /\ FirstHandlerInv(h)' /\ UNCHANGED recorded
             /\ (\A k \in Kinds : Keeps(k)) \/ \E m \in Message : Edits(m)
  <2>1. UNCHANGED recorded /\ job[h] \in Message
    BY <1>9, AtWork DEF Rewrite
  <2> QED BY <1>2, <1>9, <2>1, FirstWrites, EffectRewrite
<1>10. ASSUME NEW h \in Handlers, AppendLine(h), kind[h] = "entry"
       PROVE  /\ FirstHandlerInv(h)' /\ UNCHANGED recorded
              /\ \E m \in Message : m.op = "record" /\ Adds("entry", m)
  <2>1. UNCHANGED recorded /\ job[h] \in Message /\ job[h].op = "record"
    BY <1>10, AtWork DEF AppendLine
  <2>2. Adds("entry", job[h])
    BY <1>10, EffectAppend
  <2> QED BY <1>2, <1>10, <2>1, <2>2, FirstWrites
<1>11. ASSUME NEW h \in Handlers, AppendLine(h), kind[h] = "stamp"
       PROVE  /\ FirstHandlerInv(h)'
              /\ \E m \in Message :
                   /\ recorded' = recorded \cup {m.file}
                   /\ m.op = "record" /\ Adds("stamp", m) /\ Listed(Effective("entry"), m.file)
  <2>1. /\ recorded' = recorded \cup {job[h].file}
        /\ job[h] \in Message /\ job[h].op = "record"
    BY <1>11, AtWork DEF AppendLine
  <2>2. Adds("stamp", job[h])
    BY <1>11, EffectAppend
  <2>3. Effective("entry") = Current("entry")
    BY <1>11, EffectiveIs DEF Pending, Current
  <2>4. Listed(Effective("entry"), job[h].file)
    BY <1>2, <1>11, <2>3 DEF FirstInv, FirstHandlerInv
  <2> QED BY <1>2, <1>11, <2>1, <2>2, <2>4, FirstWrites
<1>12. \A h \in Handlers : kind[h] \in {"entry", "stamp"}
  BY AtWork
<1> QED BY <1>1, <1>2, <1>3, <1>4, <1>5, <1>6, <1>7, <1>8, <1>9, <1>10, <1>11, <1>12
        DEF Next, HandlerStep

LEMMA FirstNext == OneHandler /\ SerialInv /\ FirstInv /\ [Next]_vars => FirstInv'
<1> SUFFICES ASSUME OneHandler, SerialInv, FirstInv, [Next]_vars, FirstRun'
             PROVE  /\ \A f \in recorded' : Listed(Effective("entry"), f)'
                    /\ \A h \in Handlers : FirstHandlerInv(h)'
  BY DEF FirstInv
<1>1. \A f \in recorded : Listed(Effective("entry"), f)
  BY StepEffect DEF FirstInv
<1>2. Effective("entry") \in SUBSET Line /\ "entry" \in Kinds
  BY EffectiveType
<1>3. \/ Keeps("entry")
      \/ \E m \in Message : Edits(m)
      \/ \E m : Adds("entry", m)
  BY StepEffect DEF Adds
<1>4. \A f : Listed(Effective("entry"), f) => Listed(Effective("entry"), f)'
  BY <1>2, <1>3, EffectListed
<1>5. \A f \in recorded' : f \in recorded \/ Listed(Effective("entry"), f)
  BY StepEffect
<1> QED BY <1>1, <1>4, <1>5, StepEffect

LEMMA FirstInit == Init => FirstInv
<1> SUFFICES ASSUME Init PROVE FirstInv
  OBVIOUS
<1>1. \A k \in Kinds : Empty(k)
  BY DEF Init, Empty, LinesOf, Exists
<1>2. \A h \in Handlers : FirstHandlerInv(h)
  BY <1>1 DEF Init, FirstHandlerInv
<1> QED BY <1>2 DEF Init, FirstInv

LEMMA FirstHolds == OneHandler /\ Spec => [](SerialInv /\ FirstInv)
<1> SUFFICES ASSUME OneHandler PROVE Spec => [](SerialInv /\ FirstInv)
  OBVIOUS
<1>1. Init => SerialInv /\ FirstInv
  BY SerialInit, FirstInit
<1>2. SerialInv /\ FirstInv /\ [Next]_vars => (SerialInv /\ FirstInv)'
  BY SerialNext, FirstNext
<1> QED BY <1>1, <1>2, PTL DEF Spec

\* A file whose upload Meta has acknowledged is in Meta's list from then on:
\* README.md:13, "Meta Server keeps track of a list of files that are uploaded".
THEOREM RecordedStays == OneHandler /\ Spec => []RecordedStaysListed
<1>1. SerialInv /\ FirstInv => RecordedStaysListed
  <2> SUFFICES ASSUME SerialInv, FirstInv, FirstRun, NothingRunning
               PROVE  \A f \in recorded : Listed(Current("entry"), f)
    BY DEF RecordedStaysListed
  <2>1. Effective("entry") = Current("entry")
    BY DEF Effective, Pending, NothingRunning, Working
  <2> QED BY <2>1 DEF FirstInv
<1> QED BY <1>1, FirstHolds, PTL

-----------------------------------------------------------------------------
(* The rows of the table, read off a set of lines.                         *)

Row(lines, f)       == CHOOSE l \in lines : l.file = f
ContentIn(lines, f) == IF Listed(lines, f) THEN Row(lines, f).content ELSE Absent
HoldersIn(lines, f) == IF Listed(lines, f) THEN ToSet(Row(lines, f).cdns) ELSE {}

\* The line of a file is the one the row shows.
LEMMA RowOf ==
  ASSUME NEW lines, OneEach(lines), NEW l \in lines, NEW f, f = l.file
  PROVE  ContentIn(lines, f) = l.content /\ HoldersIn(lines, f) = ToSet(l.cdns)
<1>1. Listed(lines, f)
  BY DEF Listed
<1>2. Row(lines, f) \in lines /\ Row(lines, f).file = f
  BY DEF Row
<1>3. Row(lines, f) = l
  BY <1>2 DEF OneEach
<1> QED BY <1>1, <1>3 DEF ContentIn, HoldersIn

\* The row of a file depends on the lines of that file alone.
LEMMA SameRow ==
  ASSUME NEW lines, OneEach(lines), NEW new, OneEach(new), NEW f,
         \A l : l.file = f => (l \in new <=> l \in lines)
  PROVE  ContentIn(new, f) = ContentIn(lines, f) /\ HoldersIn(new, f) = HoldersIn(lines, f)
<1>1. CASE Listed(lines, f)
  <2>1. PICK l \in lines : l.file = f
    BY <1>1 DEF Listed
  <2>2. l \in new
    BY <2>1
  <2> QED BY <2>1, <2>2, RowOf
<1>2. CASE ~Listed(lines, f)
  <2>1. ~Listed(new, f)
    BY <1>2 DEF Listed
  <2> QED BY <1>2, <2>1 DEF ContentIn, HoldersIn
<1> QED BY <1>1, <1>2

\* The CDNs of a line are those it lists.
LEMMA AddedCdn ==
  ASSUME NEW l \in Line, NEW d \in Ids
  PROVE  ToSet(WithCdn(l, d).cdns) = ToSet(l.cdns) \cup {d}
<1>1. CASE d \in ToSet(l.cdns)
  BY <1>1 DEF WithCdn
<1>2. CASE d \notin ToSet(l.cdns)
  <2> DEFINE s == l.cdns
  <2>1. s \in Seq(Ids) /\ WithCdn(l, d).cdns = Append(s, d)
    BY <1>2 DEF WithCdn, Line
  <2> HIDE DEF s
  <2>2. /\ DOMAIN Append(s, d) = 1..(Len(s) + 1) /\ DOMAIN s = 1..Len(s)
        /\ \A i \in 1..Len(s) : Append(s, d)[i] = s[i]
        /\ Append(s, d)[Len(s) + 1] = d
    BY <2>1
  <2>3. 1..(Len(s) + 1) = 1..Len(s) \cup {Len(s) + 1}
    BY <2>1
  <2>4. ToSet(Append(s, d)) = ToSet(s) \cup {d}
    BY <2>2, <2>3, Zenon DEF ToSet
  <2> QED BY <2>1, <2>4 DEF s
<1> QED BY <1>1, <1>2

\* A copy that edits a line changes the holders of its file, and nothing else.
LEMMA EditedRows ==
  ASSUME NEW lines \in SUBSET Line, OneEach(lines), \A l \in lines : IsInjective(l.cdns),
         NEW m \in Message, m.op # "record", NEW f
  PROVE  LET new == Rewritten(m, lines) IN
         /\ ContentIn(new, f) = ContentIn(lines, f)
         /\ HoldersIn(new, f) =
              IF f # m.file \/ ~Listed(lines, f) THEN HoldersIn(lines, f)
              ELSE IF m.op = "add" THEN HoldersIn(lines, f) \cup {m.id}
              ELSE HoldersIn(lines, f) \ {m.id}
<1> DEFINE new  == Rewritten(m, lines)
           old  == {l \in lines : l.file = m.file}
           E(l) == IF m.op = "add" THEN WithCdn(l, m.id) ELSE WithoutCdn(l, m.id)
<1>1. new = (lines \ old) \cup {E(l) : l \in old}
  BY DEF Rewritten, Message
<1>2. \A l \in lines : E(l).file = l.file /\ E(l).content = l.content
  BY LineKept
<1>3. OneEach(new)
  BY RewrittenOneEach
<1> HIDE DEF new, E
<1>4. CASE f # m.file
  <2>1. \A l : l.file = f => (l \in new <=> l \in lines)
    BY <1>1, <1>2, <1>4
  <2> QED BY <1>3, <1>4, <2>1, SameRow DEF new
<1>5. CASE ~Listed(lines, f)
  <2>1. ~Listed(new, f)
    BY <1>5, RewrittenListed DEF new
  <2> QED BY <1>5, <2>1 DEF ContentIn, HoldersIn, new
<1>6. CASE f = m.file /\ Listed(lines, f)
  <2>1. PICK l \in lines : l.file = f
    BY <1>6 DEF Listed
  <2>2. l \in Line /\ IsInjective(l.cdns) /\ m.id \in Ids /\ l.cdns \in Seq(Ids)
    BY DEF Message, Line
  <2>3. E(l) \in new /\ E(l).file = f /\ E(l).content = l.content
    BY <1>1, <1>2, <1>6, <2>1
  <2>4. ToSet(E(l).cdns) = IF m.op = "add" THEN ToSet(l.cdns) \cup {m.id}
                                           ELSE ToSet(l.cdns) \ {m.id}
    <3>1. WithoutCdn(l, m.id).cdns = RemoveFirst(l.cdns, m.id)
      BY <2>2 DEF WithoutCdn, Line
    <3> QED BY <2>2, <3>1, AddedCdn, RemoveFirstKeeps DEF E
  <2>5. ContentIn(lines, f) = l.content /\ HoldersIn(lines, f) = ToSet(l.cdns)
    BY <2>1, RowOf
  <2>6. ContentIn(new, f) = l.content /\ HoldersIn(new, f) = ToSet(E(l).cdns)
    BY <1>3, <2>3, RowOf
  <2> QED BY <1>6, <2>4, <2>5, <2>6 DEF new
<1> QED BY <1>4, <1>5, <1>6

\* An upload replaces the row of its file.
LEMMA AddedRows ==
  ASSUME NEW lines, OneEach(lines), NEW k, NEW m, NEW f,
         NEW new, new = Others(lines, m.file) \cup {NewLine(k, m)}
  PROVE  /\ ContentIn(new, f) = IF f = m.file THEN m.content ELSE ContentIn(lines, f)
         /\ k = "entry" =>
              HoldersIn(new, f) = IF f = m.file THEN {m.id} ELSE HoldersIn(lines, f)
<1> DEFINE line == NewLine(k, m)
<1>1. /\ line.file = m.file /\ line.content = m.content
      /\ k = "entry" => line.cdns = <<m.id>>
      /\ new = Others(lines, m.file) \cup {line}
  BY DEF NewLine
<1> HIDE DEF line
<1>2. OneEach(new) /\ line \in new
  BY <1>1 DEF OneEach, Others
<1>3. CASE f = m.file
  <2>1. ContentIn(new, f) = line.content /\ HoldersIn(new, f) = ToSet(line.cdns)
    BY <1>1, <1>2, <1>3, RowOf
  <2>2. k = "entry" => ToSet(line.cdns) = {m.id}
    BY <1>1 DEF ToSet
  <2> QED BY <1>1, <1>3, <2>1, <2>2 DEF line
<1>4. CASE f # m.file
  <2>1. \A l : l.file = f => (l \in new <=> l \in lines)
    BY <1>1, <1>4 DEF Others
  <2> QED BY <1>2, <1>4, <2>1, SameRow
<1> QED BY <1>3, <1>4

-----------------------------------------------------------------------------
(* The version files implement the table.                                  *)

\* The table's rows are those of the lines in effect.
LEMMA RowsInEffect ==
  \A f : /\ \A k : /\ ContentOf(k, f) = ContentIn(Effective(k), f)
                  /\ ContentOf(k, f)' = ContentIn(Effective(k)', f)
         /\ HoldersOf(f) = HoldersIn(Effective("entry"), f)
         /\ HoldersOf(f)' = HoldersIn(Effective("entry")', f)
BY DEF ContentOf, HoldersOf, LineOf, ContentIn, HoldersIn, Row

\* A step without effect changes no row.
LEMMA KeptRows ==
  ASSUME NEW k, Keeps(k), NEW f
  PROVE  /\ ContentOf(k, f)' = ContentOf(k, f)
         /\ k = "entry" => HoldersOf(f)' = HoldersOf(f)
BY RowsInEffect DEF Keeps

\* Each effect is one operation of the table, or none.
LEMMA StoreStep ==
  ASSUME OneHandler, SerialInv, FirstInv, FirstRun', [Next]_vars
  PROVE  [Table!Next]_(Table!vars)
<1> DEFINE Hash    == [f \in Files |-> ContentOf("entry", f)]
           Stamps  == [f \in Files |-> ContentOf("stamp", f)]
           Holding == [f \in Files |-> HoldersOf(f)]
<1>1. /\ Effective("entry") \in SUBSET Line /\ OneEach(Effective("entry"))
      /\ Effective("stamp") \in SUBSET Line /\ OneEach(Effective("stamp"))
      /\ \A l \in Effective("entry") : IsInjective(l.cdns)
  BY EffectiveType
<1>2. Keeps("entry") => UNCHANGED <<Hash, Holding>>
  BY KeptRows
<1>3. Keeps("stamp") => UNCHANGED Stamps
  BY KeptRows
<1>4. CASE \A k \in Kinds : Keeps(k)
  BY <1>2, <1>3, <1>4 DEF Table!vars
<1>5. ASSUME NEW m \in Message, Edits(m)
      PROVE  [Table!Next]_(Table!vars)
  <2> DEFINE lines == Effective("entry")
  <2>1. m.op # "record" /\ UNCHANGED Stamps /\ lines' = Rewritten(m, lines)
    BY <1>3, <1>5 DEF Edits
  <2>2. m.op \in {"add", "remove"} /\ m.file \in Files /\ m.id \in Ids
    BY <2>1 DEF Message
  <2>3. \A f : ContentOf("entry", f)' = ContentOf("entry", f)
    BY <1>1, <2>1, EditedRows, RowsInEffect
  <2>4. UNCHANGED Hash
    BY <2>3
  <2>5. \A f : HoldersOf(f)' =
          IF f # m.file \/ ~Listed(lines, f) THEN HoldersOf(f)
          ELSE IF m.op = "add" THEN HoldersOf(f) \cup {m.id}
          ELSE HoldersOf(f) \ {m.id}
    BY <1>1, <2>1, EditedRows, RowsInEffect
  <2>6. ~Listed(lines, m.file) => HoldersOf(m.file) = {}
    BY DEF HoldersOf
  <2>7. Listed(lines, m.file) => ContentOf("entry", m.file) # Absent
    <3> SUFFICES ASSUME Listed(lines, m.file) PROVE ContentOf("entry", m.file) # Absent
      OBVIOUS
    <3>1. PICK l \in lines : l.file = m.file
      BY DEF Listed
    <3>2. l.content \in Contents
      BY <1>1 DEF Line
    <3>3. ContentOf("entry", m.file) = l.content
      BY <1>1, <3>1, RowOf, RowsInEffect
    <3> QED BY <3>2, <3>3, AbsentAssumption
  <2>8. CASE m.op = "add" /\ ~Listed(lines, m.file)
    <3>1. UNCHANGED Holding
      BY <2>5, <2>8
    <3> QED BY <2>1, <2>4, <3>1 DEF Table!vars
  <2>9. CASE m.op = "add" /\ Listed(lines, m.file)
    <3>1. Holding' = [Holding EXCEPT ![m.file] = @ \cup {m.id}]
      BY <2>2, <2>5, <2>9
    <3>2. Hash[m.file] # Absent
      BY <2>2, <2>7, <2>9
    <3>3. Table!AddHolder(m.file, m.id)
      BY <2>1, <2>4, <3>1, <3>2 DEF Table!AddHolder
    <3> QED BY <2>2, <3>3 DEF Table!Next
  <2>10. CASE m.op = "remove"
    <3>1. Holding' = [Holding EXCEPT ![m.file] = @ \ {m.id}]
      BY <2>2, <2>5, <2>6, <2>10
    <3>2. Table!RemoveHolder(m.file, m.id)
      BY <2>1, <2>4, <3>1 DEF Table!RemoveHolder
    <3> QED BY <2>2, <3>2 DEF Table!Next
  <2> QED BY <2>2, <2>8, <2>9, <2>10
<1>6. ASSUME NEW m \in Message, m.op = "record", Adds("entry", m)
      PROVE  [Table!Next]_(Table!vars)
  <2>1. m.file \in Files /\ m.id \in Ids /\ m.content \in Contents
    BY <1>6 DEF Message
  <2>2. UNCHANGED Stamps
    BY <1>3, <1>6 DEF Adds
  <2>3. \A f : /\ ContentOf("entry", f)' = IF f = m.file THEN m.content ELSE ContentOf("entry", f)
               /\ HoldersOf(f)' = IF f = m.file THEN {m.id} ELSE HoldersOf(f)
    <3> DEFINE lines == Effective("entry")
    <3>1. lines' = Others(lines, m.file) \cup {NewLine("entry", m)}
      BY <1>6 DEF Adds
    <3>2. \A f : /\ ContentIn(lines', f) = IF f = m.file THEN m.content ELSE ContentIn(lines, f)
                 /\ HoldersIn(lines', f) = IF f = m.file THEN {m.id} ELSE HoldersIn(lines, f)
      BY <1>1, <3>1, AddedRows
    <3> QED BY <3>2, RowsInEffect
  <2>4. /\ Hash'    = [Hash EXCEPT ![m.file] = m.content]
        /\ Holding' = [Holding EXCEPT ![m.file] = {m.id}]
    BY <2>1, <2>3
  <2>5. Table!Record(m.file, m.content, m.id)
    BY <2>2, <2>4 DEF Table!Record
  <2> QED BY <2>1, <2>5 DEF Table!Next
<1>7. ASSUME NEW m \in Message, m.op = "record", Adds("stamp", m)
      PROVE  [Table!Next]_(Table!vars)
  <2>1. m.file \in Files /\ m.content \in Contents
    BY <1>7 DEF Message
  <2>2. UNCHANGED <<Hash, Holding>>
    BY <1>2, <1>7 DEF Adds
  <2>3. \A f : ContentOf("stamp", f)' = IF f = m.file THEN m.content ELSE ContentOf("stamp", f)
    <3> DEFINE lines == Effective("stamp")
    <3>1. lines' = Others(lines, m.file) \cup {NewLine("stamp", m)}
      BY <1>7 DEF Adds
    <3>2. \A f : ContentIn(lines', f) = IF f = m.file THEN m.content ELSE ContentIn(lines, f)
      BY <1>1, <3>1, AddedRows
    <3> QED BY <3>2, RowsInEffect
  <2>4. Stamps' = [Stamps EXCEPT ![m.file] = m.content]
    BY <2>1, <2>3
  <2>5. Table!Stamp(m.file, m.content)
    BY <2>2, <2>4 DEF Table!Stamp
  <2> QED BY <2>1, <2>5 DEF Table!Next
<1> QED BY <1>4, <1>5, <1>6, <1>7, StepEffect

\* With one handler at a time, and until Meta restarts, the files of MetaServer
\* are the table that the rest of the system takes Meta for: an operation takes
\* effect with its last write.
THEOREM StoreIsTable == OneHandler /\ Spec => ImplementsTable
<1> SUFFICES ASSUME OneHandler PROVE Spec => ImplementsTable
  OBVIOUS
<1>1. Init => Table!Init
  <2> SUFFICES ASSUME Init PROVE Table!Init
    OBVIOUS
  <2>1. \A k \in Kinds : Effective(k) = {}
    BY DEF Init, Effective, Pending, Current, LinesOf, Exists
  <2>2. \A f : /\ ContentOf("entry", f) = Absent /\ ContentOf("stamp", f) = Absent
               /\ HoldersOf(f) = {}
    BY <2>1 DEF ContentOf, HoldersOf, Listed
  <2> QED BY <2>2 DEF Table!Init
<1>2. SerialInv /\ FirstInv /\ [Next]_vars => (FirstRun' => [Table!Next]_(Table!vars))
  BY StoreStep
<1>3. Spec => [](SerialInv /\ FirstInv)
  BY FirstHolds
<1> QED BY <1>1, <1>2, <1>3, PTL DEF Spec, ImplementsTable

=============================================================================
