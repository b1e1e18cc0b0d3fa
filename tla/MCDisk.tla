------------------------------- MODULE MCDisk -------------------------------
(* A small CDN storage, with room for one of its two files at a time.       *)
EXTENDS CdnDisk

CONSTANTS t1, t2, f1, f2, v1, v2

MCThreads  == {t1, t2}
MCFiles    == {f1, f2}
MCVersions == {v1, v2}
MCLength   == [v \in MCVersions |-> IF v = v1 THEN 1 ELSE 2]
MCStored   == [f \in MCFiles |-> IF f = f1 THEN v2 ELSE Null]

Get(f)    == [op |-> "get", file |-> f, ver |-> v1]
Del(f)    == [op |-> "del", file |-> f, ver |-> v1]
Put(f, v) == [op |-> "put", file |-> f, ver |-> v]

MCJobs == [t \in MCThreads |->
             IF t = t1 THEN {Put(f1, v1)} ELSE {Put(f2, v1), Get(f1), Get(f2), Del(f1)}]

=============================================================================
