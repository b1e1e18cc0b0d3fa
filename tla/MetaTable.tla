----------------------------- MODULE MetaTable -----------------------------
(***************************************************************************)
(* What the Meta server promises the rest of the system: one entry per     *)
(* file with the hash of its content and the CDNs that have a copy, and    *)
(* one time stamp per file, each changed by one atomic operation at a      *)
(* time.  ContentNetwork uses Meta this way; MetaStore is how MetaServer   *)
(* keeps the entries in files.                                             *)
(***************************************************************************)
CONSTANTS Files, Contents, Ids, Absent

VARIABLES hash, stamp, holders

vars == <<hash, stamp, holders>>

Init == /\ hash    = [f \in Files |-> Absent]
        /\ stamp   = [f \in Files |-> Absent]
        /\ holders = [f \in Files |-> {}]

\* CDN d has uploaded content v of f: the only copy is d's.
Record(f, v, d) == /\ hash'    = [hash EXCEPT ![f] = v]
                   /\ holders' = [holders EXCEPT ![f] = {d}]
                   /\ UNCHANGED stamp

\* The time stamp of content v of f is recorded.
Stamp(f, v) == /\ stamp' = [stamp EXCEPT ![f] = v]
               /\ UNCHANGED <<hash, holders>>

\* CDN d has fetched a copy of a file that Meta knows.
AddHolder(f, d) == /\ hash[f] # Absent
                   /\ holders' = [holders EXCEPT ![f] = @ \cup {d}]
                   /\ UNCHANGED <<hash, stamp>>

\* CDN d no longer has a copy.
RemoveHolder(f, d) == /\ holders' = [holders EXCEPT ![f] = @ \ {d}]
                      /\ UNCHANGED <<hash, stamp>>

Next == \E f \in Files :
          \/ \E v \in Contents, d \in Ids : Record(f, v, d)
          \/ \E v \in Contents : Stamp(f, v)
          \/ \E d \in Ids : AddHolder(f, d) \/ RemoveHolder(f, d)

Spec == Init /\ [][Next]_vars

=============================================================================
