----------------------------- MODULE MCContent -----------------------------
(***************************************************************************)
(* Small instances of ContentNetwork: two CDNs, files of size 1, 2 and 3,  *)
(* one or two client slots.  A capacity of 2 has room for f1 or f2 but not *)
(* for both, and never for f3.                                             *)
(***************************************************************************)
EXTENDS ContentInvariants

CONSTANTS r1, r2, f1, f2, f3

\* CDNs and contents are interchangeable in every safety property.
Symmetry == Permutations(Cdns) \cup Permutations(Versions)

\* f3 never fits a capacity of 2.
SizesOf == [f \in Files |-> CASE f = f1 -> 1 [] f = f2 -> 2 [] f = f3 -> 3]

\* One client that reads and writes everything.
Alone == r1 :> {f1, f2, f3}

\* Two clients, each with a file of its own.
Own == (r1 :> {f1}) @@ (r2 :> {f2})

\* Two clients that share f1.
Both      == (r1 :> {f1}) @@ (r2 :> {f1})
FirstOnly == (r1 :> {f1}) @@ (r2 :> {})

\* Two clients that read nothing.
Neither == (r1 :> {}) @@ (r2 :> {})

\* One client uploads f1, the other reads it and uploads f2.
SecondOnly == (r1 :> {}) @@ (r2 :> {f1})

=============================================================================
