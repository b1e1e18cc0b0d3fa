---------------------------- MODULE MCMetaStore ----------------------------
(***************************************************************************)
(* Small instances of MetaStore.  Two files, so that a rewrite carries the *)
(* line of another file along; a ring of two or three version files: the   *)
(* ten of the code only keep older versions longer.                        *)
(***************************************************************************)
EXTENDS MetaStore

Symmetry == Permutations(Handlers) \cup Permutations(Files) \cup Permutations(Contents)

=============================================================================
