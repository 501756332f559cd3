-------------------------------- MODULE MCGit0 -------------------------------
(* Objects cat-file may read: a blob of two bytes and a tree of one. *)
EXTENDS Git0

MCObjects == {[type |-> "blob", size |-> 2], [type |-> "tree", size |-> 1]}
====
