----------------------------- MODULE MCThreadPool -----------------------------
(* Small instances of ThreadPool for TLC. *)
EXTENDS ThreadPool, TLC

(* Tasks are interchangeable, and so are thread identities; used in the    *)
(* runs that check no liveness.                                            *)
Symmetry == Permutations(Task) \cup Permutations(Thread)
===============================================================================
