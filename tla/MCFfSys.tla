------------------------------ MODULE MCFfSys ------------------------------
(* FfSys with names and users that are interchangeable: no definition of it    *)
(* tells them apart, nor does a property. A behaviour is about contents, with    *)
(* no listing, or about listings, with files that stay empty: readdir looks at    *)
(* no field that only reading and writing change.                                 *)
EXTENDS FfSys, TLC

VARIABLE scope

MCInit == Init /\ scope \in {"contents", "listings"}
MCNext ==
  /\ Next /\ UNCHANGED scope
  /\ scope = "contents" => ffs_dir_cnt' = 0
  /\ scope = "listings" => \A s \in Slots : ffs_tbl'[s].len = 0 /\ ffs_tbl'[s].pos = 0
MCSpec == MCInit /\ [][MCNext]_<<vars, scope>>

Symmetric == Permutations(Names) \cup Permutations(Users)

=============================================================================
