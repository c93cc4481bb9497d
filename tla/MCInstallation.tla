---- MODULE MCInstallation ----
(***************************************************************************)
(* Installation as TLC checks it.  Processes are interchangeable.          *)
(***************************************************************************)
EXTENDS Installation, TLC

Interchangeable == Permutations(Procs)
====
