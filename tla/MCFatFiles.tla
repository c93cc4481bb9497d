---- MODULE MCFatFiles ----
(* FatFiles for TLC: one file is read and overwritten, one is appended to. *)
EXTENDS FatFiles

MCModes == [file \in Files |-> IF file \in Seekers THEN {"w+"} ELSE {"a"}]
====
