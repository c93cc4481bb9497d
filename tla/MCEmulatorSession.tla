---- MODULE MCEmulatorSession ----
(***************************************************************************)
(* EmulatorSession as TLC checks it; the constants' values are in the      *)
(* .cfg files.                                                             *)
(***************************************************************************)
EXTENDS EmulatorSession
====
