---- MODULE MCConsole ----
(***************************************************************************)
(* Console as TLC checks it; the constants' values are in the .cfg files.  *)
(***************************************************************************)
EXTENDS Console
====
