---- MODULE FileTransfer ----
(***************************************************************************)
(* What an upload promises, whatever the protocol: the pieces 0..Final of  *)
(* a transfer are stored by the board in order, each exactly once, and     *)
(* the upload is reported as done only when all of them are.  A reported   *)
(* failure promises nothing about what the board still stores afterwards:  *)
(* the answer to the last piece may be the only thing that went missing.   *)
(***************************************************************************)
EXTENDS Naturals, Sequences

CONSTANT Final                \* the last piece; pieces are numbered from 0

VARIABLES
    stored,                   \* the pieces the board has stored, in order
    outcome                   \* what the program has told its user

vars == <<stored, outcome>>

Complete == Len(stored) = Final + 1

Init == stored = <<>> /\ outcome = "running"

Store == /\ Len(stored) <= Final
         /\ stored' = Append(stored, Len(stored))
         /\ UNCHANGED outcome

Succeed == /\ outcome = "running"
           /\ Complete
           /\ outcome' = "done"
           /\ UNCHANGED stored

Fail == /\ outcome = "running"
        /\ outcome' = "failed"
        /\ UNCHANGED stored

Next == Store \/ Succeed \/ Fail

Spec == Init /\ [][Next]_vars
====
