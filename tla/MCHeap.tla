---- MODULE MCHeap ----
(* Heap for TLC: everything smaller than on a board, in about its proportions. *)
EXTENDS Heap

MCAbove == <<4, 8, 16>>
====
