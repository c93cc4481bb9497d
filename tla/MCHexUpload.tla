---- MODULE MCHexUpload ----
(***************************************************************************)
(* The bounds for TLC: which faults may happen, and how often.             *)
(***************************************************************************)
EXTENDS HexUpload

BudgetOf(checksum, garble, lose, slow, die, reset) ==
    [k \in Kinds |-> CASE k = "checksum" -> checksum
                       [] k = "garble" -> garble
                       [] k = "lose" -> lose
                       [] k = "slow" -> slow
                       [] k = "die" -> die
                       [] k = "reset" -> reset]

MCEverything == BudgetOf(1, 1, 1, 1, 1, 1)
====
