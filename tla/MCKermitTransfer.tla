-------------------------- MODULE MCKermitTransfer --------------------------
(***************************************************************************)
(* KermitTransfer for TLC, in three settings checked together.  In a rough *)
(* one everything in Fatal may happen; in a calm one the line loses,       *)
(* damages and delays, but nobody gives up and reads fail only by waiting  *)
(* in vain; and a stale one is calm, with an acknowledgement of an         *)
(* interrupted upload under way as it begins.                              *)
(***************************************************************************)
EXTENDS KermitTransfer

VARIABLE setting

mcVars == <<vars, setting>>

MCInit == \/ Init /\ setting \in {"rough", "calm"}
          \/ StaleInit /\ setting = "stale"

NobodyGivesUp == /\ ~cancel
                 /\ board \notin {"aborted", "dead"}
                 /\ sender \notin {"io", "name", "remote", "cancelled"}

MCNext == /\ Next
          /\ setting # "rough" => NobodyGivesUp' /\ (ReadInterrupted => Quiet)
          /\ UNCHANGED setting

MCSpec == MCInit /\ [][MCNext]_mcVars /\ Fairness

\* In a calm transfer fewer faults than attempts never exhaust send_and_ack,
\* though each late answer costs every later packet an attempt.  The break packet is apart: the board that has taken it is gone.
RetriesSuffice == setting = "calm" => FaultsUnderBudget

\* The upload command ends, whatever the line and the board do; with nobody
\* giving up and fewer faults than attempts the whole file arrives; and one
\* acknowledgement left over from an interrupted upload, though it may be taken
\* for the answer to Send-Init, costs nothing without a fault beside it.
EndsAndArrives ==
    /\ AlwaysEnds
    /\ setting = "calm" => EventuallyDelivered
    /\ setting = "stale" => StaleAloneHarmless
=============================================================================
