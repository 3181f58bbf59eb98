---------------------------- MODULE StepSequence ----------------------------
(***************************************************************************)
(* What a generation run promises, whoever drives it: its steps take       *)
(* effect once each and in their order, and none past the barrier step     *)
(* takes effect while a P0 redline closes the barrier.                     *)
(***************************************************************************)
EXTENDS Naturals

CONSTANTS NumSteps, Barrier

VARIABLES
    done,    \* how many steps have taken effect: steps 1..done
    closed   \* does a P0 redline close the barrier?

svars == <<done, closed>>

SInit == done = 0 /\ closed = FALSE

Advance ==
    /\ done < IF closed THEN Barrier ELSE NumSteps
    /\ done' = done + 1
    /\ UNCHANGED closed

Redline == closed' = ~closed /\ UNCHANGED done

SSpec == SInit /\ [][Advance \/ Redline]_svars
=============================================================================
