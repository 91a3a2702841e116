------------------------- MODULE SolveCancellation -------------------------
(***************************************************************************)
(* Scheduler.Solve with a caller that may cancel the solve's context at   *)
(* any point while the loop runs. Solve, add and Node.Add pass ctx on but *)
(* never consult it, so the solve's steps are those of Scheduler.         *)
(***************************************************************************)
EXTENDS Scheduler

VARIABLE cancelled   \* the context handed to Solve has been cancelled

cvars == <<vars, cancelled>>

CancelContext ==
    /\ phase = "solving"
    /\ ~cancelled
    /\ cancelled' = TRUE
    /\ UNCHANGED vars

CInit == Init /\ cancelled = FALSE
CNext == (Next /\ UNCHANGED cancelled) \/ CancelContext
CSpec == CInit /\ [][CNext]_cvars

(* spec.md section 5: a cancelled context aborts the current Add and       *)
(* terminates Solve without emitting events. Solve's loop goes on and      *)
(* recordSchedulingResults publishes its events whatever the context.      *)
CancelledSolveEmitsNothing == (phase = "done" /\ cancelled) => published = {}

=============================================================================
