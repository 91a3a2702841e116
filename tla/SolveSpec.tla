----------------------------- MODULE SolveSpec -----------------------------
(***************************************************************************)
(* What Solve promises (spec.md sections 4.7 and 6), with the placement    *)
(* search left out: each pod of the batch is placed at most once, either   *)
(* on a new node or on a named in-flight node, and is never moved; Solve   *)
(* then returns, and outside simulation it publishes one failure event per *)
(* pod left unplaced and one nomination per pod placed on an in-flight     *)
(* node, and nothing else.                                                 *)
(***************************************************************************)
CONSTANTS Pods, ExistingNames, SimulationMode

VARIABLES target, done, events

Pending == "pending"
New == "new"

Init == target = [p \in Pods |-> Pending] /\ ~done /\ events = {}

Place(p, t) ==
    /\ ~done /\ target[p] = Pending
    /\ target' = [target EXCEPT ![p] = t]
    /\ UNCHANGED <<done, events>>

Return ==
    /\ ~done /\ done'
    /\ events' = IF SimulationMode THEN {}
                 ELSE {[kind |-> "PodFailedToSchedule", pod |-> p, node |-> ""] :
                          p \in {q \in Pods : target[q] = Pending}}
                      \cup {[kind |-> "NominatePod", pod |-> p, node |-> target[p]] :
                              p \in {q \in Pods : target[q] \in ExistingNames}}
    /\ UNCHANGED target

Next == (\E p \in Pods, t \in {New} \cup ExistingNames : Place(p, t)) \/ Return

Spec == Init /\ [][Next]_<<target, done, events>>

(* Solve returns to its caller: once called it does not run forever.       *)
(* Placement itself is not promised, so only Return is fair.  Return is    *)
(* enabled exactly while ~done and done is never reset, so its weak        *)
(* fairness is the eventuality <>done, stated so without ENABLED.          *)
LiveSpec == Spec /\ <>done
=============================================================================
