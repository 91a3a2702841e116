-------------------------- MODULE SolveRefinement --------------------------
(***************************************************************************)
(* Scheduler implements SolveSpec.  The refinement mapping reads a pod's   *)
(* target off the nodes that hold it, Solve's return off the loop phase    *)
(* and the events off what recordSchedulingResults published.  A pod that *)
(* fails, is relaxed and pushed back is a stuttering step of SolveSpec.    *)
(***************************************************************************)
EXTENDS Scheduler

OnExisting(p) == {i \in 1 .. Len(existingNodes) : \E j \in DOMAIN existingNodes[i].pods : existingNodes[i].pods[j] = p}
OnNew(p) == \E i \in 1 .. Len(newNodes) : \E j \in DOMAIN newNodes[i].pods : newNodes[i].pods[j] = p

TargetOf(p) ==
    IF OnExisting(p) # {} THEN existingNodes[CHOOSE i \in OnExisting(p) : TRUE].name
    ELSE IF OnNew(p) THEN "new" ELSE "pending"

Abstract == INSTANCE SolveSpec WITH
    target <- [p \in Pods |-> TargetOf(p)],
    done <- (phase = "done"),
    events <- published,
    ExistingNames <- {RecognizedNodes[i].name : i \in 1 .. Len(RecognizedNodes)}

(* Solve places each pod at most once and never moves it, through every    *)
(* failure, relaxation and push back of the loop, and what it publishes on *)
(* return is exactly a failure event per pod left in the queue and a       *)
(* nomination per pod on an in-flight node.                                *)
SolveRefinesAbstract == Abstract!Spec

(* Under the weak fairness of Solve's single goroutine the scheduler also  *)
(* implements SolveSpec's liveness: every solve returns, the queue's      *)
(* progress detection ending the loop through any number of failures,     *)
(* relaxations and push backs.                                             *)
SolveRefinesLiveSpec == Abstract!LiveSpec
=============================================================================
