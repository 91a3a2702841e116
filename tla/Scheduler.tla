------------------------------ MODULE Scheduler ------------------------------
(***************************************************************************)
(* Scheduler.Solve (provisioning/scheduling/scheduler.go): one solve of a  *)
(* batch of pods against the in-flight nodes, the nodes under              *)
(* construction and the machine templates, with preference relaxation,    *)
(* the progress-detecting work queue and the provisioner limits.           *)
(*                                                                         *)
(* Solve is single-threaded: each step below is one iteration of its loop, *)
(* the whole of s.add included, and Finish is what follows the loop.       *)
(***************************************************************************)
EXTENDS SchedulingNode, TLC
LOCAL INSTANCE SequencesExt

CONSTANTS
    MachineTemplates,         \* Seq(Provisioners), declaration order
    ProvisionerInstanceTypes, \* [Provisioners -> SUBSET InstanceTypes]
    Limits,          \* provisioner name -> limited key -> quantity (Spec.Limits set)
    StateNodes,      \* Seq of the cluster-state nodes at solve start
    PodSpecs,        \* SUBSET PodView, the pods a batch may contain
    SimulationMode,  \* SchedulerOptions.SimulationMode
    MaxNodeID        \* bound on the hostname counter, never reached by a terminating solve

ASSUME MachineTemplates \in Seq(Provisioners)
ASSUME DOMAIN Limits \subseteq Provisioners
ASSUME {"cpu", "memory"} \subseteq Resources
ASSUME SimulationMode \in BOOLEAN
ASSUME MaxNodeID \in Nat

VARIABLES
    queue,         \* Queue.pods
    lastLen,       \* Queue.lastLen; 0 is the missing map entry
    pods,          \* the scheduling view of each pod, mutated by Relax
    errors,        \* Solve's errors map: "unset", "nil" or "err"
    newNodes,      \* s.newNodes
    existingNodes, \* s.existingNodes
    remaining,     \* s.remainingResources
    nodeID,        \* the process-wide hostname counter
    phase,         \* "solving" until the loop exits, then "done"
    published,     \* events handed to the recorder
    nominated      \* node names passed to cluster.NominateNodeForPod

vars == <<queue, lastLen, pods, errors, newNodes, existingNodes, remaining,
          nodeID, phase, published, nominated>>

EmptyBudget == [k \in {} |-> 0]

-----------------------------------------------------------------------------
(* NewScheduler and calculateExistingMachines.                             *)

(* True when some provisioner declares a PreferNoSchedule taint.           *)
ToleratePreferNoSchedule ==
    \E p \in Provisioners : \E t \in TemplateTaints[p] : TaintEffect[t] = "PreferNoSchedule"

TemplateProvisioners == {MachineTemplates[i] : i \in 1..Len(MachineTemplates)}

(* The state nodes launched by a provisioner this solve has a template of. *)
Recognized(sn) == sn.provisioner \in TemplateProvisioners
RecognizedNodes == SelectSeq(StateNodes, Recognized)

ExistingCapacity(p, k) ==
    FoldLeft(LAMBDA acc, sn : acc + sn.capacity[k], 0,
             SelectSeq(StateNodes, LAMBDA sn : sn.provisioner = p /\ Recognized(sn)))

(* The limits minus the capacity of every recognized node; a provisioner  *)
(* without limits that has such a node gets an empty budget (Subtract of  *)
(* a nil list).                                                            *)
InitialRemaining ==
    [p \in DOMAIN Limits \cup {RecognizedNodes[i].provisioner : i \in 1..Len(RecognizedNodes)} |->
        IF p \in DOMAIN Limits
        THEN [k \in DOMAIN Limits[p] |-> Limits[p][k] - ExistingCapacity(p, k)]
        ELSE EmptyBudget]

NewExistingNode(sn) ==
    [name |-> sn.name, provisioner |-> sn.provisioner,
     taints |-> StartupTaints[sn.provisioner], requirements |-> sn.requirements,
     requests |-> Merge(sn.requested, DaemonOverhead[sn.provisioner]),
     capacity |-> sn.capacity, pods |-> <<>>, hostPorts |-> sn.hostPorts]

(* byCPUAndMemoryDescending                                               *)
Before(a, b) ==
    \/ a.requests["cpu"] > b.requests["cpu"]
    \/ /\ a.requests["cpu"] = b.requests["cpu"]
       /\ a.requests["memory"] > b.requests["memory"]

(* NewQueue's sort.Slice is not stable: any order the comparison allows.   *)
NewQueueOrders(views) ==
    {s \in SetToSeqs(Pods) :
        \A i, j \in 1..Len(s) : i < j => ~Before(views[s[j]], views[s[i]])}

Init ==
    /\ pods \in [Pods -> PodSpecs]
    /\ queue \in NewQueueOrders(pods)
    /\ lastLen = [p \in Pods |-> 0]
    /\ errors = [p \in Pods |-> "unset"]
    /\ newNodes = <<>>
    /\ existingNodes = [i \in 1..Len(RecognizedNodes) |-> NewExistingNode(RecognizedNodes[i])]
    /\ remaining = InitialRemaining
    /\ nodeID = 0
    /\ phase = "solving"
    /\ published = {}
    /\ nominated = {}

-----------------------------------------------------------------------------
(* Preferences.Relax: one step per call, in the fixed order.               *)
CanRelax(pv) ==
    \/ pv.preferred # <<>>
    \/ ToleratePreferNoSchedule /\ ~pv.tolerateAllPreferNoSchedule

Relax(pv) ==
    IF pv.preferred # <<>> THEN [pv EXCEPT !.preferred = Tail(@)]
    ELSE [pv EXCEPT !.tolerateAllPreferNoSchedule = TRUE]

(* Queue.Pop succeeds unless the head was last pushed at this length.      *)
CanPop == queue # <<>> /\ lastLen[Head(queue)] # Len(queue)

-----------------------------------------------------------------------------
(* s.add, creating a node: the machine templates from index i on, with the *)
(* hostname counter at id. NewNode takes a hostname whether or not the    *)
(* pod then fits.  Every template tried appends to errs, so errs is nil    *)
(* (err FALSE) only when there is no template at all.                      *)
TemplateInstanceTypes(p) ==
    IF p \in DOMAIN remaining
    THEN filterByRemainingResources(ProvisionerInstanceTypes[p], remaining[p])
    ELSE ProvisionerInstanceTypes[p]

RECURSIVE CreateNode(_, _, _, _)
CreateNode(p, pv, i, id) ==
    IF i > Len(MachineTemplates) THEN [ok |-> FALSE, err |-> Len(MachineTemplates) > 0, nodeID |-> id]
    ELSE LET prov == MachineTemplates[i]
             its == TemplateInstanceTypes(prov)
             n == NewNode(prov, id + 1, its)
         IN IF prov \in DOMAIN remaining /\ its = {} THEN CreateNode(p, pv, i + 1, id)
            ELSE IF CanAdd(n, pv)
                 THEN [ok |-> TRUE, node |-> AddPod(n, p, pv), nodeID |-> id + 1]
                 ELSE CreateNode(p, pv, i + 1, id + 1)

(* sort.Slice by ascending pod count, unstable: any sorted permutation.    *)
SortedByPods(s) ==
    {[i \in 1..Len(s) |-> s[perm[i]]] : perm \in
        {q \in SetToSeqs(1..Len(s)) :
            \A i, j \in 1..Len(s) : i < j => Len(s[q[i]].pods) <= Len(s[q[j]].pods)}}

Budget(p) == IF p \in DOMAIN remaining THEN remaining[p] ELSE EmptyBudget

-----------------------------------------------------------------------------
(* The outcome of one iteration for the popped pod p.                      *)

(* errors[pod] = nil: the pod leaves the queue.                           *)
\* Mutant: the continue after a successful add left out, so a placed pod
\* is pushed back to the queue as if it had failed.
PlacedNoContinue(p) ==
    /\ errors' = [errors EXCEPT ![p] = "nil"]
    /\ queue' = Append(Tail(queue), p)
    /\ lastLen' = [lastLen EXCEPT ![p] = Len(queue)]
    /\ UNCHANGED pods

Placed(p) ==
    /\ errors' = [errors EXCEPT ![p] = "nil"]
    /\ queue' = Tail(queue)
    /\ UNCHANGED <<lastLen, pods>>

(* Fault models: a pod Relax cannot change dropped from the queue, and a  *)
(* push that always resets the progress record.                           *)
FailedDropsUnrelaxed(p) ==
    /\ errors' = [errors EXCEPT ![p] = "err"]
    /\ \/ /\ CanRelax(pods[p])
          /\ queue' = Append(Tail(queue), p)
          /\ pods' = [pods EXCEPT ![p] = Relax(@)]
          /\ lastLen' = [q \in Pods |-> 0]
       \/ /\ ~CanRelax(pods[p])
          /\ queue' = Tail(queue)
          /\ UNCHANGED <<pods, lastLen>>
FailedResetsProgress(p) ==
    /\ errors' = [errors EXCEPT ![p] = "err"]
    /\ queue' = Append(Tail(queue), p)
    /\ lastLen' = [q \in Pods |-> 0]
    /\ pods' = [pods EXCEPT ![p] = IF CanRelax(@) THEN Relax(@) ELSE @]

(* errors[pod] = err; relax, push back, and Topology.Update if relaxed.    *)
Failed(p) ==
    /\ errors' = [errors EXCEPT ![p] = "err"]
    /\ queue' = Append(Tail(queue), p)
    /\ \/ /\ CanRelax(pods[p])
          /\ pods' = [pods EXCEPT ![p] = Relax(@)]
          /\ lastLen' = [q \in Pods |-> 0]
       \/ /\ ~CanRelax(pods[p])
          /\ lastLen' = [lastLen EXCEPT ![p] = Len(queue)]
          /\ UNCHANGED pods

(* s.add succeeds on the first in-flight node that takes the pod.          *)
AddToExisting(p, pv) ==
    LET e == SelectInSeq(existingNodes, LAMBDA n : CanAddExisting(n, pv))
    IN /\ e # 0
       /\ existingNodes' = [existingNodes EXCEPT ![e] = AddPodExisting(@, p, pv)]
       /\ Placed(p)
       /\ UNCHANGED <<newNodes, remaining, nodeID>>

(* No in-flight node takes it: sort the new nodes, try them in order, then *)
(* the templates; a created node reserves its largest capacity.           *)
AddToNew(p, pv) ==
    /\ SelectInSeq(existingNodes, LAMBDA n : CanAddExisting(n, pv)) = 0
    /\ UNCHANGED existingNodes
    /\ \E sorted \in SortedByPods(newNodes) :
        LET j == SelectInSeq(sorted, LAMBDA n : CanAdd(n, pv))
            created == CreateNode(p, pv, 1, nodeID)
        IN \/ /\ j # 0
              /\ newNodes' = [sorted EXCEPT ![j] = AddPod(@, p, pv)]
              /\ Placed(p)
              /\ UNCHANGED <<remaining, nodeID>>
           \/ /\ j = 0
              /\ created.ok
              /\ newNodes' = Append(sorted, created.node)
              /\ remaining' = (created.node.provisioner :>
                     subtractMax(Budget(created.node.provisioner), created.node.options))
                     @@ remaining
              /\ nodeID' = created.nodeID
              /\ Placed(p)
           \/ /\ j = 0
              /\ ~created.ok
              /\ newNodes' = sorted
              /\ nodeID' = created.nodeID
              /\ IF created.err THEN Failed(p) ELSE Placed(p)
              /\ UNCHANGED remaining

(* One iteration of Solve's loop.                                          *)
SchedulePod ==
    /\ phase = "solving"
    /\ CanPop
    /\ nodeID + Len(MachineTemplates) <= MaxNodeID
    /\ LET p == Head(queue) IN
        \/ AddToExisting(p, pods[p])
        \/ AddToNew(p, pods[p])
    /\ UNCHANGED <<phase, published, nominated>>

(* recordSchedulingResults                                                 *)
FailureEvents ==
    {[kind |-> "PodFailedToSchedule", pod |-> queue[i], node |-> ""] : i \in 1..Len(queue)}
NominationEvents ==
    UNION {{[kind |-> "NominatePod", pod |-> existingNodes[i].pods[j],
             node |-> existingNodes[i].name] : j \in 1..Len(existingNodes[i].pods)} :
           i \in 1..Len(existingNodes)}

(* The loop has exited: finalize the new nodes and report the results.     *)
Finish ==
    /\ phase = "solving"
    /\ ~CanPop
    /\ phase' = "done"
    /\ newNodes' = [i \in 1..Len(newNodes) |-> FinalizeScheduling(newNodes[i])]
    /\ IF SimulationMode
       THEN UNCHANGED <<published, nominated>>
       ELSE /\ published' = FailureEvents \cup NominationEvents
            /\ nominated' = {existingNodes[i].name : i \in
                                {j \in 1..Len(existingNodes) : existingNodes[j].pods # <<>>}}
    /\ UNCHANGED <<queue, lastLen, pods, errors, existingNodes, remaining, nodeID>>

Next == SchedulePod \/ Finish

(* Solve runs to completion on one goroutine: nothing in it blocks.        *)
Spec == Init /\ [][Next]_vars /\ WF_vars(Next)

-----------------------------------------------------------------------------
(* Properties.                                                              *)

Event == [kind : {"PodFailedToSchedule", "NominatePod"}, pod : Pods, node : STRING]

TypeOK ==
    /\ queue \in Seq(Pods)
    /\ lastLen \in [Pods -> Nat]
    /\ pods \in [Pods -> PodView]
    /\ errors \in [Pods -> {"unset", "nil", "err"}]
    /\ newNodes \in Seq(Node)
    /\ existingNodes \in Seq(ExistingNode)
    /\ DOMAIN remaining \subseteq Provisioners
    /\ nodeID \in Nat
    /\ phase \in {"solving", "done"}
    /\ published \subseteq Event
    /\ nominated \subseteq STRING

(* What the pods placed on a node add up to, computed afresh from the pods *)
(* rather than from what Add accumulated.                                  *)
RequestedBy(n) ==
    FoldLeft(LAMBDA acc, p : Merge(acc, pods[p].requests), DaemonOverhead[n.provisioner], n.pods)
RequiredBy(n) ==
    FoldLeft(LAMBDA acc, p : Intersect(acc, PodRequirements(pods[p])),
             TemplateRequirements[n.provisioner], n.pods)

(* Every node Solve will ask the cloud provider to launch can be launched  *)
(* as any of its remaining instance types: the type admits what all its   *)
(* pods, the daemons and its own overhead need, and has an available      *)
(* offering in a zone and capacity type every one of its pods accepts.    *)
(* Add narrows the options pod by pod against the running totals, so a    *)
(* total or requirement not carried from one Add to the next breaks it.   *)
NewNodesLaunchable ==
    \A i \in 1..Len(newNodes) :
        LET n == newNodes[i] IN
        /\ n.pods # <<>>
        /\ n.options # {}
        /\ \A it \in n.options :
            /\ fits(it, RequestedBy(n))
            /\ compatible(it, RequiredBy(n))
            /\ hasOffering(it, RequiredBy(n))

(* Every pod placed on a node, new or in flight, is admissible there with  *)
(* every other pod placed on it: it tolerates the node's taints, none of  *)
(* its host ports collides with those of the node's other pods (0.0.0.0   *)
(* colliding with every IP), and an in-flight node's labels satisfy it and *)
(* its capacity holds all of them.                                         *)
PortsOf(n, i) == pods[n.pods[i]].hostPorts
PodsShareNoPort(n, used) ==
    \A i \in 1..Len(n.pods) :
        /\ \A a \in PortsOf(n, i), b \in used : ~PortsConflict(a, b)
        /\ \A j \in 1..Len(n.pods) \ {i} :
              \A a \in PortsOf(n, i), b \in PortsOf(n, j) : ~PortsConflict(a, b)

PlacedPodsAdmissible ==
    /\ \A i \in 1..Len(newNodes) :
        /\ \A j \in 1..Len(newNodes[i].pods) :
              Tolerates(newNodes[i].taints, pods[newNodes[i].pods[j]])
        /\ PodsShareNoPort(newNodes[i], {})
    /\ \A i \in 1..Len(existingNodes) :
        LET e == existingNodes[i]
            sn == RecognizedNodes[i]
        IN /\ \A j \in 1..Len(e.pods) :
                /\ Tolerates(e.taints, pods[e.pods[j]])
                /\ Intersects(sn.requirements, PodRequirements(pods[e.pods[j]]))
           /\ PodsShareNoPort(e, sn.hostPorts)
           /\ Fits(FoldLeft(LAMBDA acc, p : Merge(acc, pods[p].requests),
                            Merge(sn.requested, DaemonOverhead[sn.provisioner]), e.pods),
                   sn.capacity)

(* A limited provisioner never commits more than its limit: the capacity  *)
(* of its in-flight nodes plus, for each new node, the largest capacity   *)
(* among the instance types it may still launch as, key by key, stays     *)
(* within the limit whenever it has new nodes at all.                     *)
NodeMax(n, k) == IF n.options = {} THEN 0 ELSE MaxCapacity(n.options, k)
ProvisionerLimitsRespected ==
    \A p \in DOMAIN Limits : \A k \in DOMAIN Limits[p] :
        LET mine == SelectSeq(newNodes, LAMBDA n : n.provisioner = p) IN
        mine # <<>> =>
            ExistingCapacity(p, k) + FoldLeft(LAMBDA acc, n : acc + NodeMax(n, k), 0, mine)
                <= Limits[p][k]

(* Every pod of the batch is, at every iteration, either waiting in the    *)
(* queue or placed on exactly one node, and never both; when Solve has    *)
(* returned, each pod left in the queue carries an error and, outside     *)
(* simulation, a failure event.                                           *)
Occurrences(s, p) == Cardinality({i \in 1..Len(s) : s[i] = p})
Placements(p) ==
    FoldLeft(LAMBDA acc, n : acc + Occurrences(n.pods, p), 0, newNodes)
    + FoldLeft(LAMBDA acc, e : acc + Occurrences(e.pods, p), 0, existingNodes)

EveryPodAccountedFor ==
    /\ \A p \in Pods : Occurrences(queue, p) + Placements(p) = 1
    /\ phase = "done" =>
        \A i \in 1..Len(queue) :
            /\ errors[queue[i]] = "err"
            /\ ~SimulationMode =>
                  [kind |-> "PodFailedToSchedule", pod |-> queue[i], node |-> ""] \in published

(* A node under construction only ever narrows: no step removes it, drops *)
(* a pod from it, or lets back an instance type or a zone it had lost.    *)
InstanceTypeOptionsNarrow ==
    [][\A i \in 1..Len(newNodes) : \E j \in 1..Len(newNodes') :
          /\ newNodes'[j].hostname \in {newNodes[i].hostname, 0}
          /\ newNodes'[j].provisioner = newNodes[i].provisioner
          /\ IsPrefix(newNodes[i].pods, newNodes'[j].pods)
          /\ newNodes'[j].options \subseteq newNodes[i].options
          /\ newNodes'[j].requirements.zone \subseteq newNodes[i].requirements.zone]_vars

(* spec.md section 8, "Idempotence under empty input": Solve([]) returns   *)
(* no new nodes and no in-flight nodes. Solve returns s.existingNodes,     *)
(* which NewScheduler filled from the cluster state before any pod.       *)
EmptySolveReturnsNothing ==
    (phase = "done" /\ Pods = {}) => newNodes = <<>> /\ existingNodes = <<>>

=============================================================================
