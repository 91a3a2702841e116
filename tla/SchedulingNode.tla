--------------------------- MODULE SchedulingNode ---------------------------
(***************************************************************************)
(* The scheduler's node under construction (scheduling.Node, node.go) and  *)
(* the bin-packable view of an in-flight cluster node (ExistingNode).      *)
(*                                                                         *)
(* A node is a record; its operations are operators from a node and the   *)
(* scheduling view of a pod to the node after the call, so the scheduler   *)
(* module can apply them inside one atomic step of its loop.               *)
(***************************************************************************)
EXTENDS InstanceTypes, Sequences

CONSTANTS
    Pods,            \* pod identities of the batch
    Provisioners,    \* provisioner names, one machine template each
    Taints,          \* taints a template or a node may carry
    TaintEffect,     \* [Taints -> {"NoSchedule", "PreferNoSchedule"}]
    HostPorts,       \* [ip, port] pairs a container may expose on the host
    Wildcard,        \* the host IP 0.0.0.0
    TemplateRequirements, \* [Provisioners -> Requirements]
    TemplateTaints,  \* [Provisioners -> SUBSET Taints], MachineTemplate.Taints
    StartupTaints,   \* [Provisioners -> SUBSET Taints]
    DaemonOverhead   \* [Provisioners -> [Resources -> Nat]]

ASSUME TaintEffect \in [Taints -> {"NoSchedule", "PreferNoSchedule"}]
ASSUME TemplateRequirements \in [Provisioners -> Requirements]
ASSUME DaemonOverhead \in [Provisioners -> [Resources -> Nat]]

(* The scheduling view of a pod: its fixed requests, required node         *)
(* affinity, tolerations and host ports, plus the two fields the relaxer  *)
(* changes: the preferred zone terms, heaviest first, and whether the     *)
(* universal PreferNoSchedule toleration has been added.                  *)
PodView == [requests : [Resources -> Nat], required : Requirements,
            preferred : Seq(SUBSET Zones), tolerations : SUBSET Taints,
            tolerateAllPreferNoSchedule : BOOLEAN, hostPorts : SUBSET HostPorts]

(* scheduling.NewPodRequirements: the required terms and the heaviest      *)
(* preferred term, which is treated as required until it is relaxed away. *)
PodRequirements(pv) ==
    [pv.required EXCEPT
        !.zone = IF pv.preferred = <<>> THEN @ ELSE @ \cap Head(pv.preferred)]

(* Taints.Tolerates: every taint, PreferNoSchedule included, tolerated.    *)
Tolerates(taints, pv) ==
    \A t \in taints :
        \/ t \in pv.tolerations
        \/ TaintEffect[t] = "PreferNoSchedule" /\ pv.tolerateAllPreferNoSchedule

(* HostPortUsage: same port, and the same IP or either side 0.0.0.0.       *)
PortsConflict(a, b) ==
    /\ a.port = b.port
    /\ a.ip = b.ip \/ a.ip = Wildcard \/ b.ip = Wildcard

HostPortsValid(used, pv) ==
    \A a \in pv.hostPorts, b \in used : ~PortsConflict(a, b)

-----------------------------------------------------------------------------
(* Node: the template copy with its hostname, the accumulated requests,    *)
(* the surviving instance types and the pods placed on it. hostname 0 is  *)
(* the hostname requirement removed by FinalizeScheduling.                *)
Node == [provisioner : Provisioners, hostname : Nat, taints : SUBSET Taints,
         requirements : Requirements, requests : [Resources -> Nat],
         options : SUBSET InstanceTypes, pods : Seq(Pods),
         hostPorts : SUBSET HostPorts]

NewNode(provisioner, hostname, instanceTypes) ==
    [provisioner |-> provisioner, hostname |-> hostname,
     taints |-> TemplateTaints[provisioner],
     requirements |-> TemplateRequirements[provisioner],
     requests |-> DaemonOverhead[provisioner], options |-> instanceTypes,
     pods |-> <<>>, hostPorts |-> {}]

(* The requirements and requests Add computes before it checks the         *)
(* instance types.                                                         *)
AddRequirements(n, pv) == Intersect(n.requirements, PodRequirements(pv))
(* Fault model: the pod's requests subtracted instead of merged.          *)
AddRequestsSubtracted(n, pv) == [r \in Resources |-> n.requests[r] - pv.requests[r]]
AddRequests(n, pv) == Merge(n.requests, pv.requests)
AddOptions(n, pv) ==
    filterInstanceTypesByRequirements(n.options, AddRequirements(n, pv), AddRequests(n, pv))

(* The checks of Node.Add, in order; Add fails on the first that fails.    *)
CanAdd(n, pv) ==
    /\ Tolerates(n.taints, pv)
    /\ HostPortsValid(n.hostPorts, pv)
    /\ Intersects(n.requirements, PodRequirements(pv))
    /\ AddOptions(n, pv) # {}

(* Fault models: the narrowed requirements, or the pod's host ports, not   *)
(* stored on the node.                                                     *)
AddPodKeepsRequirements(n, p, pv) ==
    [n EXCEPT !.pods = Append(@, p), !.options = AddOptions(n, pv),
              !.requests = AddRequests(n, pv), !.hostPorts = @ \cup pv.hostPorts]
AddPodDropsHostPorts(n, p, pv) ==
    [n EXCEPT !.pods = Append(@, p), !.options = AddOptions(n, pv),
              !.requests = AddRequests(n, pv), !.requirements = AddRequirements(n, pv)]

(* The node after a successful Add of pod p.                               *)
AddPod(n, p, pv) ==
    [n EXCEPT !.pods = Append(@, p),
              !.options = AddOptions(n, pv),
              !.requests = AddRequests(n, pv),
              !.requirements = AddRequirements(n, pv),
              !.hostPorts = @ \cup pv.hostPorts]

(* Fault model: the requirements rebuilt from the template.               *)
FinalizeSchedulingFromTemplate(n) ==
    [n EXCEPT !.hostname = 0, !.requirements = TemplateRequirements[n.provisioner]]
FinalizeScheduling(n) == [n EXCEPT !.hostname = 0]

-----------------------------------------------------------------------------
(* ExistingNode: an in-flight node. Its requirements are its labels, its   *)
(* taints the template's startup taints, its requests the daemon overhead *)
(* plus what its pods already request, its capacity the node's.          *)
ExistingNode == [name : STRING, provisioner : Provisioners, taints : SUBSET Taints,
                 requirements : Requirements, requests : [Resources -> Nat],
                 capacity : [Resources -> Nat], pods : Seq(Pods),
                 hostPorts : SUBSET HostPorts]

CanAddExisting(e, pv) ==
    /\ Tolerates(e.taints, pv)
    /\ HostPortsValid(e.hostPorts, pv)
    /\ Intersects(e.requirements, PodRequirements(pv))
    /\ Fits(Merge(e.requests, pv.requests), e.capacity)

AddPodExisting(e, p, pv) ==
    [e EXCEPT !.pods = Append(@, p),
              !.requests = Merge(@, pv.requests),
              !.hostPorts = @ \cup pv.hostPorts]

=============================================================================
