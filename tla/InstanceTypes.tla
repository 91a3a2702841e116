--------------------------- MODULE InstanceTypes ---------------------------
(***************************************************************************)
(* Instance-type filtering and provisioner-limit arithmetic of the         *)
(* scheduler (provisioning/scheduling/node.go and scheduler.go).           *)
(*                                                                         *)
(* A resource list is a function from Resources to integers; a missing key *)
(* of a Go v1.ResourceList is the zero quantity, so every list here is     *)
(* total on Resources except the remaining-resource budgets, whose domain  *)
(* is the set of keys the provisioner limits.                              *)
(* A requirement set is abstracted to the two keys the code reads itself,  *)
(* the zone and the capacity type, each the set of values still allowed    *)
(* (the whole value set when the key is unconstrained).                    *)
(***************************************************************************)
EXTENDS Integers, FiniteSets

CONSTANTS
    Resources,       \* resource names, e.g. cpu and memory
    Zones,           \* values of topology.kubernetes.io/zone
    CapacityTypes,   \* values of karpenter.sh/capacity-type
    InstanceTypes,   \* instance-type names offered by the cloud provider
    Capacity,        \* [InstanceTypes -> [Resources -> Nat]]
    Overhead,        \* [InstanceTypes -> [Resources -> Nat]], Overhead.Total()
    ITRequirements,  \* [InstanceTypes -> Requirements]
    Offerings        \* [InstanceTypes -> SUBSET Offering]

Requirements == [zone : SUBSET Zones, capacityType : SUBSET CapacityTypes]
Offering == [zone : Zones, capacityType : CapacityTypes, available : BOOLEAN]

ASSUME Capacity \in [InstanceTypes -> [Resources -> Nat]]
ASSUME Overhead \in [InstanceTypes -> [Resources -> Nat]]
ASSUME ITRequirements \in [InstanceTypes -> Requirements]
ASSUME Offerings \in [InstanceTypes -> SUBSET Offering]

(* resources.Merge: the elementwise sum of two resource lists.             *)
Merge(a, b) == [r \in Resources |-> a[r] + b[r]]

(* resources.Fits: every requested quantity is within the total.           *)
Fits(candidate, total) == \A r \in Resources : candidate[r] <= total[r]

(* Requirements.Intersects: no key is driven to the empty set.             *)
Intersects(a, b) ==
    /\ a.zone \cap b.zone # {}
    /\ a.capacityType \cap b.capacityType # {}

(* Requirements.Add: the per-key intersection of two requirement sets.     *)
Intersect(a, b) ==
    [zone |-> a.zone \cap b.zone, capacityType |-> a.capacityType \cap b.capacityType]

compatible(it, requirements) == Intersects(ITRequirements[it], requirements)

fits(it, requests) == Fits(Merge(requests, Overhead[it]), Capacity[it])

(* An available offering whose zone and capacity type the requirements    *)
(* allow; an unconstrained key allows every value.                         *)
hasOffering(it, requirements) ==
    \E o \in Offerings[it] :
        /\ o.available
        /\ o.zone \in requirements.zone
        /\ o.capacityType \in requirements.capacityType

filterInstanceTypesByRequirements(instanceTypes, requirements, requests) ==
    {it \in instanceTypes : /\ compatible(it, requirements)
                            /\ fits(it, requests)
                            /\ hasOffering(it, requirements)}

(* The instance types whose capacity is within the remaining budget on     *)
(* every key the budget has.                                               *)
filterByRemainingResources(instanceTypes, remaining) ==
    {it \in instanceTypes :
        \A k \in DOMAIN remaining : Capacity[it][k] <= remaining[k]}

(* resources.MaxResources restricted to one key.                           *)
MaxCapacity(instanceTypes, k) ==
    CHOOSE m \in {Capacity[it][k] : it \in instanceTypes} :
        \A it \in instanceTypes : Capacity[it][k] <= m

(* Fault model: the smallest capacity reserved instead of the largest.    *)
MinCapacity(instanceTypes, k) ==
    CHOOSE m \in {Capacity[it][k] : it \in instanceTypes} :
        \A it \in instanceTypes : m <= Capacity[it][k]
subtractMin(remaining, instanceTypes) ==
    IF instanceTypes = {} THEN remaining
    ELSE [k \in DOMAIN remaining |-> remaining[k] - MinCapacity(instanceTypes, k)]

(* The budget after pessimistically reserving the largest capacity, key by *)
(* key, of the instance types a new node may still launch as.              *)
subtractMax(remaining, instanceTypes) ==
    IF instanceTypes = {} THEN remaining
    ELSE [k \in DOMAIN remaining |-> remaining[k] - MaxCapacity(instanceTypes, k)]

(* resources.Subtract: keys of lhs only, a missing rhs key is zero.        *)
Subtract(lhs, rhs) == [k \in DOMAIN lhs |-> lhs[k] - rhs[k]]

=============================================================================
