---------------------------- MODULE MC_Scheduler ----------------------------
(***************************************************************************)
(* A cluster for model checking Scheduler: two resources, two zones, two  *)
(* capacity types, a small and a large instance type whose capacities are *)
(* not ordered (so the largest capacity is taken key by key), a limited   *)
(* default provisioner with one in-flight node and an unlimited one whose *)
(* nodes carry a PreferNoSchedule taint and only exist in zone z2.        *)
(***************************************************************************)
EXTENDS Scheduler

R(cpu, memory) == ("cpu" :> cpu) @@ ("memory" :> memory)

MCResources == {"cpu", "memory"}
MCZones == {"z1", "z2"}
MCCapacityTypes == {"spot", "on-demand"}
MCInstanceTypes == {"small", "large"}
MCCapacity == ("small" :> R(2, 4)) @@ ("large" :> R(4, 2))
MCOverhead == ("small" :> R(0, 1)) @@ ("large" :> R(0, 0))
Offer(z, ct, av) == [zone |-> z, capacityType |-> ct, available |-> av]
MCOfferings ==
    ("small" :> {Offer("z1", "on-demand", TRUE), Offer("z2", "spot", TRUE)})
    @@ ("large" :> {Offer("z2", "on-demand", TRUE), Offer("z1", "on-demand", FALSE)})
(* An instance type's zone and capacity-type requirements list the values *)
(* of all its offerings, available or not.                                *)
MCITRequirements ==
    [it \in MCInstanceTypes |->
        [zone |-> {o.zone : o \in MCOfferings[it]},
         capacityType |-> {o.capacityType : o \in MCOfferings[it]}]]

MCProvisioners == {"default", "tainted"}
MCTaints == {"startup", "prefer"}
MCTaintEffect == ("startup" :> "NoSchedule") @@ ("prefer" :> "PreferNoSchedule")
MCWildcard == "0.0.0.0"
MCHostPorts == {[ip |-> MCWildcard, port |-> 80], [ip |-> "10.0.0.1", port |-> 80]}
MCTemplateRequirements ==
    ("default" :> [zone |-> MCZones, capacityType |-> MCCapacityTypes])
    @@ ("tainted" :> [zone |-> {"z2"}, capacityType |-> MCCapacityTypes])
MCTemplateTaints == ("default" :> {}) @@ ("tainted" :> {"prefer"})
MCStartupTaints == ("default" :> {"startup"}) @@ ("tainted" :> {})
MCDaemonOverhead == ("default" :> R(0, 1)) @@ ("tainted" :> R(0, 0))
MCMachineTemplates == <<"default", "tainted">>
(* No provisioner has a machine template: Solve called with none.      *)
MCNoTemplates == << >>
MCProvisionerInstanceTypes == [p \in MCProvisioners |-> MCInstanceTypes]
MCLimits == "default" :> R(8, 12)
MCStateNodes ==
    << [name |-> "inflight-1", provisioner |-> "default", capacity |-> R(2, 4),
        requested |-> R(1, 1), hostPorts |-> {},
        requirements |-> [zone |-> {"z1"}, capacityType |-> {"on-demand"}]],
       [name |-> "foreign-1", provisioner |-> "unmanaged", capacity |-> R(8, 8),
        requested |-> R(0, 0), hostPorts |-> {},
        requirements |-> [zone |-> {"z2"}, capacityType |-> {"spot"}]] >>

(* Pods request one or two CPUs, may require zone z1, may prefer zone z2, *)
(* may tolerate the startup taint and may expose host port 80.            *)
MCPodSpecs ==
    {[requests |-> R(cpu, 1), required |-> req, preferred |-> pref,
      tolerations |-> tol, tolerateAllPreferNoSchedule |-> FALSE, hostPorts |-> hp] :
        cpu \in {1, 2},
        req \in {[zone |-> MCZones, capacityType |-> MCCapacityTypes],
                 [zone |-> {"z1"}, capacityType |-> MCCapacityTypes]},
        pref \in {<<>>, <<{"z2"}>>},
        tol \in {{}, {"startup"}},
        hp \in {{}} \cup {{h} : h \in MCHostPorts}}

(* The pods of the termination run: two CPUs, no startup toleration and no *)
(* specific IP, which keeps the run small enough to check without symmetry. *)
MCLivePodSpecs ==
    {pv \in MCPodSpecs : /\ pv.tolerations = {}
                         /\ pv.requests["cpu"] = 2
                         /\ pv.hostPorts \subseteq {[ip |-> MCWildcard, port |-> 80]}}

(* Shapes for the four-pod run: both CPU sizes, no startup toleration and *)
(* no host port on the specific IP.                                        *)
MCFourPodSpecs ==
    {pv \in MCPodSpecs : /\ pv.tolerations = {}
                         /\ pv.hostPorts \subseteq {[ip |-> MCWildcard, port |-> 80]}}

MCSymmetry == Permutations(Pods)

=============================================================================
