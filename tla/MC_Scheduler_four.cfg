CONSTANTS
    Pods = {p1, p2, p3, p4}
    Resources <- MCResources
    Zones <- MCZones
    CapacityTypes <- MCCapacityTypes
    InstanceTypes <- MCInstanceTypes
    Capacity <- MCCapacity
    Overhead <- MCOverhead
    ITRequirements <- MCITRequirements
    Offerings <- MCOfferings
    Provisioners <- MCProvisioners
    Taints <- MCTaints
    TaintEffect <- MCTaintEffect
    HostPorts <- MCHostPorts
    Wildcard <- MCWildcard
    TemplateRequirements <- MCTemplateRequirements
    TemplateTaints <- MCTemplateTaints
    StartupTaints <- MCStartupTaints
    DaemonOverhead <- MCDaemonOverhead
    MachineTemplates <- MCMachineTemplates
    ProvisionerInstanceTypes <- MCProvisionerInstanceTypes
    Limits <- MCLimits
    StateNodes <- MCStateNodes
    PodSpecs <- MCFourPodSpecs
    SimulationMode = FALSE
    MaxNodeID = 20
SPECIFICATION Spec
SYMMETRY MCSymmetry
CHECK_DEADLOCK FALSE
INVARIANTS
    NewNodesLaunchable
    PlacedPodsAdmissible
    ProvisionerLimitsRespected
    EveryPodAccountedFor
