CONSTANTS
    Pods = {p1, p2}
    Resources <- MCResources
    Zones <- MCZones
    CapacityTypes <- MCCapacityTypes
    InstanceTypes <- MCInstanceTypes
    Capacity <- MCCapacity
    Overhead <- MCOverhead
    ITRequirements <- MCITRequirements
    Offerings <- MCOfferings
    Provisioners <- MCProvisioners
    Taints <- MCTaints
    TaintEffect <- MCTaintEffect
    HostPorts <- MCHostPorts
    Wildcard <- MCWildcard
    TemplateRequirements <- MCTemplateRequirements
    TemplateTaints <- MCTemplateTaints
    StartupTaints <- MCStartupTaints
    DaemonOverhead <- MCDaemonOverhead
    MachineTemplates <- MCMachineTemplates
    ProvisionerInstanceTypes <- MCProvisionerInstanceTypes
    Limits <- MCLimits
    StateNodes <- MCStateNodes
    PodSpecs <- MCPodSpecs
    SimulationMode = FALSE
    MaxNodeID = 14
SPECIFICATION CSpec
CHECK_DEADLOCK FALSE
INVARIANT CancelledSolveEmitsNothing
