SPECIFICATION Spec
CONSTANTS
    Plans <- EveryPlan
    CaseFiles <- Files
    TopoFiles <- Topologies
    TopoOf <- TopoTable
    Defines <- FunctionTable
    DirOf <- DirTable
    Including <- SourcesNext
    Pushing <- PushesItself
    Root <- RootDir
    NoTopo = "none"
    None = "-"
INVARIANT AtRoot
INVARIANT OwnFunctions
INVARIANT HostClean
INVARIANT OneTopology
PROPERTY RunsTheList
CHECK_DEADLOCK FALSE
