SPECIFICATION FairSpec
CONSTANTS
    Process <- MachineProcess
    State <- MachineState
    Off = "Off"
    Config <- MachineConfig
    SelfTerminating = {}
    RunDep <- MachineRunDep
    TermDep <- MachineNoDep
    Reporting = {"sm", "app"}
    Attempts <- MachineAttempts
    StateManager = {"sm"}
    Startup = "Startup"
    MachineFG = TRUE
    Impatient = FALSE
    MayCrash = {"sm", "app"}
    MayNotStart = {}
    MayNotAttach = {"app"}
PROPERTIES
    TransitionsConclude
    RequestsAnswered
    ShutdownCompletes
CHECK_DEADLOCK FALSE
