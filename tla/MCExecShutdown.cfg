SPECIFICATION FairSpec
CONSTANTS
    Process <- MachineProcess
    State <- MachineState
    Off = "Off"
    Config <- MachineConfig
    SelfTerminating = {}
    RunDep <- MachineNoDep
    TermDep <- MachineNoDep
    Reporting = {"sm", "app"}
    Attempts <- MachineAttempts
    StateManager = {"sm"}
    Startup = "Startup"
    MachineFG = TRUE
    Impatient = FALSE
    MayCrash = {}
    MayNotStart = {"app"}
    MayNotAttach = {}
PROPERTY
    ShutdownCompletes
CHECK_DEADLOCK FALSE
