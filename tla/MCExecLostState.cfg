SPECIFICATION Spec
CONSTANTS
    Process <- GroupProcess
    State <- GroupState
    Off = "Off"
    Config <- GroupConfig
    SelfTerminating = {"workerNight"}
    RunDep <- GroupRunDep
    TermDep <- GroupTermDep
    Reporting = {"server"}
    Attempts <- GroupAttempts
    StateManager = {}
    Startup = "Day"
    MachineFG = FALSE
    Impatient = TRUE
    MayCrash = {"server"}
    MayNotStart = {"worker"}
    MayNotAttach = {}
INVARIANT
    CompletedStateIsSet
CHECK_DEADLOCK FALSE
