\* Every file of the two kinds in every environment, and the wizard before
\* another command.
SPECIFICATION SetupSpec
CONSTANTS
    Commands <- AllCommands
    Files <- FilesAndLive
    EnvVars <- AllEnvVars
    WizardFinds <- Live
    WizardEnvs <- SomeEnvs
    Cuts <- SomeCuts
INVARIANTS
    StartupTypeOK
    NamelessOnlyByDatabaseURL
    PasswordIsFromItsPlace
    LoopIsConfigured
    TestedIsUsed
    KillsAsAsked
PROPERTIES
    ChannelsNeverBlock
CHECK_DEADLOCK FALSE
