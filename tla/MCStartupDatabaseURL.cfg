\* The quick start of README.md: no file, DATABASE_URL set, pguard status.
SPECIFICATION SetupSpec
CONSTANTS
    Commands <- StatusOnly
    Files <- NoFiles
    EnvVars <- UrlOnly
    WizardFinds <- NoFiles
    WizardEnvs <- NoEnvs
    Cuts <- NoFiles
INVARIANTS
    DatabaseURLIsUsed
CHECK_DEADLOCK FALSE
