---------------------------- MODULE StartupProofs ----------------------------
(***************************************************************************)
(* The start of a command, the wizard, and the command after it, for every *)
(* set of files, environment variables and cut-off points.                 *)
(***************************************************************************)
EXTENDS Configure, FiniteSetTheorems, TLAPS

Loaded == [url : Source, host : Source, password : Source, method : AuthMethod,
           secret : {"", "file"}, passwordEnv : {"", "DB_PASS", "PGPASSWORD"},
           slack : BOOLEAN, slackURL : Source, slackSecret : {"", "file"},
           webhook : BOOLEAN, webhookURL : Source,
           ordered : BOOLEAN, ticking : BOOLEAN, enabled : BOOLEAN, dryRun : BOOLEAN]

\* The places of the wizard, in its order: until its test is over, and after.
Testing == {"auth", "askTest", "connect", "password", "ping", "askAnyway"}
Settled == {"thresholds", "askSlack", "askWebhook", "termination", "save"}

\* Who can be where.
PlaceInv ==
    /\ pc \in {"load", "validate", "connect", "password", "ping", "slack", "webhook",
               "loop", "serving", "panic", "failed", "testSlack", "finished"} \cup Prompt
    /\ command \in Commands
    /\ pc \in Prompt => command = "configure"
    /\ pc \in {"slack", "webhook", "loop", "panic"} => command = "daemon"
    /\ pc = "validate" => command \in {"daemon", "test"}
    /\ pc = "testSlack" => command = "test"
    /\ pc = "serving" => command \notin {"configure", "test"}
    /\ env \subseteq EnvVars

\* What the values can be.
ValueInv ==
    /\ disk = {} \/ \E file \in File : disk = {file}
    /\ command # "configure" => cfg \in Loaded /\ target \in Source /\ password \in Source
    /\ command = "configure" /\ pc \in Testing \cup Settled => cfg \in File
    /\ slack \in Source /\ webhook \in Source

LEMMA DefaultIsFile == DefaultConfig \in File
BY DEF DefaultConfig, File, Given, AuthMethod

Fields == {"url", "host", "password", "method", "secret", "passwordEnv", "slack", "slackURL",
           "slackSecret", "webhook", "webhookURL", "ordered", "ticking", "enabled", "dryRun"}

LEMMA FileFields ==
    ASSUME NEW file \in File
    PROVE  /\ DOMAIN file = Fields
           /\ \A f \in Expanded : file[f] \in Given
BY DEF File, Fields, Expanded

\* A function on the fields with the right values is a record.
LEMMA LoadedByField ==
    ASSUME NEW c, c = [f \in Fields |-> c[f]],
           \A f \in Expanded : c[f] \in Source,
           NEW file \in File,
           \A f \in Fields \ Expanded : c[f] = file[f]
    PROVE  c \in Loaded
<1>1. c = [url |-> c.url, host |-> c.host, password |-> c.password, method |-> c.method,
           secret |-> c.secret, passwordEnv |-> c.passwordEnv, slack |-> c.slack,
           slackURL |-> c.slackURL, slackSecret |-> c.slackSecret, webhook |-> c.webhook,
           webhookURL |-> c.webhookURL, ordered |-> c.ordered, ticking |-> c.ticking,
           enabled |-> c.enabled, dryRun |-> c.dryRun]
  BY DEF Fields
<1>2. /\ c.method = file.method /\ c.secret = file.secret /\ c.passwordEnv = file.passwordEnv
      /\ c.slack = file.slack /\ c.slackSecret = file.slackSecret /\ c.webhook = file.webhook
      /\ c.ordered = file.ordered /\ c.ticking = file.ticking
      /\ c.enabled = file.enabled /\ c.dryRun = file.dryRun
  BY DEF Fields, Expanded
<1>3. {c.url, c.host, c.password, c.slackURL, c.webhookURL} \subseteq Source
  BY DEF Expanded
<1> QED
  BY <1>1, <1>2, <1>3 DEF Loaded, File

\* What an answer may change.
LEMMA FileUpdates ==
    ASSUME NEW c \in File
    PROVE  /\ \A v \in Given : [c EXCEPT !.host = v] \in File
           /\ \A v \in Given : [c EXCEPT !.password = v] \in File
           /\ \A v \in AuthMethod : [c EXCEPT !.method = v] \in File
           /\ \A v \in {"", "DB_PASS", "PGPASSWORD"} : [c EXCEPT !.passwordEnv = v] \in File
           /\ \A v \in {"", "file"} : [c EXCEPT !.secret = v] \in File
BY DEF File

LEMMA FileIsLoaded ==
    ASSUME env \subseteq EnvVars, NEW file \in File
    PROVE  ExpandEnvVars(file) \in Loaded
<1>1. ExpandEnvVars(file) = [f \in Fields |-> ExpandEnvVars(file)[f]]
  BY FileFields DEF ExpandEnvVars
<1>2. ASSUME NEW f \in Expanded
      PROVE  ExpandEnvVars(file)[f] \in Source
  <2>1. f \in Fields
    BY DEF Fields, Expanded
  <2>2. ExpandEnvVars(file)[f] = Expand(file, f)
    BY <2>1, FileFields DEF ExpandEnvVars
  <2> QED
    BY <2>2, FileFields DEF Expand, Given, Source
<1>3. \A f \in Fields \ Expanded : ExpandEnvVars(file)[f] = file[f]
  BY FileFields DEF ExpandEnvVars
<1> QED
  BY <1>1, <1>2, <1>3, LoadedByField

LEMMA CutIsFile ==
    ASSUME NEW file \in File, NEW n
    PROVE  Cut(file, n) \in File
<1> DEFINE c == Cut(file, n)
<1>1. c = [f \in Fields |-> c[f]] /\ \A f \in Fields : c[f] \in {file[f], DefaultConfig[f]}
  BY FileFields DEF Cut
<1>2. c = [url |-> c.url, host |-> c.host, password |-> c.password, method |-> c.method,
           secret |-> c.secret, passwordEnv |-> c.passwordEnv, slack |-> c.slack,
           slackURL |-> c.slackURL, slackSecret |-> c.slackSecret, webhook |-> c.webhook,
           webhookURL |-> c.webhookURL, ordered |-> c.ordered, ticking |-> c.ticking,
           enabled |-> c.enabled, dryRun |-> c.dryRun]
  BY <1>1 DEF Fields
<1> HIDE DEF c
<1>3. /\ c.url \in Given /\ c.host \in Given /\ c.password \in Given
      /\ c.method \in AuthMethod /\ c.secret \in {"", "file"}
      /\ c.passwordEnv \in {"", "DB_PASS", "PGPASSWORD"}
  BY <1>1, DefaultIsFile DEF File, Fields
<1>4. /\ c.slack \in BOOLEAN /\ c.slackURL \in Given /\ c.slackSecret \in {"", "file"}
      /\ c.webhook \in BOOLEAN /\ c.webhookURL \in Given
  BY <1>1, DefaultIsFile DEF File, Fields
<1>5. /\ c.ordered \in BOOLEAN /\ c.ticking \in BOOLEAN /\ c.enabled \in BOOLEAN
      /\ c.dryRun \in BOOLEAN
  BY <1>1, DefaultIsFile DEF File, Fields
<1>6. c \in File
  BY <1>2, <1>3, <1>4, <1>5 DEF File
<1> QED
  BY <1>6 DEF c

-----------------------------------------------------------------------------
LEMMA PlaceStep ==
    ASSUME PlaceInv, [SetupNext]_setupVars
    PROVE  PlaceInv'
<1> USE DEF PlaceInv, Prompt, given, Proceed, FailsTo, Fail
<1>1. CASE UNCHANGED setupVars
  BY <1>1 DEF setupVars, startupVars
<1>2. CASE StartupNext
  <2>1. CASE LoadFile \/ UseDefaults \/ LoadFails
    BY <2>1 DEF LoadFile, UseDefaults, LoadFails
  <2>2. CASE Validate \/ ValidateFails
    BY <2>2 DEF Validate, ValidateFails
  <2>3. CASE UseURL \/ UseParameters
    BY <2>3 DEF UseURL, UseParameters
  <2>4. CASE ResolvePassword \/ FetchPassword \/ PasswordFails
    BY <2>4 DEF ResolvePassword, FetchPassword, PasswordFails
  <2>5. CASE Ping \/ PingFails
    BY <2>5 DEF Ping, PingFails
  <2>6. CASE SetUpSlack \/ FetchSlack \/ SetUpWebhook \/ EnterLoop \/ TestSlack
    BY <2>6 DEF SetUpSlack, FetchSlack, SetUpWebhook, EnterLoop, TestSlack
  <2> QED
    BY <1>2, <2>1, <2>2, <2>3, <2>4, <2>5, <2>6 DEF StartupNext
<1>3. CASE WizardStep
  BY <1>3 DEF WizardStep, Answer, AskConnection, AskAuth, AskTest, AskAnyway, AskThresholds,
       AskSlack, AskWebhook, AskTermination, GiveUp, Decline, Save, SaveBreaksOff, Writes
<1>4. CASE NextCommand
  BY <1>4, ConfigureAssumption DEF NextCommand
<1> QED
  BY <1>1, <1>2, <1>3, <1>4 DEF SetupNext, StartupStep

LEMMA ValueWizard ==
    ASSUME PlaceInv, ValueInv, WizardStep
    PROVE  ValueInv'
<1> USE DEF PlaceInv, ValueInv, Prompt, Testing, Settled, Answer, given, connection, channels
<1>1. CASE AskConnection
  <2>1. \A host \in {"file", "ref"} : [DefaultConfig EXCEPT !.host = host] \in File
    BY DefaultIsFile, FileUpdates DEF Given
  <2> QED
    BY <1>1, <2>1 DEF AskConnection
<1>2. CASE AskAuth
  <2>1. pc = "auth" /\ pc' = "askTest" /\ command = "configure" /\ cfg \in File
    BY <1>2 DEF AskAuth
  <2>2. /\ {"password", "env", "iam"} \cup InAWS \subseteq AuthMethod
        /\ {"ref", "file", ""} \subseteq Given
    BY DEF InAWS, AuthMethod, Given
  <2>3. ASSUME NEW typed \in Given
        PROVE  [cfg EXCEPT !.method = "password", !.password = typed] \in File
    <3>1. [cfg EXCEPT !.method = "password"] \in File
      BY <2>1, <2>2, FileUpdates
    <3> QED
      BY <3>1, FileUpdates
  <2>4. ASSUME NEW var \in {"DB_PASS", "PGPASSWORD"}
        PROVE  [cfg EXCEPT !.method = "env", !.passwordEnv = var, !.password = "ref"] \in File
    <3>1. [cfg EXCEPT !.method = "env"] \in File
      BY <2>1, <2>2, FileUpdates
    <3>2. [cfg EXCEPT !.method = "env", !.passwordEnv = var] \in File
      BY <3>1, FileUpdates
    <3> QED
      BY <2>2, <3>2, FileUpdates
  <2>5. ASSUME NEW service \in InAWS
        PROVE  [cfg EXCEPT !.method = service, !.secret = "file"] \in File
    <3>1. [cfg EXCEPT !.method = service] \in File
      BY <2>1, <2>2, FileUpdates
    <3> QED
      BY <3>1, FileUpdates
  <2>6. [cfg EXCEPT !.method = "iam"] \in File
    BY <2>1, <2>2, FileUpdates
  <2>7. cfg' \in File
    BY <1>2, <2>3, <2>4, <2>5, <2>6 DEF AskAuth
  <2> QED
    BY <1>2, <2>1, <2>7 DEF AskAuth
<1>3. CASE AskTest \/ AskAnyway \/ GiveUp \/ Decline
  BY <1>3 DEF AskTest, AskAnyway, GiveUp, Decline
<1>4. CASE AskThresholds
  <2>1. pc = "thresholds" /\ cfg \in File
    BY <1>4 DEF AskThresholds
  <2>2. \A o \in BOOLEAN : [cfg EXCEPT !.ordered = o] \in File
    BY <2>1 DEF File
  <2> QED
    BY <1>4, <2>1, <2>2 DEF AskThresholds
<1>5. CASE AskSlack \/ AskWebhook
  <2>1. pc \in Settled /\ cfg \in File
    BY <1>5 DEF AskSlack, AskWebhook
  <2>2. \A url \in Given : /\ [cfg EXCEPT !.slack = TRUE, !.slackURL = url] \in File
                           /\ [cfg EXCEPT !.webhook = TRUE, !.webhookURL = url] \in File
    BY <2>1 DEF File
  <2> QED
    BY <1>5, <2>1, <2>2 DEF AskSlack, AskWebhook
<1>6. CASE AskTermination
  <2>1. pc = "termination" /\ cfg \in File
    BY <1>6 DEF AskTermination
  <2>2. \A dry \in BOOLEAN : [cfg EXCEPT !.enabled = TRUE, !.dryRun = dry] \in File
    BY <2>1 DEF File
  <2> QED
    BY <1>6, <2>1, <2>2 DEF AskTermination
<1>7. CASE Save \/ SaveBreaksOff
  <2>1. PICK file \in File : disk' = {file}
    BY <1>7, CutIsFile DEF Save, SaveBreaksOff, Writes
  <2> QED
    BY <1>7, <2>1 DEF Save, SaveBreaksOff, Writes
<1> QED
  BY <1>1, <1>2, <1>3, <1>4, <1>5, <1>6, <1>7 DEF WizardStep

LEMMA ValueStartup ==
    ASSUME PlaceInv, ValueInv, StartupNext
    PROVE  ValueInv'
<1> USE DEF PlaceInv, ValueInv, Prompt, Testing, Settled, given, connection, channels,
        Proceed, FailsTo, Fail
<1>1. CASE LoadFile
  <2>1. PICK file \in File : disk = {file} /\ cfg' = ExpandEnvVars(file)
    BY <1>1 DEF LoadFile
  <2>2. cfg' \in Loaded
    BY <2>1, FileIsLoaded
  <2> QED
    BY <1>1, <2>2 DEF LoadFile
<1>2. CASE UseDefaults
  <2>1. DefaultConfig \in Loaded
    BY DEF DefaultConfig, Loaded, AuthMethod, Source
  <2> QED
    BY <1>2, <2>1 DEF UseDefaults
<1>3. CASE LoadFails
  BY <1>3 DEF LoadFails
<1>31. CASE Validate \/ ValidateFails
  <2>1. command # "configure" /\ pc' \in {"connect", "finished", "failed", "testSlack"}
    BY <1>31 DEF Validate, ValidateFails
  <2> QED
    BY <1>31, <2>1 DEF Validate, ValidateFails
<1>32. CASE PasswordFails
  BY <1>32 DEF PasswordFails
<1>33. CASE PingFails \/ EnterLoop
  BY <1>33 DEF PingFails, EnterLoop
<1>4. CASE UseURL \/ UseParameters
  BY <1>4 DEF UseURL, UseParameters, Loaded
<1>5. CASE ResolvePassword \/ FetchPassword
  <2>1. /\ UNCHANGED <<disk, cfg, command, target, slack, webhook>>
        /\ pc' \in {"ping", "failed", "askAnyway", "testSlack"} /\ pc = "password"
        /\ password' \in {cfg.password, "", "aws", password} \cup EnvVars
    BY <1>5 DEF ResolvePassword, FetchPassword, PasswordVar
  <2>2. command # "configure" => password' \in Source
    BY <2>1 DEF Source, Loaded
  <2> QED
    BY <2>1, <2>2
<1>6. CASE Ping
  BY <1>6 DEF Ping, PasswordToConnect, PgxFallback, Source
<1>7. CASE SetUpSlack \/ FetchSlack \/ SetUpWebhook \/ TestSlack
  <2>1. cfg \in Loaded
    BY <1>7 DEF SetUpSlack, FetchSlack, SetUpWebhook, TestSlack
  <2>2. {FromEnv(cfg.slackURL, "SLACK_WEBHOOK_URL"), FromEnv(cfg.webhookURL, "WEBHOOK_URL")}
           \subseteq Source
    BY <2>1 DEF FromEnv, Loaded, Source
  <2>3. /\ slack' \in Source /\ webhook' \in Source
        /\ UNCHANGED <<given, cfg, connection>>
        /\ command # "configure"
    BY <1>7, <2>2 DEF SetUpSlack, FetchSlack, SetUpWebhook, TestSlack, Source
  <2> QED
    BY <2>3
<1> QED
  BY <1>1, <1>2, <1>3, <1>31, <1>32, <1>33, <1>4, <1>5, <1>6, <1>7 DEF StartupNext

LEMMA ValueStep ==
    ASSUME PlaceInv, ValueInv, [SetupNext]_setupVars
    PROVE  ValueInv'
<1>1. CASE UNCHANGED setupVars
  BY <1>1 DEF ValueInv, setupVars, startupVars, given, connection, channels
<1>2. CASE NextCommand
  <2>1. DefaultConfig \in Loaded
    BY DEF DefaultConfig, Loaded, AuthMethod, Source
  <2> QED
    BY <1>2, <2>1 DEF NextCommand, ValueInv, channels, Source, Testing, Settled
<1> QED
  BY <1>1, <1>2, ValueWizard, ValueStartup DEF SetupNext, StartupStep

LEMMA ValueInit == SetupInit => PlaceInv /\ ValueInv
<1>1. DefaultConfig \in Loaded
  BY DEF DefaultConfig, Loaded, AuthMethod, Source
<1> QED
  BY <1>1, StartupAssumption DEF SetupInit, StartupInit, PlaceInv, ValueInv, Prompt, Testing,
     Settled, Source

LEMMA SetupValues == SetupSpec => [](PlaceInv /\ ValueInv)
BY ValueInit, PlaceStep, ValueStep, PTL DEF SetupSpec

\* A command works with values that come from the file, the environment or
\* AWS: no reference is left unexpanded once a configuration is loaded.
THEOREM StartupTypeCorrect == SetupSpec => []StartupTypeOK
<1>1. PlaceInv /\ ValueInv => StartupTypeOK
  <2> SUFFICES ASSUME PlaceInv, ValueInv PROVE StartupTypeOK
    OBVIOUS
  <2>1. disk \subseteq File /\ Cardinality(disk) <= 1
    <3>1. CASE disk = {}
      BY <3>1, FS_EmptySet
    <3>2. ASSUME NEW file \in File, disk = {file}
          PROVE  disk \subseteq File /\ Cardinality(disk) <= 1
      <4>1. Cardinality({file}) = 1
        BY FS_Singleton
      <4> QED
        BY <3>2, <4>1
    <3> QED
      BY <3>1, <3>2 DEF ValueInv
  <2> QED
    BY <2>1 DEF PlaceInv, ValueInv, StartupTypeOK, Loaded
<1> QED
  BY <1>1, SetupValues, PTL

-----------------------------------------------------------------------------
(* Where a command connects, and with what.                                *)

\* The password that a configuration leads to, as ResolvePassword finds it.
Resolved(c, found) ==
    \/ c.method \in {"password", ""} /\ found = c.password
    \/ c.method = "env" /\ found = IF c.passwordEnv = "" THEN "PGPASSWORD" ELSE c.passwordEnv
    \/ c.method = "iam" /\ found = ""
    \/ c.method \in InAWS /\ found = "aws"

\* The password that a configuration leads to when pgx has had its say.
Used(c, found) ==
    \/ c.method \in {"password", ""} /\ c.password # "" /\ found = c.password
    \/ c.method \in {"password", ""} /\ c.password = "" /\ found \in PgxOwn
    \/ c.method = "env" /\ found = IF c.passwordEnv = "" THEN "PGPASSWORD" ELSE c.passwordEnv
    \/ c.method \in {"iam"} \cup InAWS /\ found = "aws"

\* Behind the connection string stands the configuration.
ConnectionInv ==
    /\ pc = "password" => cfg.url = "" /\ target = cfg.host
    /\ pc = "ping" => /\ target = IF cfg.url # "" THEN cfg.url ELSE cfg.host
                      /\ cfg.url = "" => Resolved(cfg, password)
                      /\ cfg.url = "" /\ cfg.method = "env" => password \in env
    /\ pc \in Connected =>
          /\ target = IF cfg.url # "" THEN cfg.url ELSE cfg.host
          /\ cfg.url = "" => Used(cfg, password)
          /\ cfg.url = "" /\ cfg.method = "env" => password \in env
          /\ cfg.url = "" /\ cfg.method \in {"password", ""} /\ cfg.password = ""
                => password \in PgxFallback
    /\ command = "daemon" /\ pc \in {"connect", "password", "ping"}
          => cfg.url # "" \/ cfg.host # "" \/ "DATABASE_URL" \in env
    /\ command = "daemon" /\ pc \in {"slack", "webhook", "loop", "serving"}
          => target # "" \/ "DATABASE_URL" \in env

\* The password in the connection string, or what pgx takes in its place.
LEMMA PasswordUsed ==
    ASSUME env \subseteq EnvVars, ConnectionInv, Ping, cfg.url = ""
    PROVE  Used(cfg, password') /\ (cfg.method = "env" => password' \in env)
BY StartupAssumption DEF ConnectionInv, Ping, PasswordToConnect, PgxFallback, PgxOwn, Used,
   Resolved, InAWS

LEMMA ConnectionStep ==
    ASSUME PlaceInv, ConnectionInv, [SetupNext]_setupVars
    PROVE  ConnectionInv'
<1> USE DEF ConnectionInv, Resolved, Used, PgxOwn, PgxFallback, Connected, given, connection,
        channels
<1>1. CASE UNCHANGED setupVars
  BY <1>1 DEF setupVars, startupVars
<1>2. CASE StartupNext
  <2>1. CASE LoadFile \/ UseDefaults
    BY <2>1 DEF LoadFile, UseDefaults, Proceed
  <2>2. CASE Validate
    BY <2>2 DEF Validate, Valid
  <2>3. CASE LoadFails \/ ValidateFails \/ PasswordFails \/ PingFails
    BY <2>3 DEF LoadFails, ValidateFails, PasswordFails, PingFails, Fail, FailsTo
  <2>4. CASE UseURL \/ UseParameters
    BY <2>4 DEF UseURL, UseParameters
  <2>5. CASE ResolvePassword \/ FetchPassword
    BY <2>5 DEF ResolvePassword, FetchPassword, PasswordVar, FailsTo, InAWS
  <2>6. CASE Ping
    <3>1. cfg.url = "" => Used(cfg, password') /\ (cfg.method = "env" => password' \in env)
      BY <2>6, PasswordUsed DEF PlaceInv
    <3>2. /\ UNCHANGED <<command, env, cfg, target>>
          /\ pc = "ping" /\ pc' \notin {"connect", "password", "ping"}
      BY <2>6 DEF Ping
    <3>3. cfg.url = "" /\ cfg.method \in {"password", ""} /\ cfg.password = ""
              => password' \in PgxFallback
      <4>1. cfg.url = "" /\ cfg.method \in {"password", ""} /\ cfg.password = ""
                => password = ""
        BY <3>2 DEF InAWS
      <4> QED
        BY <2>6, <4>1 DEF Ping, PasswordToConnect
    <3>4. command = "daemon" => target # "" \/ "DATABASE_URL" \in env
      BY <3>2
    <3> QED
      BY <3>1, <3>2, <3>3, <3>4
  <2>7. CASE SetUpSlack \/ FetchSlack \/ SetUpWebhook \/ EnterLoop \/ TestSlack
    BY <2>7 DEF SetUpSlack, FetchSlack, SetUpWebhook, EnterLoop, TestSlack
  <2> QED
    BY <1>2, <2>1, <2>2, <2>3, <2>4, <2>5, <2>6, <2>7 DEF StartupNext
<1>3. CASE WizardStep
  <2>1. command = "configure" /\ UNCHANGED <<command, env>> /\ pc' \notin {"password", "ping"} \cup Connected
    BY <1>3 DEF PlaceInv, Prompt, WizardStep, Answer, AskConnection, AskAuth, AskTest, AskAnyway,
         AskThresholds, AskSlack, AskWebhook, AskTermination, GiveUp, Decline, Save,
         SaveBreaksOff, Writes
  <2> QED
    BY <2>1
<1>4. CASE NextCommand
  BY <1>4 DEF NextCommand
<1> QED
  BY <1>1, <1>2, <1>3, <1>4 DEF SetupNext, StartupStep

LEMMA Connections == SetupSpec => []ConnectionInv
<1>1. SetupInit => ConnectionInv
  BY DEF SetupInit, StartupInit, ConnectionInv, Connected
<1> QED
  BY <1>1, ConnectionStep, SetupValues, PTL DEF SetupSpec

\* A daemon connects to nothing its configuration does not name, save for a
\* DATABASE_URL that Validate counts and buildConnectionString does not.
THEOREM TargetIsNamed == SetupSpec => []NamelessOnlyByDatabaseURL
<1>1. ConnectionInv => NamelessOnlyByDatabaseURL
  BY DEF ConnectionInv, NamelessOnlyByDatabaseURL, Connected
<1> QED
  BY <1>1, Connections, PTL

\* ResolvePassword takes a password from where the method says, or fails, and
\* what it takes is used.
THEOREM PasswordHasItsPlace == SetupSpec => []PasswordIsFromItsPlace
<1>1. ConnectionInv => PasswordIsFromItsPlace
  BY DEF ConnectionInv, PasswordIsFromItsPlace, PasswordVar, Resolved, Used, Connected, InAWS
<1> QED
  BY <1>1, Connections, PTL

-----------------------------------------------------------------------------
(* What the loop of a daemon takes for granted.                            *)

\* From its loading to its end a command works with what the file says of the
\* thresholds and of the interval; a daemon past Validate has them in order,
\* and its loop, if it has not panicked, an interval it can tick with.
LoopInv ==
    /\ command = "daemon" /\ pc \notin {"load", "failed"} =>
          \A file \in disk : file.ordered = cfg.ordered /\ file.ticking = cfg.ticking
    /\ command = "daemon" /\ pc \notin {"load", "validate", "failed"} => cfg.ordered
    /\ command = "daemon" /\ pc = "serving" => cfg.ticking

LEMMA LoopStep ==
    ASSUME PlaceInv, ValueInv, LoopInv, [SetupNext]_setupVars
    PROVE  LoopInv'
<1> USE DEF PlaceInv, LoopInv, Prompt, given, connection, channels
<1>1. CASE UNCHANGED setupVars
  BY <1>1 DEF setupVars, startupVars
<1>2. CASE StartupNext
  <2>1. CASE LoadFile
    <3>1. PICK file \in File : disk = {file} /\ cfg' = ExpandEnvVars(file)
      BY <2>1 DEF LoadFile, ValueInv
    <3>2. cfg'.ordered = file.ordered /\ cfg'.ticking = file.ticking
      BY <3>1, FileFields DEF ExpandEnvVars, Expanded, Fields
    <3> QED
      BY <2>1, <3>1, <3>2 DEF LoadFile, Proceed
  <2>2. CASE UseDefaults
    BY <2>2 DEF UseDefaults, Proceed
  <2>3. CASE LoadFails \/ ValidateFails \/ PasswordFails \/ PingFails
    BY <2>3 DEF LoadFails, ValidateFails, PasswordFails, PingFails, Fail, FailsTo
  <2>4. CASE Validate
    BY <2>4 DEF Validate, Valid
  <2>5. CASE UseURL \/ UseParameters \/ ResolvePassword \/ FetchPassword \/ Ping
    BY <2>5 DEF UseURL, UseParameters, ResolvePassword, FetchPassword, FailsTo, Ping
  <2>6. CASE SetUpSlack \/ FetchSlack \/ SetUpWebhook \/ EnterLoop \/ TestSlack
    BY <2>6 DEF SetUpSlack, FetchSlack, SetUpWebhook, EnterLoop, TestSlack
  <2> QED
    BY <1>2, <2>1, <2>2, <2>3, <2>4, <2>5, <2>6 DEF StartupNext
<1>3. CASE WizardStep
  <2>1. command = "configure" /\ UNCHANGED command
    BY <1>3 DEF WizardStep, Answer, AskConnection, AskAuth, AskTest, AskAnyway, AskThresholds,
         AskSlack, AskWebhook, AskTermination, GiveUp, Decline, Save, SaveBreaksOff, Writes
  <2> QED
    BY <2>1
<1>4. CASE NextCommand
  BY <1>4 DEF NextCommand
<1> QED
  BY <1>1, <1>2, <1>3, <1>4 DEF SetupNext, StartupStep

\* No loop runs on thresholds out of order or without a tick, whatever file
\* the wizard or anybody else has left.
THEOREM LoopHasWhatItNeeds == SetupSpec => []LoopIsConfigured
<1>1. SetupInit => LoopInv
  BY DEF SetupInit, StartupInit, LoopInv
<1>2. LoopInv => LoopIsConfigured
  BY DEF LoopInv, LoopIsConfigured
<1> QED
  BY <1>1, <1>2, LoopStep, SetupValues, PTL DEF SetupSpec

-----------------------------------------------------------------------------
(* What the wizard wrote.                                                  *)

Live(c) == c.enabled /\ ~c.dryRun

\* Until it has asked about auto-termination the wizard has it off, and it
\* writes once, what it was told.
LiveInv ==
    /\ command = "configure" /\ pc \in (Testing \cup Settled) \ {"save"} => ~cfg.enabled
    /\ command = "configure" /\ pc = "save" /\ Live(cfg) => asked = "live"
    /\ command = "configure" /\ pc \notin {"finished", "failed"} => origin = "found"
    /\ origin # "found" => \A file \in disk : Live(file) => asked = "live"
    /\ origin # "found" /\ command # "configure" /\ Live(cfg) => asked = "live"

LEMMA LiveWizard ==
    ASSUME PlaceInv, ValueInv, LiveInv, WizardStep
    PROVE  LiveInv'
<1> USE DEF PlaceInv, LiveInv, Live, Prompt, Testing, Settled, Answer, given, connection, channels
<1>1. CASE AskConnection
  BY <1>1 DEF AskConnection, DefaultConfig
<1>2. CASE AskAuth
  <2>1. cfg \in File /\ pc = "auth" /\ command = "configure"
    BY <1>2 DEF AskAuth, ValueInv
  <2>2. cfg'.enabled = cfg.enabled
    BY <1>2, <2>1 DEF AskAuth, File
  <2> QED
    BY <1>2, <2>2 DEF AskAuth
<1>3. CASE AskTest \/ AskAnyway \/ GiveUp \/ Decline
  BY <1>3 DEF AskTest, AskAnyway, GiveUp, Decline
<1>4. CASE AskThresholds \/ AskSlack \/ AskWebhook
  <2>1. cfg \in File /\ pc \in {"thresholds", "askSlack", "askWebhook"}
    BY <1>4 DEF AskThresholds, AskSlack, AskWebhook, ValueInv
  <2>2. cfg'.enabled = cfg.enabled
    BY <1>4, <2>1 DEF AskThresholds, AskSlack, AskWebhook, File
  <2> QED
    BY <1>4, <2>1, <2>2 DEF AskThresholds, AskSlack, AskWebhook
<1>5. CASE AskTermination
  <2>1. cfg \in File /\ pc = "termination" /\ command = "configure"
    BY <1>5 DEF AskTermination, ValueInv
  <2>2. Live(cfg') => asked' = "live"
    BY <1>5, <2>1 DEF AskTermination, File
  <2> QED
    BY <1>5, <2>1, <2>2 DEF AskTermination
<1>6. CASE Save
  BY <1>6 DEF Save, Writes
<1>7. CASE SaveBreaksOff
  <2>1. PICK n \in Cuts : Writes(Cut(cfg, n), "cut", "failed")
    BY <1>7 DEF SaveBreaksOff
  <2>2. pc = "save" /\ command = "configure" /\ cfg \in File
    BY <2>1 DEF Writes, ValueInv
  <2>3. /\ Cut(cfg, n).enabled \in {cfg.enabled, FALSE}
        /\ Cut(cfg, n).dryRun \in {cfg.dryRun, TRUE}
    BY <2>2, FileFields DEF Cut, DefaultConfig, Fields
  <2>4. Live(Cut(cfg, n)) => Live(cfg)
    BY <2>2, <2>3 DEF File
  <2> QED
    BY <2>1, <2>2, <2>4 DEF Writes
<1> QED
  BY <1>1, <1>2, <1>3, <1>4, <1>5, <1>6, <1>7 DEF WizardStep

LEMMA LiveStep ==
    ASSUME PlaceInv, ValueInv, LiveInv, [SetupNext]_setupVars
    PROVE  LiveInv'
<1> USE DEF PlaceInv, LiveInv, Live, Prompt, Testing, Settled, given, connection, channels
<1>1. CASE UNCHANGED setupVars
  BY <1>1 DEF setupVars, startupVars, wizardVars
<1>2. CASE StartupNext /\ UNCHANGED <<asked, origin>>
  <2>1. CASE LoadFile
    <3>1. PICK file \in File : disk = {file} /\ cfg' = ExpandEnvVars(file)
      BY <2>1 DEF LoadFile, ValueInv
    <3>2. cfg'.enabled = file.enabled /\ cfg'.dryRun = file.dryRun
      BY <3>1, FileFields DEF ExpandEnvVars, Expanded, Fields
    <3> QED
      BY <1>2, <2>1, <3>1, <3>2 DEF LoadFile, Proceed
  <2>2. CASE UseDefaults
    BY <1>2, <2>2 DEF UseDefaults, DefaultConfig, Proceed
  <2>3. CASE LoadFails \/ Validate \/ ValidateFails \/ PasswordFails \/ PingFails
    BY <1>2, <2>3 DEF LoadFails, Validate, ValidateFails, PasswordFails, PingFails, Fail, FailsTo
  <2>4. CASE UseURL \/ UseParameters \/ ResolvePassword \/ FetchPassword \/ Ping
    BY <1>2, <2>4 DEF UseURL, UseParameters, ResolvePassword, FetchPassword, FailsTo, Ping
  <2>5. CASE SetUpSlack \/ FetchSlack \/ SetUpWebhook \/ EnterLoop \/ TestSlack
    BY <1>2, <2>5 DEF SetUpSlack, FetchSlack, SetUpWebhook, EnterLoop, TestSlack
  <2> QED
    BY <1>2, <2>1, <2>2, <2>3, <2>4, <2>5 DEF StartupNext
<1>3. CASE NextCommand
  BY <1>3 DEF NextCommand, DefaultConfig
<1> QED
  BY <1>1, <1>2, <1>3, LiveWizard DEF SetupNext, StartupStep

\* A file that the wizard wrote, or began to write, makes a daemon terminate
\* connections only if the wizard was told so.
THEOREM KillsOnlyAsAsked == SetupSpec => []KillsAsAsked
<1>1. SetupInit => LiveInv
  BY DEF SetupInit, StartupInit, LiveInv, Testing, Settled
<1>2. LiveInv => KillsAsAsked
  BY DEF LiveInv, Live, KillsAsAsked
<1> QED
  BY <1>1, <1>2, LiveStep, SetupValues, PTL DEF SetupSpec

-----------------------------------------------------------------------------
(* What the wizard tried.                                                  *)

TestedWith(c) == /\ c.url = "" /\ c.host = "file" /\ tested[1] = "file"
                 /\ Used(c, tested[2])

\* What was tested is in newCfg, then in the file, then in the configuration
\* of the next command, where only a reference has become something else.
TestedInv ==
    /\ tested = <<tested[1], tested[2]>>
    /\ command = "configure" /\ pc \in Testing \cup {"load", "connection"} => tested = NotTested
    /\ command = "configure" /\ pc \in Testing \cup Settled => cfg.url = ""
    /\ command = "configure" /\ pc \in Testing => cfg.host \in {"file", "ref"}
    /\ command = "configure" /\ pc \in Settled /\ tested # NotTested => TestedWith(cfg)
    /\ command = "configure" /\ pc \notin {"finished", "failed"} => origin = "found"
    /\ origin = "wizard" => disk # {}
    /\ origin = "wizard" /\ tested # NotTested => \A file \in disk : TestedWith(file)
    /\ origin = "wizard" /\ tested # NotTested /\ command # "configure" /\ pc \notin {"load", "failed"}
          => /\ cfg.url = "" /\ cfg.host = "file" /\ tested[1] = "file"
             /\ Used(cfg, tested[2]) \/ tested[2] = "ref"

LEMMA TestedWizard ==
    ASSUME PlaceInv, ValueInv, TestedInv, WizardStep
    PROVE  TestedInv'
<1> USE DEF PlaceInv, TestedInv, Prompt, Testing, Settled, Answer, given, connection, channels
<1>1. CASE AskConnection
  <2>1. cfg'.url = "" /\ cfg'.host \in {"file", "ref"}
    BY <1>1 DEF AskConnection, DefaultConfig
  <2> QED
    BY <1>1, <2>1 DEF AskConnection
<1>2. CASE AskAuth
  <2>1. cfg \in File /\ pc = "auth" /\ command = "configure"
    BY <1>2 DEF AskAuth, ValueInv
  <2>2. cfg'.url = cfg.url /\ cfg'.host = cfg.host
    BY <1>2, <2>1 DEF AskAuth, File
  <2> QED
    BY <1>2, <2>1, <2>2 DEF AskAuth
<1>3. CASE AskTest \/ AskAnyway \/ GiveUp \/ Decline
  BY <1>3 DEF AskTest, AskAnyway, GiveUp, Decline
<1>4. CASE AskThresholds \/ AskSlack \/ AskWebhook \/ AskTermination
  <2>1. /\ cfg \in File /\ command = "configure"
        /\ pc \in {"thresholds", "askSlack", "askWebhook", "termination"} /\ pc' \in Settled
        /\ UNCHANGED <<command, tested, disk, origin>>
    BY <1>4 DEF AskThresholds, AskSlack, AskWebhook, AskTermination, ValueInv
  <2>2. /\ cfg'.url = cfg.url /\ cfg'.host = cfg.host /\ cfg'.method = cfg.method
        /\ cfg'.password = cfg.password /\ cfg'.passwordEnv = cfg.passwordEnv
    BY <1>4, <2>1 DEF AskThresholds, AskSlack, AskWebhook, AskTermination, File
  <2>3. tested # NotTested => TestedWith(cfg)'
    BY <2>1, <2>2 DEF TestedWith, Used
  <2> QED
    BY <2>1, <2>2, <2>3
<1>5. CASE Save
  BY <1>5 DEF Save, Writes, TestedWith
<1>6. CASE SaveBreaksOff
  BY <1>6 DEF SaveBreaksOff, Writes
<1> QED
  BY <1>1, <1>2, <1>3, <1>4, <1>5, <1>6 DEF WizardStep

LEMMA TestedStep ==
    ASSUME PlaceInv, ValueInv, ConnectionInv, TestedInv, [SetupNext]_setupVars
    PROVE  TestedInv'
<1> USE DEF PlaceInv, TestedInv, Prompt, Testing, Settled, given, connection, channels
<1>1. CASE UNCHANGED setupVars
  BY <1>1 DEF setupVars, startupVars, wizardVars, TestedWith, Used
<1>2. CASE StartupStep
  <2>1. UNCHANGED <<command, env, disk, origin>>
    BY <1>2 DEF StartupStep, StartupNext, LoadFile, UseDefaults, LoadFails, Validate,
         ValidateFails, UseURL, UseParameters, ResolvePassword, FetchPassword, PasswordFails,
         Ping, PingFails, SetUpSlack, FetchSlack, SetUpWebhook, EnterLoop, TestSlack, Fail
  <2>2. CASE LoadFile
    <3>1. PICK file \in File : disk = {file} /\ cfg' = ExpandEnvVars(file)
      BY <2>2 DEF LoadFile, ValueInv
    <3>2. /\ \A f \in {"method", "passwordEnv"} : cfg'[f] = file[f]
          /\ \A f \in {"url", "host", "password"} : file[f] # "ref" => cfg'[f] = file[f]
      BY <3>1, FileFields DEF ExpandEnvVars, Expand, Expanded, Fields
    <3>3. TestedWith(file) =>
              /\ cfg'.url = "" /\ cfg'.host = "file" /\ tested[1] = "file"
              /\ Used(cfg', tested[2]) \/ tested[2] = "ref"
      BY <3>2 DEF TestedWith, Used
    <3>4. tested' = tested /\ pc = "load" /\ pc' \in {"connection", "validate", "connect"}
          /\ (pc' = "connection" <=> command = "configure")
      BY <1>2, <2>2 DEF StartupStep, LoadFile, Proceed
    <3> QED
      BY <2>1, <3>1, <3>3, <3>4 DEF TestedWith
  <2>3. CASE UseDefaults
    BY <1>2, <2>1, <2>3 DEF StartupStep, UseDefaults, Proceed, TestedWith
  <2>4. CASE Ping
    <3>1. CASE command = "configure"
      <4>1. cfg.url = "" /\ target = cfg.host /\ target # "ref" /\ Used(cfg, password')
        BY <2>4, <3>1, PasswordUsed DEF Ping, ConnectionInv
      <4>2. tested' = <<target, password'>> /\ cfg' = cfg /\ pc' = "thresholds" /\ pc = "ping"
        BY <1>2, <2>4, <3>1 DEF StartupStep, Ping
      <4>3. TestedWith(cfg)'
        BY <3>1, <4>1, <4>2 DEF TestedWith, Used
      <4> QED
        BY <2>1, <3>1, <4>1, <4>2, <4>3
    <3>2. CASE command # "configure"
      BY <1>2, <2>1, <2>4, <3>2 DEF StartupStep, Ping, TestedWith
    <3> QED
      BY <3>1, <3>2
  <2>5. ASSUME /\ UNCHANGED <<cfg, tested>> /\ pc \notin {"load", "failed"}
               /\ command = "configure" =>
                     \/ pc' \in {"finished", "failed"}
                     \/ pc \in Testing /\ pc' \in Testing
        PROVE  TestedInv'
    BY <2>1, <2>5 DEF TestedWith, Used
  <2>6. CASE LoadFails
    BY <1>2, <2>1, <2>6 DEF StartupStep, LoadFails, Fail, FailsTo, TestedWith
  <2>7. CASE Validate \/ ValidateFails \/ PasswordFails \/ PingFails
    <3>1. UNCHANGED <<cfg, tested>> /\ pc \notin {"load", "failed"}
      BY <1>2, <2>7 DEF StartupStep, Validate, ValidateFails, PasswordFails, PingFails, Fail,
           FailsTo
    <3>2. command = "configure" => pc \in Testing /\ pc' \in Testing
      BY <2>7 DEF Validate, ValidateFails, PasswordFails, PingFails, Fail, FailsTo
    <3> QED
      BY <2>5, <3>1, <3>2
  <2>8. CASE UseURL \/ UseParameters \/ ResolvePassword \/ FetchPassword
    <3>1. UNCHANGED <<cfg, tested>> /\ pc \in {"connect", "password"}
      BY <1>2, <2>8 DEF StartupStep, UseURL, UseParameters, ResolvePassword, FetchPassword
    <3>2. command = "configure" => pc' \in Testing
      BY <2>8 DEF UseURL, UseParameters, ResolvePassword, FetchPassword, FailsTo
    <3> QED
      BY <2>5, <3>1, <3>2
  <2>9. CASE SetUpSlack \/ FetchSlack \/ SetUpWebhook \/ EnterLoop \/ TestSlack
    <3>1. UNCHANGED <<cfg, tested>> /\ pc \in {"slack", "webhook", "loop", "testSlack"}
      BY <1>2, <2>9 DEF StartupStep, SetUpSlack, FetchSlack, SetUpWebhook, EnterLoop, TestSlack
    <3> QED
      BY <2>5, <3>1
  <2> QED
    BY <1>2, <2>2, <2>3, <2>4, <2>6, <2>7, <2>8, <2>9 DEF StartupStep, StartupNext
<1>3. CASE NextCommand
  <2>1. NotTested = <<NotTested[1], NotTested[2]>>
    BY DEF NotTested
  <2>2. /\ command' # "configure" /\ pc' = "load" /\ UNCHANGED <<disk, origin>>
        /\ tested' = tested \/ tested' = NotTested
    BY <1>3 DEF NextCommand
  <2> QED
    BY <2>1, <2>2 DEF TestedWith
<1> QED
  BY <1>1, <1>2, <1>3, TestedWizard DEF SetupNext

\* The wizard's test is worth something: the file it led to makes the next
\* command connect in the same way, unless it leaves the password to the
\* environment.
THEOREM TestHoldsGood == SetupSpec => []TestedIsUsed
<1>1. SetupInit => TestedInv
  <2>1. NotTested = <<NotTested[1], NotTested[2]>>
    BY DEF NotTested
  <2> QED
    BY <2>1 DEF SetupInit, StartupInit, TestedInv, Testing, Settled
<1>2. PlaceInv /\ ConnectionInv /\ TestedInv => TestedIsUsed
  <2> SUFFICES ASSUME PlaceInv, ConnectionInv, TestedInv, pc \in Connected,
                      origin = "wizard", tested # NotTested
               PROVE  /\ target = tested[1]
                      /\ \/ password = tested[2]
                         \/ tested[2] = "ref"
                         \/ /\ cfg.method \in {"password", ""} /\ cfg.password = ""
                            /\ {tested[2], password} \subseteq PgxOwn
                            /\ tested[2] = "PGPASSWORD" => "PGPASSWORD" \notin env
    BY DEF TestedIsUsed
  <2>1. command # "configure" /\ pc \notin {"load", "failed"}
    BY DEF PlaceInv, Connected
  <2>2. cfg.url = "" /\ target = cfg.host /\ Used(cfg, password)
    BY <2>1 DEF ConnectionInv, TestedInv
  <2>3. tested[1] = cfg.host /\ (Used(cfg, tested[2]) \/ tested[2] = "ref")
    BY <2>1 DEF TestedInv
  <2>4. CASE tested[2] = "ref"
    BY <2>2, <2>3, <2>4
  <2>5. CASE Used(cfg, tested[2]) /\ cfg.password = "" /\ cfg.method \in {"password", ""}
    BY <2>1, <2>2, <2>3, <2>5 DEF Used, PgxFallback, PgxOwn, ConnectionInv, InAWS
  <2>6. CASE Used(cfg, tested[2]) /\ ~(cfg.password = "" /\ cfg.method \in {"password", ""})
    BY <2>2, <2>3, <2>6 DEF Used, InAWS
  <2> QED
    BY <2>3, <2>4, <2>5, <2>6
<1> QED
  BY <1>1, <1>2, TestedStep, SetupValues, Connections, PTL DEF SetupSpec
=============================================================================
