------------------------------ MODULE Configure -----------------------------
(***************************************************************************)
(* pguard configure (internal/cli/configure.go): the wizard asks for a     *)
(* configuration, tries its connection, and writes it to the file that the *)
(* next command starts from.                                               *)
(*                                                                         *)
(* Prompts between which nothing is decided are one step.  What is typed   *)
(* is a Given value: nothing, a text, or a reference "${VAR}", which is    *)
(* expanded when the file is read and not before.                          *)
(***************************************************************************)
EXTENDS Startup, Sequences

CONSTANTS
    WizardFinds,    \* bound: the files there may be when the wizard is run
    WizardEnvs,     \* bound: the environments of the wizard and of the command after it
    Cuts            \* bound: after how many settings the writing of a file may break off

VARIABLES
    tested, \* the target and password that the wizard's test connected with
    asked,  \* what was answered about auto-termination: "", "off", "dry", "live"
    origin  \* of the file: "found", "wizard", "cut" (the wizard, not to its end)

wizardVars == <<tested, asked, origin>>
setupVars  == <<startupVars, wizardVars>>

NotTested == <<"", "">>

\* The order in which yaml.Marshal writes the fields of Config.
YamlOrder == <<"url", "host", "method", "password", "secret", "passwordEnv", "ordered",
               "ticking", "slack", "slackURL", "slackSecret", "webhook", "webhookURL",
               "enabled", "dryRun">>

ASSUME ConfigureAssumption ==
    /\ WizardFinds \subseteq Files
    /\ WizardEnvs \subseteq SUBSET EnvVars
    /\ Cuts \subseteq 0 .. Len(YamlOrder) - 1

SetupInit ==
    /\ StartupInit
    /\ command = "configure" => env \in WizardEnvs /\ disk \subseteq WizardFinds
    /\ tested = NotTested
    /\ asked = ""
    /\ origin = "found"

-----------------------------------------------------------------------------
Answer(at, next) ==
    /\ pc = at
    /\ pc' = next
    /\ UNCHANGED <<given, connection, channels, origin>>

\* newCfg starts from the defaults, whatever file there was.  The port, the
\* database and the user only make the wizard go on or give up.
AskConnection ==
    /\ Answer("connection", "auth")
    /\ \E host \in {"file", "ref"} : cfg' = [DefaultConfig EXCEPT !.host = host]
    /\ UNCHANGED <<tested, asked>>

\* The five methods, and the SSL mode.  The variable's name is kept twice for
\* "env".
AskAuth ==
    /\ Answer("auth", "askTest")
    /\ \/ \E typed \in Given :
             cfg' = [cfg EXCEPT !.method = "password", !.password = typed]
       \/ \E var \in {"DB_PASS", "PGPASSWORD"} :
             cfg' = [cfg EXCEPT !.method = "env", !.passwordEnv = var, !.password = "ref"]
       \/ cfg' = [cfg EXCEPT !.method = "iam"]
       \/ \E service \in InAWS :
             cfg' = [cfg EXCEPT !.method = service, !.secret = "file"]
    /\ UNCHANGED <<tested, asked>>

\* The test is NewClient with newCfg: it goes on at "connect".
AskTest ==
    /\ \/ Answer("askTest", "connect")
       \/ Answer("askTest", "thresholds")
    /\ UNCHANGED <<cfg, tested, asked>>

\* "Save configuration anyway?", after a test that failed.
AskAnyway ==
    /\ \/ Answer("askAnyway", "thresholds")
       \/ Answer("askAnyway", "finished")
    /\ UNCHANGED <<cfg, tested, asked>>

\* Nothing compares the two durations.
AskThresholds ==
    /\ Answer("thresholds", "askSlack")
    /\ \E o \in BOOLEAN : cfg' = [cfg EXCEPT !.ordered = o]
    /\ UNCHANGED <<tested, asked>>

\* With the channel and the mentions.
AskSlack ==
    /\ Answer("askSlack", "askWebhook")
    /\ \/ UNCHANGED cfg
       \/ \E url \in Given : cfg' = [cfg EXCEPT !.slack = TRUE, !.slackURL = url]
    /\ UNCHANGED <<tested, asked>>

\* With method and headers, and then the cooldown.
AskWebhook ==
    /\ Answer("askWebhook", "termination")
    /\ \/ UNCHANGED cfg
       \/ \E url \in Given : cfg' = [cfg EXCEPT !.webhook = TRUE, !.webhookURL = url]
    /\ UNCHANGED <<tested, asked>>

\* "yes" sets dry_run to false before "Dry-run only?" is asked.  The prompts
\* for the rest (exclusions, HTTP API, logging) follow.
AskTermination ==
    /\ Answer("termination", "save")
    /\ \/ UNCHANGED cfg /\ asked' = "off"
       \/ \E dry \in BOOLEAN :
             /\ cfg' = [cfg EXCEPT !.enabled = TRUE, !.dryRun = dry]
             /\ asked' = IF dry THEN "dry" ELSE "live"
    /\ UNCHANGED tested

\* An answer that is missing or cannot be parsed, or the end of the input.
GiveUp ==
    /\ \E at \in Prompt : Answer(at, "failed")
    /\ UNCHANGED <<cfg, tested, asked>>

Decline ==
    /\ Answer("save", "finished")
    /\ UNCHANGED <<cfg, tested, asked>>

Writes(file, how, end) ==
    /\ pc = "save"
    /\ pc' = end
    /\ disk' = {file}
    /\ origin' = how
    /\ UNCHANGED <<command, env, cfg, connection, channels, tested, asked>>

\* Faulty: the password is kept out of the file.
Save_NoPassword == Writes([cfg EXCEPT !.password = ""], "wizard", "finished")

Save == Writes(cfg, "wizard", "finished")

\* What a file says whose writing broke off after n settings.
Cut(file, n) ==
    [field \in DOMAIN file |->
        IF field \in {YamlOrder[i] : i \in 1 .. n} THEN file[field] ELSE DefaultConfig[field]]

\* WriteFile empties the file before it writes: a crash or an error in
\* between leaves the beginning, and nothing of the file there was.
SaveBreaksOff == \E n \in Cuts : Writes(Cut(cfg, n), "cut", "failed")

WizardStep ==
    \/ AskConnection \/ AskAuth \/ AskTest \/ AskAnyway
    \/ AskThresholds \/ AskSlack \/ AskWebhook \/ AskTermination
    \/ GiveUp \/ Decline \/ Save \/ SaveBreaksOff

-----------------------------------------------------------------------------
\* The start of a command, and what the wizard's test connected with.
StartupStep ==
    /\ StartupNext
    /\ tested' = IF pc = "ping" /\ pc' = "thresholds" THEN connection' ELSE tested
    /\ UNCHANGED <<asked, origin>>

\* Another command, in another environment, with the file the wizard left.
NextCommand ==
    /\ command = "configure"
    /\ pc \in {"finished", "failed"}
    /\ command' \in Commands \ {"configure"}
    /\ env' \in WizardEnvs
    /\ pc' = "load"
    /\ cfg' = DefaultConfig
    /\ target' = ""
    /\ password' = ""
    /\ IF origin = "found"
       THEN tested' = NotTested /\ asked' = ""
       ELSE UNCHANGED <<tested, asked>>
    /\ UNCHANGED <<disk, channels, origin>>

SetupNext == WizardStep \/ StartupStep \/ NextCommand

\* Every call made by a start has a timeout (15 s for AWS, connect_timeout,
\* 10 s for a test message), so each step is taken at last.  Nobody has to
\* answer the wizard.
SetupSpec == SetupInit /\ [][SetupNext]_setupVars /\ WF_setupVars(StartupStep)

-----------------------------------------------------------------------------
(* Properties.                                                             *)

\* What the wizard's test connected with is what the commands after it
\* connect with, by every method of authentication.  There are two ways around
\* it.  A password with a "$" is tried as it is typed, and expanded when it is
\* read.  And where none was typed pgx finds one, or none, in the environment
\* of each command: the same if PGPASSWORD is set in both.
TestedIsUsed ==
    pc \in Connected /\ origin = "wizard" /\ tested # NotTested =>
        /\ target = tested[1]
        /\ \/ password = tested[2]
           \/ tested[2] = "ref"
           \/ /\ cfg.method \in {"password", ""} /\ cfg.password = ""
              /\ {tested[2], password} \subseteq PgxOwn
              /\ tested[2] = "PGPASSWORD" => "PGPASSWORD" \notin env

\* A daemon that runs on what the wizard wrote terminates connections only
\* if that was asked for, even if the file was not written to its end.
KillsAsAsked ==
    pc = "serving" /\ command = "daemon" /\ origin # "found" /\ cfg.enabled /\ ~cfg.dryRun
        => asked = "live"
=============================================================================
