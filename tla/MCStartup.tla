------------------------------ MODULE MCStartup -----------------------------
(***************************************************************************)
(* Instances of Configure and Startup for TLC: files that vary in how to   *)
(* connect, files that vary in the alert channels, and files the wizard    *)
(* makes.                                                                  *)
(***************************************************************************)
EXTENDS Configure

AllEnvVars == {"DATABASE_URL", "DB_HOST", "DB_PASS", "PGPASSWORD", "SLACK_WEBHOOK_URL",
               "WEBHOOK_URL"}

UrlOnly == {"DATABASE_URL"}

\* Each method with the settings it reads, given or not, and with a password
\* in the file or without.
Auths ==
    [password : {"", "ref"}, method : {"env"}, secret : {""}, passwordEnv : {"", "DB_PASS"}]
    \cup [password : {"", "ref"}, method : InAWS, secret : {"", "file"}, passwordEnv : {""}]
    \cup [password : {"", "ref"}, method : {"password", "", "iam", "other"}, secret : {""},
          passwordEnv : {""}]

Connecting ==
    {[DefaultConfig EXCEPT !.url = u, !.host = h, !.password = a.password, !.method = a.method,
                           !.secret = a.secret, !.passwordEnv = a.passwordEnv] :
        u \in Given, h \in Given, a \in Auths}

Alerting ==
    {[DefaultConfig EXCEPT !.url = "file", !.slack = s, !.slackURL = u, !.slackSecret = c,
                           !.webhook = w, !.webhookURL = v, !.ticking = t] :
        s \in BOOLEAN, u \in Given, c \in {"", "file"}, w \in BOOLEAN, v \in Given,
        t \in BOOLEAN}

Unordered == {[DefaultConfig EXCEPT !.host = h, !.ordered = FALSE] : h \in Given}

SomeFiles == Connecting \cup Alerting \cup Unordered

NoFiles == {}

AllCommands == {"daemon", "status", "configure", "test"}
StatusOnly == {"status"}

\* A file that terminates connections, which the wizard may leave as it is.
Live == {[DefaultConfig EXCEPT !.host = "file", !.enabled = TRUE, !.dryRun = FALSE]}

FilesAndLive == SomeFiles \cup Live

\* Everything is set, nothing is, or some passwords are missing.
SomeEnvs == {AllEnvVars, {}, {"DATABASE_URL", "PGPASSWORD"}}

NoEnvs == {}

\* Nothing is written, the connection is, all but dry_run is.
SomeCuts == {0, 6, 14}
=============================================================================
