# pguard in TLA+

pguard watches a PostgreSQL server for connections that sit *idle in
transaction*, raises alerts about them and about the connection pool, and can
terminate them. This directory holds TLA+ modules of it, configurations that
check them with TLC, and proofs that TLAPS checks. Paths below are relative to
the repository.

- [The system](#the-system)
- [The modules](#the-modules)
- [How the daemon is modelled](#how-the-daemon-is-modelled)
- [How the HTTP API is modelled](#how-the-http-api-is-modelled)
- [How the commands are modelled](#how-the-commands-are-modelled)
- [What the runs show](#what-the-runs-show)
- [Where the code and its documentation disagree](#where-the-code-and-its-documentation-disagree)
- [What is proved](#what-is-proved)
- [What is not modelled](#what-is-not-modelled)
- [Plan](#plan)

## The system

| part | state it keeps | operations | what makes it correct |
|---|---|---|---|
| daemon loop, `internal/cli/daemon.go` (`monitorLoop`, `pollAndAlert`, `trackedIdle`, `alertCooldown`) | `tracked` (per pid: `warningSent`, `criticalSent`), two cooldown stamps, the ticker, the deadline of the poll | poll: statistics, pool alert, idle rows, alerts, terminations, resolved alerts | alerts what is overdue, once per spell; terminates only what the policy allows and what really is stuck; resolves only what ended; always comes back to `select` |
| signal goroutine, `runDaemon` | the cancellable context | drain the HTTP server, `cancel()` | the process ends; nothing new is asked after `cancel()` |
| termination policy, `shouldTerminate` | none (configuration) | decide per row | exclusions always win; the first matching protected app decides |
| pool usage, `internal/postgres/models.go` | none | `UsagePercent`, severity | boundaries, no available connections |
| PostgreSQL client, `internal/postgres/client.go` | a pool of three connections | `GetPoolStats`, `GetConnections`, `GetIdleTransactions`, `TerminateBackend`, `CancelBackend`, `GetServerInfo`, `NewClient` | a failed read is never an empty one |
| alert channels, `internal/alerts` | HTTP clients with a timeout of 10 s | one message per event | a failure is reported to the caller |
| HTTP API, `startHTTPServer` | shares the client's pool of three connections | `/health`, `/status`, `Shutdown` | requests, and what they leave of the pool, hold up the loop for a bounded time, every request ends, a stop cuts off nothing that is in time |
| `watch`, `internal/cli/watch.go` | its own `tracked` map | a second polling loop that prints | promises what the daemon's scan promises, though its loop is written differently |
| `kill`, `internal/cli/kill.go` | none | look up, ask, terminate or cancel by pid | acts on the connection it showed |
| `status`, `internal/cli/status.go` | none | one reading, severity, exit code, output | exit code and output agree |
| configuration, `internal/config` | a file, the environment | `Load`, `Save`, `Validate`, `ConnectionString` | what passes `Validate` can run |
| secrets and IAM, `internal/secrets`, `internal/postgres/iam.go` | none | where a password comes from | the documented precedence |
| `configure`, `internal/cli/configure.go` | `newCfg`, the file | prompts, a test of the connection, `Save`, `configure test` | what was tested is what the next command uses; a file makes a daemon kill only if that was asked for |
| `root`, `main`, `util`, `deploy/` | none | dispatch, flags, formatting, packaging | — |

How they interact: the daemon's loop calls the client and the channels
synchronously, one after the other, in one goroutine. All queries of a poll
share one deadline (`queryCtx`), which keeps running while an alert is being
sent. The signal goroutine and the HTTP handlers run beside the loop; the
former shares the context with it, the latter the client's pool, where a call of
the loop queues behind theirs. `watch` has the same shape, without channels and
without terminations. `configure` meets the other commands only through the
file it writes. Between two
calls of the loop the server's clients do as they like: transactions end,
backends exit, pids are reused.

What is hard about it: state that is stale when it is used (the snapshot, the
flags of a pid), one deadline for many calls, a terminate statement whose reply
is lost or that runs late, a poll that fails half-way, crashes that lose all
memory, the order in which rows are handled, shutdown in the middle of a poll,
a pool with fewer connections than users, two loops meant to do the same, a file
written half. `PROJECT.json` lists these hazards at their lines, each with the
properties that cover it or with the reason why none does.

## The modules

| module | what it is |
|---|---|
| `PgActivity` | the environment: the server's backends, their states and idle ages, pid reuse, `pg_terminate_backend` (external: what the queries in `client.go` rely on) |
| `TerminationPolicy` | `shouldTerminate` as an operator |
| `PoolUsage` | `UsagePercent` and the choice of a severity as operators |
| `Daemon` | the daemon next to the server: `EXTENDS` the three above; specifications `Spec`, `FairSpec`, `ReachableSpec`; the properties of a scan, of shutdown, and liveness |
| `DaemonAlerts` | `Daemon` with history variables for the people who get the idle alerts |
| `PoolAlerts` | `Daemon` with history variables for the people who get the pool alerts |
| `IdleAlerting` | abstract: what any watcher of idle transactions promises |
| `LoopSteps` | the daemon's loop reduced to when it uses the client and how it comes to leave |
| `LoopUse` | abstract: the steps of `LoopSteps` as a specification |
| `DaemonRefines` | `Daemon` implements `IdleAlerting` and `LoopUse`: the two mappings |
| `HttpApi` | the process: `LoopSteps` next to the HTTP handlers, the pool they share, and the stop |
| `Startup` | from the command line to the first query: file, environment, `Validate`, connection string, password, alert channels |
| `Configure` | the wizard before another command: `EXTENDS Startup`, whose connection it tests with and whose file it writes |
| `IdleThresholds` | the two thresholds and the skew that `status` and `watch` share |
| `Status` | `pguard status`: one reading, the exit code, the output |
| `Watch` | `pguard watch`: a polling loop of its own, which implements `IdleAlerting` |
| `Kill` | `pguard kill`: look up, ask, terminate or cancel by pid |
| `Operator` | `Status`, `Watch` and `Kill` composed at one terminal, next to `PgActivity`: kill a pid that was shown |
| `MCDaemon`, `MCDaemonAlerts`, `MCPoolAlerts`, `MCHttpApi`, `MCStartup`, `MCOperator` | constants of the TLC instances |
| `DaemonProofs` | `Daemon` has its types; the inductive invariant of a scan and the safety properties of `Daemon` |
| `RefinementProofs` | `Daemon` implements `LoopUse` and `IdleAlerting` |
| `AlertProofs`, `PoolProofs` | what the history variables of `DaemonAlerts` and `PoolAlerts` are for |
| `StartupProofs` | the safety properties of `Startup` and `Configure` |
| `WatchProofs` | the lemmas of `Watch`: its invariant, and which step of `IdleAlerting` each of its steps is |
| `OperatorProofs` | the properties of `Operator` and of the commands in it |
| `HttpProofs` | the safety properties of `HttpApi` |

## How the daemon is modelled

**Control.** `pc` says where the loop's goroutine is. Every place at which it
can block is a value of `pc`, and every stretch of code between two such places
is one action:

| `pc` | the goroutine is in | left by |
|---|---|---|
| `select` | `monitorLoop`'s `select` | `StartPoll`, `StartPollInVain`, `StopLoop` |
| `stats` | `GetPoolStats` | `PoolStatsReturn`, once `ServerCounts` has settled the answer; `QueryFails` |
| `sendPool` | `sendPoolAlert` | `PoolAlertReturns` |
| `idle` | `GetIdleTransactions` | `IdleTransactionsReturn`, `QueryFails` |
| `rows` | the head of the loop over the rows | `BeginRow`, `EndRows` |
| `warning`, `critical` | the two threshold blocks | `CheckWarning`, `CheckCritical` |
| `sendWarning`, `sendCritical` | `sendIdleTransactionAlert` | `WarningReturns`, `CriticalReturns` |
| `autoTerminate` | the termination block | `SkipTermination`, `RequestTermination` |
| `terminate` | `TerminateBackend` | `TerminateReturns`, `TerminateFails` |
| `sendTermination` | `sendTerminationAlert` | `TerminationAlertReturns` |
| `resolve` | the loop over `tracked` | `ResolveQuietly`, `ResolveAnnounced`, `EndPoll` |
| `sendResolved` | `sendResolvedAlert` | `ResolvedAlertReturns` |
| `stopped`, `down` | the process has exited, has crashed | `Restart` |

**Time.** `Advance` moves all clocks by one unit, and only while the goroutine
waits at a call that may go on waiting: until the deadline of `queryCtx`
(`queryLeft`), until an alert has timed out (`sendLeft`), until the ticker has
fired (`nextTick`; the ticker's channel holds one tick, `tick`). A call may
return at any moment before that. Ages of idle backends and the age of the
snapshot (`elapsed`) saturate at `Horizon`, cooldown stamps are kept as the
time since (`sincePool`, saturating at `Cooldown`): the code only compares
them with thresholds. `IdleDuration` is the age the row had in the snapshot
plus the time since plus the skew of the clocks, as `time.Since(state_change)`
is.

**The server.** Between any two steps of the daemon, clients connect, go idle
in a transaction, resume, rename themselves and leave; a pid that is free is
handed out again. `pg_terminate_backend` only signals: the backend exits later,
and until then is still listed, so a second poll may terminate it again.

**Failures.** A query may fail whenever it is waited for (`QueryFails`,
`TerminateFails`), and must once its context is done. The last query of
`GetPoolStats` is read without `rows.Err()`, so it may also end early and
successfully with some groups missing. What the server counts (`ServerCounts`)
and what the daemon makes of it (`PoolStatsReturn`) are two steps: the answer is
on its way in `counts`, the sum for each set of groups that may arrive of it,
while connections come and go. The whole of it arrives in time or not at all, a
part of it may do so when the deadline is over. (The rows of
`GetIdleTransactions` need no such step: none is handled before time and the
server's clients have had their turn after it, and a row carries the age its
backend had.) A terminate statement given up may have
run, may never run, or may run later, even after the process is gone
(`orphans`, `OrphanTerminates`). An alert ends after up to `SendTimeout`,
delivered or not; the code cannot tell, and only `DaemonAlerts` and
`PoolAlerts` do. `Crash` may come at any point and loses `tracked` and the
cooldown; `Restart` starts over with nothing known. A signal may come at any
point; the HTTP server is drained (`stop = "draining"`) while the loop goes on,
and then the context is cancelled. Somebody else may terminate a backend at any
time (`OthersTerminate`: `pguard kill` next to the daemon, or an operator at
`psql`), so a backend that exits need not be the daemon's doing. `Faults` selects
which of signal, crash, late statements and others' an instance has.

**Abstraction.** A client is the pair of `application_name` and `client_addr`,
the only fields a decision reads. `busy` stands for every state that is not
idle in transaction; the two idle-in-transaction states are one. Alert texts,
logging and the total duration in a resolved alert are left out. The three
queries of `GetPoolStats` are one wait: the first two read settings. Rows of
equal age come in either order. A restart by the service manager is the action
`Restart`; no fairness is assumed of it.

**What it promises.** `IdleAlerting` knows of the daemon only what a person
could hold it to: the last word on each pid (`told`: none, seen, warning,
critical), the reading at work, and its age. A reading is of everything that is
idle at one moment; a warning or a critical alert is only of a pid of the
reading, in that order, once, and of a spell that is overdue if it lasts;
"resolved" only of a pid the reading lacks; and a reading is done with
(`Finish`) only when everything it calls for has been said. A loop that left
a scan half-way could not `Finish`; a process that ends may `Lapse`. `DaemonRefines` maps `told` to the entries of `tracked` (`LastWord`),
`reading` to the rows handled and to be handled (`Snapshot`), and `since` to
`elapsed`. `Watch` maps its own map and rows in the same way, so one
specification stands behind both loops, as the code means it to but nowhere
says.

`LoopUse` is the view from the other side: `LoopPlace` folds `pc` into
"select", "asking", "working" and "exited", with `queryLeft` as the deadline. Its
`clock`, mapped to `nextTick`, is there so that a unit of time in which nothing
else changes cannot pass for a stutter.

## How the HTTP API is modelled

`HttpApi` puts `LoopSteps`, and not the whole daemon, next to the handlers. That
this is enough is what `UsesClientAsPromised` says of the daemon.

pgxpool is external: users wait in `queue`, first come first served (it maps each
of them to those before it), and each slot of the pool (`Conn`) has a `user` or nobody; `holders` are those who
have one. A call that returns gives its slot up (`GivesBack`), but that does not make the slot
free: a connection that a deadline broke, or that is too old, is closed after its call has
returned, which takes up to 15 s if the server hangs, and one that was being dialled when its
caller left is dialled to the end. So a slot may go on being taken by nobody for up to
`LingerTimeout` (`lingers`); pgxpool's health check, which closes and dials connections while
nobody waits, takes slots in the same way (`HealthCheck`). A connection that was idle (`rested`)
may turn out to be dead, and then the call that got it queues again (`FindsDead`; of the
loop's calls `LoopCallEnds` and `LoopAsks` do the same). A
request is one call (`Ping`, for `/health`) or four (the three queries of
`GetPoolStats` and that of `GetIdleTransactions`, for `/status`); between two
calls the slot is given up and the request goes to the end of the queue. `hleft`
is what is left of the handler's five seconds. A call may fail at any moment and
must once its deadline is over (`Expired`, `BreaksOff`); the requester may hang
up, which is the same. `lwait` measures how long a call of the loop has been
waiting for a slot.

`SignalArrives` begins `Shutdown`, `CancelLoop` is its return: no handler left,
or its own five seconds over. Requests on connections accepted earlier may still
come, once each (`latecomers`). When the loop has left, the deferred
`client.Close()` begins (`proc = "closing"`): it refuses who waits for a
slot, closes the connections that nobody uses, and waits, with no deadline, until every
slot is free. Then `main`
returns and takes what is left with it.

## How the commands are modelled

**`Startup`** follows one command from reading its configuration to being at
work (`pc = "serving"`), or to the error or panic that ends it. What matters of
a setting is where its value comes from: nowhere (`""`), the file, an
environment variable, AWS. `LoadFile` is `initConfig` with a file: every
`${VAR}` is expanded, one that is not set to nothing. `Validate` is called by
the daemon and by `configure test` only. `UseURL` and `UseParameters` are the two
halves of `buildConnectionString`, `ResolvePassword`, `FetchPassword` and
`PasswordFails` the methods of `ResolvePassword`. `Ping` is the first connection, and with it the password
that is used (`PasswordToConnect`): with `iam` a token made for it, with a `url` what that says,
and where the connection string has none (`client.go:116` leaves an empty one out) what pgx
takes in its place, `PGPASSWORD` or else that of a password file (`PgxFallback`). In the same way `SetUpSlack`, `FetchSlack` and
`SetUpWebhook` are the channels of `runDaemon`, and `EnterLoop` is the call of
`NewTicker`, which panics on an interval that `Validate` let pass. What the test
message to Slack comes to is only logged, so it is no choice of the model.
`configure test` goes the same way, reports errors instead of ending
(`FailsTo`), and looks for Slack without the secret (`TestSlack`).

**`Configure`** runs the wizard and then another command, in another
environment, over the file it left (`NextCommand`). Prompts between which
nothing is decided are one action, so there is one per paragraph of the dialogue.
What is typed is nothing, a text, or a reference (`"ref"`), which stays as it is
in `newCfg` and is expanded by the next command. `tested` keeps the target and the password that
the test connected with. The test of the connection is
`NewClient`, hence the steps of `Startup`, with `newCfg` unexpanded. `Save` is
`yaml.Marshal` and `os.WriteFile`, which empties the file first: `SaveBreaksOff`
leaves the first `n` settings in the order of the fields of `Config`
(`YamlOrder`), and `Cut` reads such a file over the defaults. (Cut between two
settings; within one the file is malformed, and no command starts.)

**`Status`** keeps the two readings of the clock apart. The rows are graded for
the exit code one by one, youngest first, and a critical row ends that loop;
then they are graded again, one by one, for the output. Time may pass before
each of these steps (`StatusAges`), so one row can be a warning for the code and
critical in the output. An error of `NewClient` or of a query goes up to `main`,
which exits with 1. `--quiet` leaves the output out.

**`Watch`** is built like `Daemon`: `wpc` is the place its goroutine is at. It
polls once before the first tick, sees a pid for the first time and warns of it
in one step (`FirstSight`), grades each row by the time it is reached, resolves
also what it never warned of, and has neither cooldown nor channels: a line on
the screen is said when it is printed. Ctrl+C cancels the context, and `select`
may still prefer the tick. The line on the pool's pressure is left out, since
nothing reads it.

**`Kill`** has one deadline of 10 s for the look-up, the prompt and the
statement (`kleft`). The operator may think for longer than that; the answer is
then followed by an error. The prompt may also end without an answer
(`PromptFails`: the end of the input), which is an error and sends nothing. The server may run a statement before the reply is
waited for, before the deadline passes, or, when the command has given up,
later (`late`). With `--cancel` the statement is `pg_cancel_backend`, which an
idle backend does not notice.

**`Operator`** composes them over one server: `status` or `watch`, then perhaps
`kill` on a pid that it showed, then any of them again, while connections come
and go, pids are reused and clocks move (`TimePasses` ages all of them at once).

## What the runs show

| run | specification | result |
|---|---|---|
| `daemon_alerts` | `AlertsSpec`, 2 pids, 2 applications, a protected one listed twice, skew 1, crashes | 2.0 million states, holds |
| `daemon_faults` | `FairSpec`, 1 pid, signals, crashes, late statements and others' | 49 thousand states, holds |
| `alert_live` | `ReachableSpec`, 2 pids, slow alerts | 31 thousand states, holds |
| `kill_live` | `ReachableSpec`, 2 pids that are a critical pool, alerts that return at once | 40 thousand states, holds |
| `pool_alerts` | `PoolAlertsSpec`, 2 pids, two connections to give | 1.3 million states, holds |
| `startup` | `SetupSpec`: daemon, status, configure, configure test; some 260 files, all sets of 6 variables | 961 thousand states, holds |
| `http_api` | `HttpSpec`, 2 requests and the loop at 1 slot | 101 thousand states, holds |
| `operator` | `OperatorSpec`, 2 pids, status, watch and kill, deadlines of 1 unit | 692 thousand states, holds |
| `excluded_killed`, `second_spell`, `unheard_resolved`, `database_url` | small instances | violated, see below |

**`daemon_alerts`** asks whether what a poll does is right for the spell its
snapshot saw (`SameSpell`: idle without a break since before the snapshot),
although every alert may take half of the budget and rows are handled long
after they were read. `KillRequestJustified`: a terminate request is allowed by
the policy, its snapshot is no older than `polling.timeout`, and the target, unless
it has left the spell since, has been idle for `auto_terminate.after` and is not
spared by the policy as its client is now: within a spell nobody renames itself
into an exclusion, and a row that waits only grows past its `min_idle_time`.
`ResolvedMeansGone`: nothing is announced as resolved that is still in its
spell, whatever queries failed before. `OverdueIsFlagged`: at the end of a scan
no overdue spell lacks its flags. `CriticalFollowsWarning`.
`NoDuplicateAlert`: one spell is warned of once and reported critical once by a
process, whatever polls fail in between. `ResolvedAnswersAlert`, here with
channels that deliver: a resolved alert answers an alert that was received.
`AlertsAsPromised`: the daemon implements `IdleAlerting`, so beyond the single
properties every step of it is one that a watcher may take.
The budget is two units and an alert may take one, so that a row can be reached
before the deadline, at it, and after it; thresholds of 2, 3 and 4 make a row
cross each of them while it waits; the skew makes the daemon's idle times
differ from the server's.

**`daemon_faults`** asks whether the loop survives: `PollAlwaysReturns` (a poll
ends whatever the server and the channels do), `ShutdownCompletes` (a stop
signal ends the process from wherever it is, though `select` may prefer the
tick), `NoQueryAfterCancel`. `PollIsBounded` and `StopIsBounded` say how long that
takes: a poll begins with `PollTimeout` for its queries and `SendTimeout` for
each of one pool alert and three alerts per backend (`TimeLeft`), nothing that
happens prolongs it, and every unit of time uses some of it up; after `cancel()`
no poll begins, so the stop waits for that remainder and no longer. A row has three
alerts at most and a pid that is gone has one, and no pid is both a row and
gone, which is why three per backend are enough. (With two channels of 10 s each and
three backends it is over three minutes.) `AnnouncedIsSignalled`: an answer that was lost is not taken for
a yes, though another's signal may have done the daemon's work.
`UsesClientAsPromised`: the daemon implements
`LoopUse`, so no time passes in a call of the client whose deadline is over, and
no poll begins with anything but the full budget. One backend is enough, since these are about the
order of the daemon's own steps; that one fills the pool, so that pool alerts
are sent as well, and alerts may take as long as a whole poll.

**`alert_live`** and **`kill_live`** assume a reachable server. A transaction
that stays idle past the threshold is flagged (`LongIdleIsFlagged`); the flag of
a pid that has gone is dropped (`FlagsAreCleared`), and with auto-termination
and prompt channels a stuck transaction is ended (`StuckIsTerminated`). Two
backends compete for the budget of one poll. `alert_live` has a pool that never
gives an alert: an alert that takes as long as a poll's budget leaves nothing
for `GetIdleTransactions`, so with one in every poll (a `cooldown` of at most
`interval`) `LongIdleIsFlagged` fails. In `kill_live` two connections are a
critical pool, and `PoolPressureIsReported`: a pool that stays critical is reported
as critical, although single polls read part of the statistics, or statistics that are
no longer so, and although the cooldown refuses alerts in between. `kill_live` sets `SendTimeout` to
0 for a reason: with slow channels `StuckIsTerminated` fails, since alerts sent before
the terminate statement use up the deadline, and rows come youngest first. A
daemon whose pool alert (with `cooldown` at most `interval`) or whose idle
alerts for younger transactions take all of `polling.timeout` in every poll
never terminates the oldest one.

**`pool_alerts`**: README.md says of `cooldown` "Prevent alert spam".
`PoolAlertsSpaced` is the strongest form the code keeps: two alerts of one
severity reach people no closer than the cooldown less the time one alert may
take, since the stamp is set before sending. With two connections to give, one
connection is a warning and two are critical, and both severities alternate.
`PoolAlertIsTrue`: the client takes a result that broke off for a whole one, and
connections may close while the answer is on its way. So an alert may say too little or be
missing, and it may say more than is so when it is sent; but at some moment since its
poll asked for the statistics (`peak`) the server had as many connections as the
severity says. That too little is not said for good is `PoolPressureIsReported`, above.

**`startup`** goes through every combination of url, host, password, method,
secret and `password_env` (each written in the file, taken from a variable,
or absent), and of the settings of the two channels. The two groups share only
the fact whether there is a connection, so they are varied apart.
`NamelessOnlyByDatabaseURL`: a daemon that connects has a target that its
configuration names, also after references to unset variables have become
empty, with one way around it, which is finding 4. `PasswordIsFromItsPlace`: a
method that says where the password is never falls back to an empty one, to
`connection.password`, or to what pgx takes where a connection string has none.
`ChannelsNeverBlock`: whatever becomes of Slack and the webhook, a daemon that
has reached its database begins to watch it. The wizard starts from no file or
from one that terminates connections (`Live`), makes every file its prompts
allow, and is followed by every other command, in every pair of three
environments (`SomeEnvs`: everything set, nothing, some passwords missing).
`TestedIsUsed`: what its test connected with is what the next command connects
with, by every method, with two exceptions. A password with a reference is tested as it
was typed. And where none was typed, pgx finds one, or none, in the environment of each
command; the two differ from `PGPASSWORD` in the test only if the next command lacks it. `KillsAsAsked`: a daemon that runs on the wizard's file terminates
connections only if the wizard was told so, even if the file was cut off
(`SomeCuts`: before everything, behind the connection, before `dry_run`); it rests
on the default of `dry_run` being true. `LoopIsConfigured`: whoever wrote the file and
however far, the loop of a daemon runs only on thresholds in order and a
positive interval; it is what `DaemonAssumption` and `PoolAssumption` take for
granted. The run does not check for deadlock: a
command that is at work, or over, takes no further step here.

**`http_api`** asks what the handlers may do to the loop and to the stop.
`LoopWaitsBounded`: after one handler's deadline nobody is before the loop in the queue
and nobody has a slot, whatever requests there are, as nobody overtakes it and
who was before it has given up by then; and what these left behind, connections being
closed or dialled, keeps it waiting for no longer than one of them takes. The loop's
budget is longer than that (`PollTimeout` 4, `HandlerTimeout` 1, `LingerTimeout` 2), so the
bound says more than that the poll gives up, and a slot lingers for longer than
a handler may take, as in the code (15 s and 5 s). With the code's numbers the bound is 20 s,
and a poll has 10 s (`polling.timeout`): against a server that hangs a poll may well
spend all of its budget waiting for a slot. `CutOffOnlyOverdue`: a stop abandons no request that was there at the
signal and is in time, because `Shutdown` has as much time as a handler.
`RequestsEnd`, and `ProcessExits`: the process ends though `Close` waits for
every slot with no deadline of its own. One slot for three users
makes each wait for each.

**`operator`** relates what a person is told to what is so.
`OutputBearsOutCode`: though rows are graded twice, the exit code never reports
something that the output does not show (the reverse fails, as the output is
later). `CodeCoversReading`: a critical pool, or a transaction past a threshold
at the time of the reading that is still in that spell, is never missed by the
code, in spite of the early end of the loop. `ConfirmedIsFresh`: a statement that is waited for rests, while its deadline runs, on a
look-up at most 10 s old, however long the prompt stood. (One that was given up may
run at the server later.) `OnlyTheConfirmedDie`: what is signalled is the pid that was
named and not declined; it may have been given to another backend since, as in
finding 1. `WatchAsPromised`: `watch` implements `IdleAlerting`, whatever polls
fail and whenever Ctrl+C comes. One backend is a warning for the pool and two
are critical; the horizon of 2 holds both thresholds.

**Bounds.** `Horizon` is at least the largest threshold as the daemon's clock
sees it (`DaemonAssumption`), so saturating ages changes no comparison;
`Interval`, `PollTimeout` and `SendTimeout` are one or two units, which gives
every order of "tick", "deadline" and "alert over". Two pids are the smallest
number with a row before another, a reused pid next to a live one, and a
resolve loop with more than one entry. `PidSymmetry` is used for safety only.

**Fairness.** `Fairness` is weak fairness of time (`Advance`), of the loop's
goroutine (`PollStep`) and of the signal goroutine once `Shutdown` has returned
(`Cancel`; the code bounds it by 5 s). Go's scheduler and the timeouts justify
these, and no more is assumed for `daemon_faults`: a reply that never comes is
replaced by the deadline. `SetupSpec` assumes weak fairness of `StartupStep`: every
call made there has a timeout (15 s for AWS, `connect_timeout`, 10 s for a test
message). Of the wizard it assumes nothing, since nobody has to answer it.
`HttpFairness` is weak fairness of the pool, of deadlines and of the goroutines;
that no infinity of requests and polls begins within one unit of time (`Begins`); and strong fairness of the loop's `EndPoll`, which is what
`PollAlwaysReturns` says of the daemon. The server need not answer anything.
`OperatorSpec` has no fairness: an operator may walk away. `ServerFairness`, for the two liveness runs, says that
the server is reachable: strong fairness of an answer to each query in time (an
infinitely retried query is at some time answered before its deadline; for the
statistics, counted at some time and answered whole; for terminations per pid), and
that a signalled backend exits.
Strong fairness of `TerminateReturns` per pid is needed: if one victim's reply
came too late in every poll, it would starve the next one.

Every property has a mutant in `PROJECT.json`: a plausible slip in the code (an
operator marked "Faulty" next to the one it would replace), under which TLC finds it violated.

## Where the code and its documentation disagree

1. **An excluded application can be terminated** (`excluded_killed`).
   `deploy/README.md:242` says of `exclude_apps` "Never kill these". The policy
   is applied to the row of the snapshot, the statement names the pid only
   (`daemon.go:301`), and by then the pid may be that of a new backend or the
   client may have changed its `application_name`.
2. **A second spell on the same pid is not announced** (`second_spell`).
   `deploy/README.md:231` says "Alert after 30s idle". The flags belong to the
   pid and are dropped only by a poll that does not see it (`daemon.go:312`).
   A transaction that resumes and goes idle again before the next poll sees it
   absent is never alerted.
3. **A resolved alert for a warning nobody received** (`unheard_resolved`).
   The comment at `daemon.go:319` says "if we had sent warning/critical alerts";
   the flag is set after a send whose error was swallowed (`daemon.go:275`), and
   the warning is not tried again either.
4. **`DATABASE_URL` is not used to connect** (`database_url`). `README.md:84`
   exports it as all that `status` needs, `README.md:54` gives nothing else to
   the daemon in Docker, and `Validate` accepts it in place of `url` and `host`
   (`config.go:268-272`). `buildConnectionString` (`client.go:84`) does not read
   it; the method that does, `Config.ConnectionString`, is not what `NewClient`
   uses. Only a configuration that says `url: ${DATABASE_URL}` works.
Remarks, which have no run, as no property over the modelled state would be
about them. Of the documentation:

- `README.md:165` and the help of `status` give exit code 1 to "Warning
  threshold exceeded"; `main.go:11` exits with 1 for every error too.
- `README.md:140-141` shows a header `"Bearer ${WEBHOOK_TOKEN}"`; `expandEnvVars`
  does not touch headers.
- `README.md:143-146` shows auto-termination without `dry_run`; its default is
  true, so nothing is terminated (which is also what `KillsAsAsked` rests on).
- `README.md:109` lists logging among what is configured; nothing reads it.
  `README.md:110` says "Secrets stay in your chosen secret manager, never in
  plain text"; the wizard writes a password as it is typed.
- `deploy/kubernetes.yaml` sets `auth_method: env`, and its secret holds
  `DATABASE_URL` only.

Of the code:

- A password is escaped for a URL (`client.go:115-117`) but put into a
  keyword/value string, where nothing undoes the escaping. `os.ExpandEnv` runs
  over passwords written in the file as well, and drops a name that follows a `$`
  in them; the wizard tests such a password as typed.
- The wizard takes a warning threshold that is not below the critical one, and
  then names `pguard daemon` among the next steps (`configure.go:554`), which
  refuses it. A malformed file stops `configure` as well, which could repair it.
- `configure test` prints "[SKIP]" for a Slack URL that is in Secrets Manager, and
  exits with 0 whatever it found.
- A secret in JSON without the field "password" is used whole, as a password.
- `/status` ignores the error of `GetIdleTransactions` (`daemon.go:460`) and shows an
  empty list; `watch` does not print the pool's pressure when its second query
  fails (`watch.go:103-106`).
- The duration in a resolved alert is counted from `firstSeen`, the first poll that
  saw the pid, and not from the transaction's idle time.
- The fields of `auto_terminate` are written in the order of the struct: in a file
  cut off within them `dry_run` may be there and `exclude_apps` not.

## What is proved

Every theorem holds for every value of the constants that satisfies the named
assumptions of the modules: `PgAssumption`, `PolicyAssumption`, `PoolAssumption`
and `DaemonAssumption` for the daemon (any finite set of pids, any clients, any
thresholds with warning below critical, any budgets, any skew that `Horizon`
covers, any set of faults), `AlertsAssumption`, `PoolAlertsAssumption`
(`Cooldown > 0`), `ThresholdsAssumption`, `StatusAssumption`, `WatchAssumption` and
`KillAssumption` (deadlines are naturals, an interval is positive),
`StartupAssumption` and `ConfigureAssumption` (any files, variables, environments
and cuts), and `HttpAssumption` (any requests, at least one slot, any time a slot may linger, and
`Shutdown` with no less time than a handler). Each run evaluates the assumptions of its modules.

| module | theorems |
|---|---|
| `DaemonProofs` | `TypeCorrect`: `Spec => []DaemonTypeOK`; `ScanCorrect` (`DaemonTypeOK /\ ScanInv`), `KillsAreJustified`, `ResolvedIsTrue`, `NothingOverdueIsMissed`, `WarningComesFirst`: `Spec` keeps `KillRequestJustified`, `ResolvedMeansGone`, `OverdueIsFlagged`, `CriticalFollowsWarning`; `AnnouncedWasSignalled`: and `AnnouncedIsSignalled`; `CancelIsFinal`: `Spec => NoQueryAfterCancel`; `PollLengthIsBounded`, `StopTakesNoLonger`: `Spec => PollIsBounded`, `Spec => StopIsBounded` |
| `RefinementProofs` | `DaemonUsesClientAsPromised`: `Spec => UsesClientAsPromised`; `SayCorrect` (`SayInv`); `DaemonAlertsAsPromised`: `Spec => AlertsAsPromised` |
| `AlertProofs` | `HeardCorrect` (`HeardInv`), `AlertsTypeCorrect`, `NobodyIsAlertedTwice`: `AlertsSpec => []NoDuplicateAlert`; `ResolvedAnswers`: the same for `ResolvedAnswersAlert` if `Lossy = FALSE` |
| `PoolProofs` | `SpacingCorrect` (`SpacingInv`), `PoolAlertsTypeCorrect`, `PoolAlertsKeepTheirDistance`, `PoolAlertsAreTrue`: `PoolAlertsSpec => PoolAlertsSpaced`, `PoolAlertIsTrue`; `MoreUseIsNoMilder`: of the grading alone, it leaves no gap and is monotone |
| `StartupProofs` | `StartupTypeCorrect`, `TargetIsNamed`, `PasswordHasItsPlace`, `KillsOnlyAsAsked`, `LoopHasWhatItNeeds`, `TestHoldsGood`: `SetupSpec` keeps `StartupTypeOK`, `NamelessOnlyByDatabaseURL`, `PasswordIsFromItsPlace`, `KillsAsAsked`, `LoopIsConfigured`, `TestedIsUsed` |
| `OperatorProofs` (with `WatchProofs`) | `OperatorCorrect` (`OperatorInv`), `OperatorTypeCorrect`, `LookUpIsFresh`, `OutputBearsOut`, `CodeCovers`: `OperatorSpec` keeps `OperatorTypeOK`, `ConfirmedIsFresh`, `OutputBearsOutCode`, `CodeCoversReading`; `KillHitsTheConfirmed`: `OnlyTheConfirmedDie`; `WatchKeepsPromise`: `OperatorSpec => WatchAsPromised` |
| `HttpProofs` | `HttpCorrect` (`HttpInv`), `HttpTypeCorrect`, `LoopWaitIsBounded`, `NothingInTimeIsCutOff`: `HttpSpec` keeps `HttpTypeOK`, `LoopWaitsBounded`, `CutOffOnlyOverdue`; `SomebodyIsNext`: whenever users wait, one of them is at the head of the queue, before all others |

**The scan.** `DaemonTypeOK` is inductive by itself. The safety properties are not:
they speak of a backend now and of thresholds crossed at a snapshot taken earlier.
`ScanInv` ties the two together and is inductive relative to `DaemonTypeOK`:

- `BudgetInv`: the age of the snapshot plus the budget left is at most
  `PollTimeout` as long as some budget is left, so a request made in time rests
  on a young snapshot however the alerts before it used that time.
- `RowInv`: for each row not yet handled, and for the current one, the backend's
  age is the row's age plus the snapshot's, if it still is in the spell of the
  snapshot. This carries "the row said so" over to "it is so".
- `CoverInv`: every spell older than the snapshot is among the rows handled or
  to be handled; so at the resolve loop such a pid is in `seenPIDs`.
- `FlagInv`: each row behind the loop that was past a threshold has its flag,
  except the current one before its block is through.
- `OrderInv`: `criticalSent` within `warningSent` within `tracked`.

The key lemmas are `SpellsUnderPg` (no step of the server's clients makes a
spell that is older than the snapshot) and `SpellsUnderTime` (time keeps the
difference between the two ages until they saturate). That a policy which let a
row go would let it go now is `LongerIsNoSafer`: the first matching protected
application decides, and its `min_idle_time` is only ever passed.

**How long a poll lasts.** `TimeLeft` is the queries' budget, the time of the
alert being sent, and `SendTimeout` for each alert that may still come
(`AlertsLeft`, a sum of cardinalities). `AtHandInv` makes it a number and its
bookkeeping right: the rows left are finitely many, the pid at hand is among
those seen, outside an alert no time of one is left. The lemmas named
`...Spends` show action by action that what a step adds to one summand it takes
from another; the one that needs thought is the snapshot (`ReadingSpends`): it
replaces "three per backend" by "three per row and one per tracked pid that is no
row", which is no more since rows and pids that are gone are disjoint.
`PgAssumption` demands finitely many pids for these counts; a server has
`max_connections`. The bound is a safety property: what `PollAlwaysReturns` and
`ShutdownCompletes` add to it is that time and the loop go on.

**What is announced.** `AnswerInv`: behind an answer "true" there is the signal,
as long as the spell lasts. It is inductive since a signal is only cleared by the
exit of its backend, which ends the spell.

**The refinements.** Every action of `Daemon` is one step of `IdleAlerting`, or
none. `Read`, `Warn`, `Critical` and `Resolve` need their guards from `ScanInv`;
`Finish` needs `FlagInv` for what is overdue and `SayInv` for the rest: rows that
are reached are tracked, and a warning under way is due. `LoopUse` needs no
invariant. `Watch` is proved the same way from `WatchInv`: `PlaceInv` (what each
place implies), `RowsInv` and `CurInv` (a row's idle time lies between the
spell's at the reading and now), `FlagsInv` (what was overdue is flagged once its
row is done with).

**The people alerted.** `HeardInv`: a pid that anybody was warned of in its present
spell has the flag, is idle, and belongs to the reading at work. It is what makes
`EndPoll` and the resolve loop harmless: a spell that is known is never
forgotten. `OpenInv`, for channels that deliver: a flag stands for an alert that
was heard and not resolved. `SpacingInv`: a cooldown's stamp is at most one send
older than what people heard. `PoolAlertIsTrue` needs an invariant too, since the count is
older than the alert. `PeakInv`: no part of the answer under way adds up to more than the
connections the server has had since the poll asked. `ServerCounts` establishes it, as
fewer groups count no more connections (`CountIsPart`), and no other step but the one that
takes the answer touches it (`CountsMove`). The rest is about the operators: `PoolSeverity` picks a
grade whose threshold is reached, and more use reaches whatever less does
(`GradeIsReached`). `MoreUseIsNoMilder` holds of every integer, as
`status` grades with the same operators.

**The commands.** `KillInv` bounds the look-up's age and the time left together
(`sinceShown + kleft <= KillTimeout`). `StatusInv`: what the code says is borne out
by the pool, by a row not yet graded for the output, or by the output
(`BornOut`); it covers the rows graded (`Covered`); and the rows are old enough
for every spell that lasts (`ReadingInv`). In `StartupProofs`, `PlaceInv` and `ValueInv`
say which command can be where with which values, `ConnectionInv` what
configuration stands behind a connection string, `LiveInv` that a file with
termination switched on was asked for, `TestedInv` follows what was tested from
`newCfg` through the file to the next command's configuration. Both speak of the password that
is used and not of the one that was found (`Used`, `PasswordUsed`), which is where pgx's own
come in. `LoopInv` follows the
two settings from the file to the loop: whatever else is expanded, resolved or
defaulted, what `Validate` and `NewTicker` saw of them is what the file says.

**The process.** `AheadInv`: whoever is before the loop in the queue, or has a
slot while the loop waits, has been there since the loop began to wait, so
what is left of its deadline and the wait add up to at most `HandlerTimeout`; and what any
slot has left to linger and the wait add up to at most `HandlerTimeout + LingerTimeout`, as it was
left by one of those or was there before (`LeftInTime`). Time passes for a waiting loop only while every slot
has a user that is not overdue or still lingers, which is why the wait itself stays below
that bound. `StopInv`: from the
signal on, a request that is no latecomer has at most as long to go as
`Shutdown`, and nothing to go once the loop is cancelled. `LineHasHead`: of finitely many
who wait, one has the smallest set of users before it, and that is empty.

`ScanInv` was checked with TLC on the instance of `daemon_alerts` before it was
proved, and the proofs were tried against models with a guard or a reset taken out,
under which they fail.

Only model-checked: all liveness (`PollAlwaysReturns`, `ShutdownCompletes`,
`LongIdleIsFlagged`, `FlagsAreCleared`, `StuckIsTerminated`, `PoolPressureIsReported`,
`ChannelsNeverBlock`, `RequestsEnd`, `ProcessExits`), since fairness and `ENABLED`
are beyond the prover. Every safety property of a passing run is proved.

## What is not modelled

- What AWS does to answer (`FetchPassword` takes an answer or an error), parsing of
  a JSON secret, and token lifetimes of IAM.
- Of pgx: its service file (`PGSERVICE`) and the other variables it takes what is
  missing from (`PGHOST`, `PGSSLMODE`, ...), of which only the password matters to a property.
- A listener that cannot be opened: a daemon with no requests.
- A secret of AWS whose password is empty: pgx would look for another one.
- Layout: Slack messages, webhook payloads, the bodies of HTTP answers, tables,
  `--verbose`, `configure show`, `util`. `watch`'s line on the pool's pressure.
- Parsing of flags and of the pid of `kill`; `--config`, which puts another file
  in the place of the default one.
- `GetServerInfo`, `TestConnection` and `Config.ConnectionString`, which nothing
  calls.
- The deployment files, beyond the restart they ask for.
- `polling.interval` of zero or less in `Daemon`, and `--interval 0` in `Watch`:
  `NewTicker` panics (`daemon.go:195`, `watch.go:72`); `Startup` has the daemon's
  panic, and `LoopIsConfigured` says that no loop gets past it.

## Plan

Done, in this order: `Daemon` with its environment, the alerts seen from outside
and the invariant of a scan; `Status` and `Kill`; `Startup`; `IdleAlerting` with
`Watch`; `LoopUse` with `HttpApi`; `Configure`; the proofs.

Left: the starvation of the oldest row by slow channels, described under
`kill_live`, as a property of an instance with three backends; and two processes
side by side (a daemon while an operator runs `kill`), of which `OthersTerminate`
has the signal only; `Daemon` and `Operator` would share one `PgActivity`.
