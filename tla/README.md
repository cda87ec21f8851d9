# xuanwu in TLA+

xuanwu is a control panel for a fleet of Xray nodes. The **panel** (one Go
process, one SQLite file) keeps users, nodes and usage; on every node an
**agent** holds a WebSocket connection to the panel, applies the configuration
it is sent to Xray and nginx, and reports traffic and devices. This directory
models the protocols between the two, and the concurrent parts inside each, in
TLA+; TLC checks the models on small instances. TLAPS proves for every instance that
the traffic protocol implements an abstract ledger, and every safety invariant that a
run checks.

Contents: 1 inventory, 2 modules and code, 3 runs, 4 bounds, 5 fairness,
6 proofs, 7 disagreements found, 8 what is not modelled, 9 plan.

## 1. Inventory

Paths are below `internal/` unless they say otherwise.

| component | state | operations | correct when |
|---|---|---|---|
| agent: traffic buffer (`agent/pending.go`, `stats.go`) | pending and in-flight items, sequence number, in memory and in a file | read and reset Xray's counters, collect, batch, ack, load, save | what was buffered is cleared only after the panel counted it |
| agent: session (`agent/agent.go`) | current connection, stats goroutine | dial, register, tick, flush, read loop, stop | every batch is resent until acknowledged; a stop loses nothing buffered |
| panel: hub (`panel/hub.go`) | connection per node, its write queue | register, unregister, readLoop, writeLoop, trySend, PushConfig | the newest connection is the one used; a full queue is noticed |
| panel: ingestion (`panel/traffic.go`) | `traffic_seq`, `data_used`, `node_traffic` | ingestTraffic | each batch counts once |
| panel: config sync (`panel/traffic.go`, `config.go`) | cached signature per node | syncNode, forceSyncNode, enforcementLoop | the node ends up with the panel's configuration; the cache never hides that it has not |
| agent: config application (`agent/xray.go`, `live_grpc.go`, `baseline.go`, `nginx.go`, `certwatch.go`) | config.json, baseline in memory and on disk, last config, nginx.conf | applyConfig, liveApply, seed/set, watchCert, applyNginx | Xray runs what was pushed last; the baseline is what Xray runs; an update cuts nobody off |
| panel: users (`panel/store.go`, `api.go`, `bot.go`) | `users`, `user_nodes`, `node_traffic` | create, update, delete, assign, reset, rotate; bot commands | aggregate and breakdown agree; every node concerned is synced |
| panel: monthly reset (`panel/traffic.go`) | `reset_day`, `last_reset` | monthlyResetDue, autoResetLoop | once per month, also after downtime on the day |
| agent: access log (`agent/devices.go`) | read position in memory and in a file | collect | every connection is reported once |
| panel: devices (`panel/traffic.go`, `store.go`) | `user_devices` | ingestDevices, sweep | rows go with their user |
| panel: admins, sessions, 2FA (`panel/auth.go`, `admins.go`, `twofa.go`, `totp.go`, `portal.go`, `reset.go`) | admins, portal passwords, epochs, TOTP secrets; cookies in browsers | sign in, create, delete, change password, sign out everywhere, enrol, verify, disable, `-reset-admin` | an admin is left; revoked sessions stay revoked; 2FA stays with the verified secret |
| panel: login limiter (`panel/auth.go`) | failures per key and window | blocked, fail, reset | attempts are bounded |
| panel: notifications (`panel/notify.go`, `hub.go`) | offline marks, timers, last known state of users | schedule, fire, online, check transitions | restarts are quiet; the last notice is true; outages and lapses are told |
| panel: Telegram bot (`panel/bot.go`, `app.go`) | settings stored and live, bot goroutine | save settings, restartBot, poll, carry out | one bot; each command once |
| agent: standalone CLI (`agent/standalone.go`, `localstore.go`) | users.json, config.json, baseline | add, remove, apply | a removal is final; a command that succeeds is in force |
| panel: backups (`panel/backup.go`) | snapshot files | snapshot, prune | complete snapshots |
| rest: REST decoding and rendering, subscriptions, web UI, metrics, Docker proxy, ACME file, keys, commands | none, or one file | | |

**How they interact.** The agent dials and registers with its token; the panel
registers the connection and force-pushes the configuration. Each stats tick
the agent drains Xray's counters into its durable buffer, sends one batch under
a sequence number, and sends the devices seen since. The panel ingests, records
the sequence number, acknowledges, and syncs the node, since a user may now be
over quota. Handlers, the bot, the monthly reset and a 30-second loop call
syncNode too, from goroutines of their own; it compares the signature of the
node's effective users with a cache and pushes when they differ. On the node the
session's read loop and the certificate watcher both apply configurations under
one mutex. The hub's register and unregister also drive the offline and online
notices, and the 30-second loop the notices about users. A node without a panel
is run by short-lived CLI processes that share its files and nothing else.

**What is hard.** Nothing locks a node as a whole on the panel: handlers of an
old and a new connection, several syncs and several user handlers run at once,
each a sequence of store calls others may come between. Reads are followed by
writes that depend on them (sequence number, signature, node list, row). Both
processes can stop between any two steps, and parts of their state are files.
Acks and pushes can be dropped. Failures of single steps are often logged and
passed over. `PROJECT.json` lists every such place under `hazards` with the
properties aimed at it.

## 2. Modules and code

| module | models | composes |
|---|---|---|
| `Traffic` | Xray counters, buffer, sessions, ingestTraffic, acks, for one node | agent buffer + session + wire + hub + ingestion |
| `Ledger` | what accounting promises, with no agent, wire or panel in it (abstract) | |
| `TrafficLedger` | the refinement mapping from `Traffic` to `Ledger` | Traffic + Ledger |
| `ConfigSync` | signature cache, pushes, queue, writeLoop, for one node | sync + hub + connection |
| `Apply` | applyConfig and everything it touches on a node | apply + baseline + certificate watcher + nginx + Xray |
| `Accounts` | user rows, handlers, bot, quota, monthly reset, nodes that come and go | handlers + store + ingestion + reset loop |
| `Devices` | access-log watcher, reports, device rows | log + agent + panel |
| `Bot` | Telegram settings, restartBot, the polling goroutine and its commands | settings handlers + bot + Telegram |
| `Notify` | offline timers, marks, notices of users | hub + timers + enforcement loop + Telegram |
| `Sessions` | admins, portal user, cookies, 2FA, `-reset-admin` | handlers + store + CLI process |
| `Standalone` | CLI processes over users.json, config.json, baseline, Xray | processes + files + Xray |
| `TrafficProofs` | theorems about `Traffic`, and that it implements `Ledger` | |
| `SyncProofs`, `ApplyProofs`, `AccountsProofs`, `SessionsProofs`, `NotifyProofs`, `BotProofs` | theorems about `ConfigSync`, `Apply`, `Accounts`, `Sessions`, `Notify`, `Bot` | |
| `AgentProofs` | theorems about `Standalone` and `Devices`, the components of the agent that keep files of their own | |
| `MC*` | model values, symmetry sets and constants for TLC | |

Every action and operator that stands for code is listed in `PROJECT.json` under
`map` with its lines. Variables are named after the fields they hold. Variables
under "history" are read by no action of the system; they record *causes*, so
that a property can say exactly what it excludes.

**Traffic.** One node, since sequence numbers are per node. `buf` and `disk` are
`pendingTraffic` and its file (`save` replaces the file by a rename, so it is
old or new); `hand[c]` is what session c's goroutine has read and reset in Xray
and not yet collected; `up[c]`, `down[c]` are connection c's messages, `rd[c]`
the handler goroutine on the panel, `hub` and `closed` the hub's view, `lastSeq`,
`assigned`, `counted` the database. Bytes are abstracted to *units*, distinguishable
quantities of traffic: adding is set union, and `counted[u]` says how often a unit
reached `data_used`. ingestTraffic is one step per store call.
`AddTraffic` for the items of a batch may run in any order, as it may for the
map the agent builds them from. Old readers and old stats goroutines live on
beside the new ones. A send that fails ends the goroutine and not the session; a
writeLoop that fails leaves its connection open (`deaf`). Of heartbeats and device
reports only the failure of their send is here; rates are left out.

**Ledger and TrafficLedger.** In `Ledger` a unit is idle, volatile (transferred, and
lost if the process that has it ends) or kept; what is kept is credited once and then
released. Two booleans say how far the promise goes: once `lossy`, kept units may
disappear; once `twice`, a unit may be credited again; neither is ever taken back.
The mapping: volatile is what Xray's counters and the agent's goroutines hold, kept is
`pendingTraffic`, in flight or pending, the books are `data_used`, and the two booleans
are the loss and double-counting causes of Traffic. Connections, sequence numbers and
acks do not occur in the ledger: every step that only moves them is a stutter.

**ConfigSync.** One node; each goroutine in syncNode or forceSyncNode is a
worker with a program counter: signature, cache check, PushConfig's connection,
node row, user rows, queue, record or forget. A configuration is its effective
user set, which the signature identifies, and the node's settings, which it does
not. User edits, expiry and node edits are the environment. Connections replace
each other one after the other here; races of registration are in Traffic.

**Apply.** `req` holds what each of the two goroutines wants to apply, `ap` the
mutex holder and its step: write (truncate, then fill: the file is written in
place), nginx, diff, one gRPC call at a time, restart, commit. A configuration
is its settings, whether the TLS inbound is there, and the users of each inbound;
the hash of config.json is the file's content. Nodes have both inbounds
configured. Failed calls may or may not have had their effect. A run starts from a
fresh node or from one that was configured before, its baseline on disk.

**Accounts.** A store method is one step; a handler is a worker that carries its
request and what it has read, and steps from call to call, so every other
handler may come between. syncNode is one step here (`SyncNode`: a connected node
then serves its effective users, one that is not connected is not reached; `Connect` is
handleWS with its forced sync); what can go wrong inside it is ConfigSync's subject. Time
passes in days, `MonthDays` to the month; a limit is a number of units of usage, and a
report carries one. Users are created unlimited, and
expiry is left to ConfigSync.

**Devices.** One user on one node. A log line is two characters and a newline,
which is enough to be met whole, cut, or complete but for the newline; positions
are positions in that file. `collect` is two steps, Stat and Open-scan-save,
because the file can be replaced between them. Which device a line names is left
out: `conns[k]` counts how often line k was added.

**Bot.** `hk[w]` is a request inside handleNotifySettings: token, chat ids, live
settings, then restartBot's two critical sections, each a step. `bots` are the
startBot goroutines, cancelled ones included: nobody waits for them, and a
long poll or a batch goes on after the cancellation. `sent` and `conf` are
Telegram's, which forgets an update when a poll names a higher offset. `adm` says
whether the operator's chat is among the admin ids. What a command does to users is
in Accounts. Settings are taken to have been saved once, so the seeds from the
environment no longer count.

**Notify.** One node and its connections; `h[c]` is the handler of connection c from
handleWS to unregister, `timer[c]` the timer that its end started, `marked` the node's
entry in `offlineNotified`, `known` the users' in `userActive`. The 90 seconds are
`Grace` ticks; a timer fires at its time or later. `notifyMu` matters in one place:
the loop holds it while it posts, and handlers and timers wait.

**Sessions.** Two kinds of accounts in one table `row`, since sessions treat them alike:
admins, who may have 2FA and may be deleted, and one portal user. A cookie is its
account and epoch (signing, expiry and roles beyond "whose" are left out). A request is
a worker: `Begin` is requireAuth, then one step per store call. Secrets are numbered as
they are made up, and a code is the number of its secret. `-reset-admin` is a worker
that a restart of the panel does not touch; a restart runs EnsureAdmin.

**Standalone.** `proc[p]` is a process with what it has read: the users, the baseline
its `ConfigFromEnv` found, the configuration it applies. users.json and config.json are
truncated, then written; Nothing is an absent or empty file, which `loadLocalDB` reads
as no users. The calls of a delta are one step that succeeds or stops anywhere; Apply
takes them one by one.

## 3. Runs

Passing runs. Each property has a mutant in `PROJECT.json`: a changed operator,
such as a plausible bug would make it, under which TLC finds the property violated.

| run | checks | shows |
|---|---|---|
| `traffic_faults` | TypeOK, NoWindowLost, NoDoubleCount | one unit of traffic through every failure of agent, wire, panel and store, with the old connection's goroutines beside the new one's |
| `traffic_live` | ImplementsLedger, EventuallyCounted | two users' traffic with agent stops and panel crashes: Traffic implements Ledger, and the buffer is emptied with everything credited, unless a session without sender or without writeLoop stays up for ever |
| `sync_cache` | TypeOK, CacheHonest | two goroutines in syncNode: the cache never claims what the node does not run or is not about to get |
| `sync_reconnect` | ConvergesUnlessMisled | broken connections, panel restarts, store errors, a dead writeLoop: the node still gets the panel's last configuration |
| `apply_node` | TypeOK, BaselineHonest, FollowsPanel, Seamless, EventuallyRuns | a delta with an addition, a removal and a changed UUID, two settings, a first certificate, every failure on the node; mutex and watcher never keep the node from its last configuration |
| `accounts_edits` | TypeOK, BooksAgree, HandlersSync | two handlers of any kind (API, bot, report, node deletion) at once over two nodes, with store errors |
| `accounts_reset` | HandlersSync, ResetOnce, MadeUp | the monthly reset of a user, with crashes, store errors, an edit or a report between its steps, on a node that comes and goes: not twice in a month, on the day or later in it, and the connected node serves the result |
| `devices_log` | DeviceTypeOK, CountedOnce, NoneSkipped, RowsExpire | partial lines, rotation, truncation, unsaved offsets, lost reports, restarts, deletion of the user under a report |
| `bot_commands` | TypeOK, OneBot, StoredIsLive, CommandOnce, NoCommandLost | settings saved twice at once, or saved and the panel stopped, around a goroutine carrying out commands |
| `notify` | TypeOK, QuietRestarts, LastWord, OutageTold, LapseTold | connections that come, go and replace each other around timers nobody stops, with lost messages, store errors, a deleted node, panel restarts |
| `sessions` | TypeOK, SomeAdmin, RevokedStaysRevoked, TwoFactorKept | four requests of two admins, a portal user and the CLI, two at a time, with store errors and restarts |
| `standalone` | TypeOK, RemovedIsOut, ServesListed | commands at the same time, or one after the other, each killed or failing anywhere |

The properties in words:

- **NoWindowLost**: a unit that reached the buffer is in the buffer, or counted,
  or refused because its user was not assigned, unless the buffer file was lost,
  a save failed, or the store failed inside ingestTraffic.
- **NoDoubleCount**: no unit is counted twice, unless two readers overlapped, the
  panel stopped inside an ingest, the store failed to record the sequence number,
  or the agent's buffer was lost or went back to an older save.
- **ImplementsLedger**: Traffic implements Ledger under the mapping of section 2: a
  unit leaves the buffer only credited or refused, is credited only while it is there
  and only once, and is lost only while volatile. Unlike the two invariants it
  judges every step: what a single credit, refusal or clearing may do.
- **EventuallyCounted**: the buffer is emptied again and again, and then everything that
  ever reached it has been credited or refused; unless from some point on there is always
  a session that lives on without its sending goroutine or without the panel's writeLoop
  (`Stuck`), which nothing in the code ends.
- **CacheHonest / ConvergesUnlessMisled**: with no push under way the cached
  signature is that of what the node runs or is about to get; and the node
  converges, unless pushes overlapped, the store changed between a sync's two
  reads, writeLoop died, or the first read of a forced sync failed, on the
  connection that is up.
- **BaselineHonest / FollowsPanel / Seamless**: between applies the baseline is
  what Xray runs and what config.json says; what was received last is what runs;
  an agent restarted while idle never restarts Xray for an unchanged config.
- **BooksAgree / HandlersSync**: usage equals its per-node breakdown plus what went
  with deleted nodes; when all handlers are done every node serves its effective
  users, except nodes a handler could not know of.
- **ResetOnce / MadeUp**: no second reset in a month, unless reset and record came apart
  or the reset day was moved to a later one; when a round of the loop ends, everybody
  whose day had come has been reset in that month, whether the panel ran on the day or
  not, but for a reset that failed in this round or a day changed during it. A month
  that ends before the panel runs again is not made up for.
- **CountedOnce / NoneSkipped**: a logged connection is counted once, or there is a
  named reason why twice or not at all.
- **OneBot / StoredIsLive**: between requests one goroutine is meant to run, for the
  live token, and can be stopped; a restart of the panel changes no setting. Excepted:
  a restart overtaken by another one, overlapping or half-failed saves.
- **CommandOnce / NoCommandLost**: a command runs twice only if the goroutine that had
  it was given up before confirming it; what Telegram was told to forget was carried
  out or refused, without exception.

- **QuietRestarts / LastWord / OutageTold / LapseTold**: no offline notice before the
  node was away for the grace period, and one per outage, unless the timer of an earlier
  outage was still to come; with nothing under way the last notice is true and the mark
  agrees with it, unless two notices crossed, one was lost or the panel restarted; when
  the node leaves, an offline notice is delivered in the end, unless in this outage GetNode
  or the post failed, the node returns, its row goes or the panel restarts; and so is a
  lapse the loop saw, unless the user is active again, a post fails or the panel restarts.
- **SomeAdmin / RevokedStaysRevoked / TwoFactorKept**: an admin is left unless two
  deletions overlapped; an honoured session was handed out after its account's last
  revocation, unless the account was recreated, the second step of a portal password
  change is missing, or a portal user's change read back a later one's epoch; who was
  told that 2FA is on has it on, with the verified secret, unless two of their 2FA
  requests overlapped.
- **RemovedIsOut / ServesListed**: a user whose removal succeeded is never again in
  users.json, config.json or Xray, however later commands fail or are killed and
  whenever Xray restarts, unless two commands ran at once; a command that succeeds
  leaves config.json and Xray with users.json's users, whatever failed before, unless
  commands overlapped or a second failure put back the config.json of the old baseline.

A property that excepts causes is strong only if the causes are few and
precise. Each cause is set by the one step that is the failure, so everything
before and beside that step is still covered. The causes are departures of the
code from its comments and documents; section 7 goes through them.

## 4. Bounds

Every bound is a constant or a named definition. They limit what TLC explores; the
theorems of section 6 hold for every value the named assumptions admit, so for the
invariants proved there the bounds below only say which instance TLC has looked at.

- `MaxConns = 2` (Traffic, ConfigSync): an old and a new connection are what the
  code tells apart (`Hub.conns` keeps one, `unregister` compares). A third adds
  no new relation. Nothing fails on the last connection a run may dial, so a
  liveness run has finitely many failures, as fairness would otherwise have to say.
- `MaxWire = 1`: one message under way per direction and connection. The original
  and its resend meet on the two connections, which is where they race.
- One user and unit in `traffic_faults`, two in `traffic_live`: two users meet a
  batch that is half added, and a batch in flight beside a pending one.
- `CountCap`, `ConnsCap` 2: "twice or more".
- `QueueCap = 1` stands for 8: a full queue is reached with one message.
- `MaxEdits = 2`: add and take back again.
- `MaxPushes = 2`, `MaxCerts = 1`: two configurations from a fresh node, or another and
  back on one that was configured before; and a first certificate, but no renewal. The
  two user sets of `apply_node` differ in an added, a removed and a changed user.
- `MaxOps` 2 in `accounts_edits`: two handlers at once; 1 in `accounts_reset`, where
  an update or a report races the reset loop. Nodes stay connected in `accounts_edits`
  and come and go in `accounts_reset`.
- `Days`, `MaxDays` 3 and `MonthDays` 2 in `accounts_reset`: two months, a reset
  instant in each or none; `accounts_edits` keeps to day 0.
- `MaxGens = 1` and two lines: lines before, across and after one rotation. The
  safety properties were also checked with three lines, and with two rotations.
- One failed save of the read position per behaviour (Devices): the second failure
  only moves the position further back.
- `MaxChanges = 2`, `MaxCmds = 2`, two tokens (Bot): two saves that overlap, a save and
  a stop, or two stops, around a batch of two. Two saves *and* a stop were checked too.
  Commands are sent to one bot only: what happens to a command depends on the
  goroutines of its own token.
- `MaxConns = 2`, `Grace = 2`, `MaxFlips = 1` (Notify): the timer of the first outage
  against the second connection and the second outage; two ticks tell too early from in
  time. The invariants were also checked with three connections and users at rest.
- `MaxOps = 4` (Sessions): sign in, delete, create, use the old session; or set up,
  verify, set up, verify. Two workers: what races are pairs.
- `MaxCmds = 4` (Standalone) one after the other, `MaxOverlapping = 3` once two have run
  at the same time (constraint `Short`): a baseline, two failures and the command that
  trusts what they left need four; an overwritten edit needs two.

`traffic_faults` has the constraint `Promising`: TLC does not continue from a state
in which a cause of loss *and* a cause of double counting have both occurred. Causes
are never taken back, so from there on NoWindowLost and NoDoubleCount hold by their
exceptions and nothing is left for them to say. (All three invariants of the run are
proved besides, without the constraint.)

Symmetry is used for workers, savers, tokens and CLI processes, which no action tells
apart, and only in `sync_cache`, `accounts_edits`, `bot_commands`,
`sessions` and `standalone`, which check no liveness.

`CHECK_DEADLOCK FALSE` is said for `accounts_edits` and for Devices, Bot, Notify,
Sessions and Standalone, where the environment's bounds end a run with everybody idle;
in the other runs some process can always act.

## 5. Fairness

Weak fairness on the steps of a goroutine says that the Go scheduler runs it and
that calls return; on Dial, Enforce, the watcher, the sweep, Tick, that tickers fire
and time passes. What one end has closed, the other end notices. Nothing makes a session
end while its connection stands: a failed send only closes `stop` (agent.go:226), the
read loop has no deadline, and a dead writeLoop closes nothing (hub.go:128). That is why
EventuallyCounted has its exception. XrayBoots is Docker's restart policy.

Strong fairness appears where a step competes with its own failure. `SendAck`
(Traffic) against a full queue: a living writeLoop drains the queue, and without one
(`deaf`) SendAck is never possible. In ConfigSync the store does not
fail every read, nor the queue refuse every push, for ever. In
Notify a goroutine that waits for `notifyMu` gets it, though the loop takes it every
30 seconds: Go's mutex hands over to a waiter that has starved for a millisecond; and
ListUsers does not fail for ever. Posts return, as the HTTP client has a timeout.
No fairness is assumed of failures, requests, edits, pushes or rotations.

## 6. Proofs

Thirty-three theorems in eight modules, each for every value of its module's constants
that satisfies the `ASSUME`s there. No theorem has a hypothesis of its own. The
assumptions say that bounds are natural numbers, that the faults and requests of a run
are among those the module knows, that a marker such as `NoRow`, `NoId` or `Nothing` is
none of the values it stands beside, and what the names mean (`Owner` gives every unit a
user, `Boot` is an admin, a reset day lies within the month and 0 is one of them, since
new users have day 0). TLC evaluates all of them in the runs.

Each invariant that a run checks is `Spec => []Inv` by way of a strengthening that is
inductive. TLC had checked every strengthening as an invariant before it was proved, on
the instance of the module's run or a larger one. A proof has one step per action; facts
about a helper are lemmas, cited wherever the helper occurs. The first theorem about
each component, `TypeCorrect` (`LogTypeCorrect` for Devices), is its `TypeOK`, together
with what the other invariants need to know about places in the code (`BaseInv`).

**TrafficProofs** (assumptions `OwnerAssumption`, `BoundsAssumption`,
`FaultsAssumption`).

- `TypeCorrect` includes that a batch is marked in flight exactly while there are items
  to resend; otherwise `batch()` would report nothing for ever.
- `Durability`: NoWindowLost is not inductive, since an ack on its way says nothing by
  itself about what it acknowledges. `LossInv` adds, as long as no loss cause occurred:
  `disk = buf`, as every change is saved before anything else happens; a message under
  way carries a sequence number the buffer has given out, and if it is the one in
  flight, the very items in flight (`UpOK`, `MsgOK`); whoever may bring about the ack
  of the batch in flight has seen its units credited (`AckOK`, `DownOK`; the part
  about `lastSeq` is why a *duplicate* may be acknowledged unseen); of a batch half
  added, the users already done are credited (`ReadersOK`).
- `CreditedOnce`: NoDoubleCount from `OnceInv`, which holds while no cause of double
  counting occurred: units that are in no batch yet are uncounted, batches share no
  unit, and a batch beyond `lastSeq` is uncounted unless it is being added right now.
  For that a resend has to be recognised whatever connection it comes by: batches are
  sent in the order of their numbers, connection after connection (`Ordered`), what can
  still be read is not behind what was read last (`Ahead`), and the one reader inside
  ingestTraffic is the newest connection's (`BusyOK`).
- `Refinement`: `Spec => ImplementsLedger`, each action a step of Ledger or a stutter.
  A credit needs the unit to be *still in the buffer*, which neither invariant gives:
  `StepInv` says that without causes the panel is at most one batch behind the agent,
  and only while that batch is in flight.

**SyncProofs** (`SyncBounds`, `SyncFaults`). `SignatureHonest`: CacheHonest speaks of
moments without a sync. Between them (`CacheInStep`), on a connection that nothing
misled, what a goroutine is about to record is what the node is getting, and the cache
is honest unless such a goroutine or a forced sync is about to correct it. `OnePush`,
one goroutine at a time between connection and record, is what the cause "overlap" is
about.

**ApplyProofs** (`NoIdAssumption`, `ApplyBounds`, `ApplyFaults`,
`ClientSetsAssumption`, `NothingAssumption`). `BaselineTrue`, `PanelFollowed` and
`RestartSeamless`. `HonestInStep` says for each step of applyConfig how baseline,
its file, config.json and Xray stand to each other; inside a delta Xray is `Between` the
two configurations, and the calls left are `Orderly`: what is to be removed is added
again afterwards or is to go. `FollowsInStep` follows the last configuration from the
session to config.json and nginx; `QuietInStep` says that after the restart of an
idle agent only the baseline's own configuration comes.

**AccountsProofs** (`FirstAssumption`, `AccountBounds`, `DaysAssumption`,
`AccountChoices`, `NoRowAssumption`).

- `Books`: BooksAgree has no exception. The sum over the nodes is the cardinality of a
  set of units, which a report grows by one element and a reset empties, so that no
  induction over the nodes is needed. The same count, with the reports under way, is at
  most the number of requests (`SumsOK`): that is why usage is bounded in `TypeCorrect`.
- `Synced`: HandlersSync from `ServesInStep`: a node that serves other users than it
  should, and that no handler overlooked, is on some goroutine's list, or assigned to a
  user whose reset has yet to read its nodes.
- `Once`: ResetOnce from `ResetInStep`: the instants a user was reset for lie at or
  before its `last_reset` and not before the reset day of their month, also in the rows
  the loop read earlier; what the loop finds due therefore belongs to another month. That
  needs the calendar: an instant lies in the month it is computed for (`InstantMonth`).
- `RoundComplete`: MadeUp from `MadeInStep`, which says at each point of a round what it
  leaves undone: whoever is neither late nor still on the loop's list, and whose day had
  come, has a reset in this month; and a `last_reset` is backed by a reset of its month.

**SessionsProofs** (`SessionsNames`, `SessionsBounds`). `LastAdminStays`: while a
deletion is between its count and its delete there are two admins (`AdminsLeft`).
`RevocationHolds`: no session has a later epoch than its account, and one of the same
epoch dates from its last revocation (`SessionsInStep`), but for a portal password being
changed. `TwoFactorHolds`: a row's 2FA is what its admin was told, and an admin without a
row was told nothing (`EnrolledInStep`). Epochs and secrets are natural numbers without
a bound.

**NotifyProofs** (`NotifyBounds`, `NotifyFaults`). `RestartsQuiet`: without the cause
"flap" one timer at most is not done, and while the node is away it has at least what
the grace period has left to run (`GraceInStep`). `LastNoticeTrue`: a timer and a
handler that are about to speak exclude each other, and mark and last notice agree but
for the one being sent (`TellingInStep`). TLC had checked both with three connections.

**BotProofs** (`TokensAssumption`, `BotBounds`, `BotFaults`). `OneGoroutine`: of the
goroutines nobody told to stop only `botCancel`'s is not leaked (`OneInStep`).
`StoredStaysLive`: what one request has yet to save or set is all that sets the live
settings apart from the stored ones (`StoredInStep`). `CommandsOnce`: a command is in
one batch at most and, once carried out and until confirmed, below the offset of a
goroutine that is still meant to run (`OnceInStep`). `NothingForgotten`: what is
confirmed, below an offset or passed in a batch has been answered (`LostInStep`). Every
start of a goroutine is owed to a request or a start of the panel, which bounds their
number (`CountOK`).

**AgentProofs**, Standalone (`StandaloneBounds`, `StandaloneNames`). `NodeServes`: a
baseline on disk that would be believed is what Xray runs (`Trusted`), and `Progress`
says how far the only command in progress has brought the files and Xray, wherever it is
killed. `RemovalIsFinal` builds on that (`RemovedInStep`): no removed user is in any of
the three places, UUIDs are numbered, so a new one is nobody's old one, and config.json,
when there is one, lists whom Xray admits of users.json's users; a removal that starts
from a baseline recorded for it therefore finds there whom it has to take from Xray.

**AgentProofs**, Devices. The module extends both components, which is why the names in
Devices are distinct from Standalone's (`DeviceInit`, `DeviceNext`, `DeviceSpec`,
`DeviceTypeOK`). These proofs use no assumption about the constants of Devices: the
generations of the log, a history variable, range over `Nat`, and `MaxGens` only keeps
TLC's instance finite.

- `LogTypeCorrect`: `LogInv` says besides what a half-written line looks like: what is
  still to come is its second character and a newline, after its first character at the
  end of the log, or the newline alone. A position speaks of this log or an earlier
  one, and in this one lies at most one past its end, as the scan counts a newline for a
  last line without one. What is still to be written starts nowhere in the log.
- `LogNoneSkipped`: NoneSkipped speaks of the position in memory; a restart brings back
  the one on disk, which may be older. `SkipInStep` therefore says of both that every
  line not reported and not excused has a character behind the position, or is half
  written at it. Writing only adds behind every position (`Grown`: whatever is appended,
  no line starts a second time); a rotation loses only what was unread, which is
  excused; a read reports what it passes over whole and excuses the rest.
- `LogCountedOnce`: as long as no cause occurred, a line that was reported, and that is
  still in this log, starts before both positions, and a position in this log carries
  its inode and lies within it (`OnceInStep`). So Stat keeps such a position, the scan,
  which reports only what starts behind it, meets no line again, and since it ends at a
  newline the position lands on the end of the log, in memory and on disk. A line
  reported before a rotation is not in the log after it, as it is written once.

**Only model-checked.** Liveness (EventuallyCounted, ConvergesUnlessMisled,
EventuallyRuns, OutageTold, LapseTold, RowsExpire):
fairness and ENABLED are beyond this prover. That is all: every invariant of every run,
and the refinement, is a theorem. The modules use no RECURSIVE operator.

## 7. Where code and documentation disagree

The exceptions of the properties, and the points at which the properties begin, stand
for these behaviours of the code. TLC reached each of them: with the exception left
out, the property is violated.

- Traffic: two handlers of one node, of its old and its new connection, are inside
  ingestTraffic; both read the same sequence number and both add the batch, though
  `traffic.go:22` says "we apply each seq at most once". The same comes of a batch
  read from the old connection after one from the new: its lower number re-baselines.
- ConfigSync: a user is added between the read behind the signature and the read
  behind the configuration, and removed before the next sync; the node keeps the user,
  the cache says it does not, and no sync finds a difference; two syncs at once may also
  queue and record in different orders. `docs/PROTOCOL.md:53`: "so the node is eventually
  consistent with Panel state".
- Traffic: the panel stops between `AddTraffic` and `SetNodeTrafficSeq`, and counts
  the batch again; the agent stops between Xray's counter reset and `collect`, and
  what it held never reaches the buffer, where NoWindowLost begins; a fresh buffer's
  first number equals the last one applied,
  so its first batch is taken for a duplicate; the store fails inside
  ingestTraffic, and the batch is acknowledged all the same.
- ConfigSync: writeLoop ends on an error and the connection stays, so pushes are
  queued, recorded as sent, and never leave.
- Traffic: a session whose send fails (agent.go:226), or whose panel side has lost its
  writeLoop (hub.go:128), stays up as long as its connection does, without reports or
  without acks: the batch waits until the connection breaks or a process restarts.
  Nothing is lost, as `docs/users.md:94` says, but nothing is counted either.
- Apply: a delta fails half way and the restart fails too; the agent stops inside
  an apply and again inside its reversal; a push is applied between the certificate
  watcher's read of the last configuration and its apply, so the older one ends up
  running; a restarted agent first resets nginx to TLS-only and restarts it.
- Accounts: the panel stops, or the store fails, between reset and record, and the user
  is reset twice; an admin moves the reset day to a later day of the month after the
  reset, and the user is reset a second time that month, though `docs/users.md:14` and
  `traffic.go:208` say once per month; a panel that is down from the reset day to the
  end of the month never resets for that month; a node assigned after a rotation has
  read the user's nodes is not synced by it, and serves the old credentials until the
  enforcement loop comes round.
- Devices: the log ends in a line without its newline when it is read; the position
  ends up one past the file, which is then taken for truncated and read again from
  its start; a user is deleted between ingestDevices' lookup and its upsert, and the
  row stays until the sweep.
- Bot: two restarts overlap, and a goroutine is left that nobody can cancel; a save
  fails after the token is stored; a cancelled goroutine's commands are fetched again
  by its successor.
- Notify: `docs/telegram.md:44` promises an offline notice after 90 s without
  reconnecting. Timers are not stopped: that of an earlier outage gives notice of the
  present one early, and the present one's timer gives it again. A node that registers
  between a timer's look at the hub and its mark stays marked while it is connected.
- Sessions: `store.go:277` says that EnsureAdmin creates the bootstrap admin "on first
  boot only"; it does so at every boot that finds it deleted, with epoch 0, for which
  cookies of the deleted account may still fit. handleDeleteAdmin's bump comes after
  the row is gone and revokes nothing. Two admins who delete each other at once are
  both deleted. A 2FA verification writes back the secret it read over one set up in
  between. An admin who resets a portal password does not end the session of a user
  whose own change is between its write and its read of the epoch.
- Standalone: two commands at once lose an edit; a command that meets users.json
  truncated by another takes it for empty and, adding its own user, saves that.

## 8. Not modelled

Request decoding, validation, rendering of links and pages, formatting and logging
have no state of their own. HMAC, bcrypt, TOTP, column encryption and key
generation are arithmetic outside TLC's reach. Metrics, the Docker proxy and the
ACME domain file are I/O. Daily history and audit rows are written by single
statements nothing depends on. That Xray loads a renewed certificate is Xray's
doing. The login limiter only refuses sign-ins; its counts per window have no effect
on any other state. Backups are snapshots one goroutine takes under the store's lock
and prunes by name. `must_change_pw` is read by the portal page alone.

## 9. Plan

Done: Traffic, Ledger and the refinement, ConfigSync, Apply, Accounts, Devices, Bot,
Notify, Sessions, Standalone, their runs, and the theorems of section 6. Next:

`Fleet`, the composition of ConfigSync and Apply: from an edit on the panel to
what Xray runs, with the agent's restarts between receipt and application.
