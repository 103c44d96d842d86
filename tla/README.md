# A verification project for meegle-cli

`meegle` is a command line client: each command is a process of its own that
resolves an identity, builds its command tree from a remote catalogue, calls a
tool over HTTP and prints the answer. Little of it is concurrent inside one
process, and almost all that is hard happens *between* processes that share files
in one home directory (tokens, queues, caches, settings), or between the program
and foreign code and services that may fail, hang, repeat or answer late.

The modules here are TLA+ models of those parts, model-checked with TLC on small
instances; for many of them the main properties are proved with TLAPS for every
value of the constants. `IPM` stands for `src/internal/products/meegle`.

## Inventory

### Parts of the system

| part | sources | state it keeps | operations |
|---|---|---|---|
| telemetry consent | `IPM/telemetry/{settings,reporter,lock}.go`, `IPM/telemetry_runtime.go`, `IPM/commands/telemetry.go` | settings file (switch and generation), disclosure file, three process locks | record, upload, enable, disable |
| telemetry delivery | `IPM/telemetry/{queue,routes,uploader}.go`, `IPM/telemetry_runtime.go` | a queue directory and an upload marker per route, a sequence file | enqueue, list and prune, report, acknowledge, clear the marker |
| sampling policy | `IPM/telemetry/policy.go` | policy cache per route | load, refresh if due, record a failure |
| token life cycle | `IPM/auth/{token_manager,file_store}.go` | the stored token, the refresh lock file | get, try to refresh, clear if current, save, clear |
| token stores | `IPM/auth/{fallback_store,keychain_store,file_store,token_store}.go` | keychain entry, encrypted file, machine key | load, save, clear, fall back |
| OAuth flows | `IPM/auth/{device_flow,code_flow,callback}.go`, `IPM/commands/{auth,helpers}.go` | poll interval, deadline, callback server | poll, slow down, exchange |
| batch execution | `IPM/batch.go` | job channel, result slots, first error | collect, feed, work, assemble |
| tool execution | `IPM/mcp_runtime.go`, `IPM/mcpclient`, `IPM/cliapi_runtime.go`, `IPM/cliapiclient` | pages merged so far, retry counters, idempotency key | call, refresh and retry, follow a redirect, merge pages |
| registry and caches | `IPM/{registry,file_cache,cache,cli_config_cache,session}.go` | cached catalogue and configuration, session file | load, discover, invalidate |
| identity and bootstrap | `IPM/{identity,app,firstrun}.go` | resolved identity | resolve, attach the stored token |
| configuration | `IPM/config.go`, `IPM/commands/config.go` | profiles in one file | edit, switch, remove |
| platform extensions | `src/internal/extension/platform` | registered hooks, wrappers and rules, trackers of one command | install, observe, wrap, allow or deny, start up, shut down |
| transport extensions | `src/internal/extension/transport` | the wrapped HTTP client | round trip, redirect, abort |
| credential extensions | `src/extension/credential` | registered providers | resolve |
| attachments | `IPM/attachment`, `IPM/attachment_register.go` | parts, temporary files | upload in parts, download |
| command framework | `src/cmd`, `src/pkg/framework`, `src/pkg/runtime/cliapp`, `IPM/command_runtime.go` | the error and the result of one command line | build, route, validate, execute, render, exit |
| output, SDK, npm launcher, scripts | `src/pkg/integrations`, `src/sdk`, `src/npm` | update-notifier cache | format, embed, launch |

### How they interact

* Commands, detached maintenance processes and other shells never talk to each
  other; they meet in files. Some meetings are guarded by `flock` locks that the
  kernel releases when a process dies (telemetry), one by a lock *file* that a
  crash leaves behind (token refresh), and several by nothing but an atomic rename.
* A command's HTTP client calls the token manager before each request and once
  more after a 401; discovery calls it to drop a token that stays rejected.
* A command line enters foreign code through `wrapRunE`: observers, policy,
  wrappers and, around everything, lifecycle hooks with deadlines. Wrappers get a
  callback `next` that they can call from goroutines.
* A batch command calls the tool client from several workers in one process, so
  its workers are also concurrent users of the token manager.

### What is hard

| behaviour | where | what makes the part correct |
|---|---|---|
| consent withdrawn while recorders and uploads of other processes are under way | consent | after a successful disable nothing older is kept or sent; disable is atomic to an observer; it terminates |
| crash after a report was accepted and before its files are gone; partial refusal; lists older than the queue; several accounts in one queue | delivery | no early resend, no loss below the quota, nobody else's events, no event stuck |
| simultaneous 401s, stale lock files, failed saves, login during a refresh | token life cycle | exclusive refresh, no spent refresh token, no newer token overwritten or deleted, no command stuck |
| two places for one secret, a keychain that comes and goes, torn files | token stores | a reader finds the token of the last login, or there is a reason |
| first 401 or cancellation in a fan-out, early exits of workers | batch | no invented row, one call per ID, a 401 fails all, the command returns |
| wrappers that misuse `next`, hooks that hang | extensions | no false success, one run of the handler, quiet after return, cleanup tried, the process ends |
| retry, refresh and redirect in one call; endless or repeating pages | tool execution | a mutating call has one idempotency key; pagination ends and loses no page |
| caches read while another process replaces or invalidates them | registry, identity | tools are filed under the profile they are for; a rejected token is removed alone; a login invalidates |
| an edit is a read, a change and a truncating write, without a lock | configuration | no edit is lost but by an overlap; the current profile exists |
| a server lists anything | registry | every tool is served or reported; no listing breaks the tree, or the start |
| plugins whose `Install` outlives its time | extensions | whole or not at all; who restricts is never left out |
| byte ranges, repeated runs, a shared partial file | attachments | what is reported as uploaded or downloaded is whole |
| an error that passes renderers, hooks and the exit | framework | told once, never turned into a success |

The hazards, each at its line, are the list `hazards` of `PROJECT.json`.

## What is modelled

| module | what it models | used by |
|---|---|---|
| `TelemetryConsent` | recorders, uploads, enable and disable over the telemetry locks | implements `ConsentPromise` |
| `ConsentPromise` | what the user is told about disable | |
| `TelemetryDelivery` | queues, quota, marker and reports of the uploads | |
| `TokenRefresh` | the refresh lock and the life of a stored token | |
| `Login` | login, logout and status over keychain, encrypted file and key | |
| `ProfileConfig` | the edits of `config.json` | |
| `Startup` | identity, tool cache and session of starting processes | |
| `Handoff` | the CLI API commands and the config snapshot | |
| `WrapperChain` | the wrappers around a handler | `ExtensionRun` |
| `ExtensionRun` | hooks, observers, policy and wrappers of a process | |
| `PluginInstall` | the installation of plugins | `CommandRun` |
| `Catalog` | what becomes of a listing of tools | `CommandRun` |
| `Selection` | what a loop with an append keeps of a list | `Batch`, `Catalog` |
| `Batch`, `Pagination`, `Upload`, `Download` | the executors of commands | `CommandRun` |
| `CommandRun` | one invocation, from its plugins to its exit code | |

`CommandRun` composes the six modules that it extends: each has its own variables, its
own initial predicate and next-state relation, and a stage of the command takes
steps of the one that its code calls; a step of the command is a step of at most
one of them, which `CommandRunProofs` proves. `ExtensionRun` and `WrapperChain`
compose the same way. The `MC*` modules give structured constants to TLC; the `*Proofs`
modules hold the theorems. A definition below a comment that begins with `Fault:`
is a plausible bug of the action that follows it; no specification uses it. It is
there so that each property can be seen to fail when the code is wrong in that way.

### TelemetryConsent

Actors are failing commands (each with one event), shells and detached uploaders.

| state | code |
|---|---|
| `enabled`, `gen`, `disclosed` | `settings.json` and `disclosure.json` (`settings.go`) |
| `queue` | the files of the queue directory |
| `sendLock`, `quotaEx`, `quotaSh` | the `.send-lock` and the shared/exclusive `.quota-lock` (`lock.go`) |
| `cpc`, `cgen` | `Reporter.recordContext`, with the generation its command started under |
| `upc`, `ugen` | `SetTelemetryEnabled` |
| `mpc`, `mgen`, `batch`, `acks` | `Uploader.Run` |

A recorder looks at the settings three times: before the lock, under the lock, and
after the rename that makes its event visible, when it may take the event back.
These are actions of their own because a disable can come between any two of them.
Crashes, expired waits and I/O errors are one action per actor
(`RecordFails`, `DisableFails`, `UploadFails`), possible in every state.

Abstractions. The settings, sequence and queue locks cover single steps and are
folded into them. The maintenance lock, which bounds how many uploaders wait, is
left out: there may be more uploaders here than in the program. The identity key,
limits and sampling are abstracted to "any nonempty part of the queue may be sent,
or nothing". The notice counts as shown once it is persisted.

*One property is deliberately about successful disables only.* An uploader compares
generations of the settings, not of the events; when a disable crashes or times out
before the queue is cleared, its events stay in the queue, and after a later enable
they can be uploaded. `src/README.md:1052-1057` promises the clearing for a disable
that reports success, which is what `ClearedStaysCleared`,
`NothingSentAfterDisable` and `DisabledQueueIsEmpty` state (together: `DisabledIsSilent`).

### ConsentPromise

What the user is told: pending and outgoing events, an epoch for each, and a
`Withdraw` that happens in one step, when nothing is pending or outgoing, and after
which no event of an older epoch is accepted. `TelemetryConsent!Promise` maps the
queue, the requests about to leave and the generations to it.

### TelemetryDelivery

The same queue seen from the other side: several routes (service hosts), several
accounts in a route, the retention, the quota, the marker of the last upload
attempt, and the loop of `Uploader.Run`. There is one maintenance process at a time
(the maintenance lock, `telemetry_runtime.go:299-307`), which cleans all queues and
then uploads for one account; commands record concurrently. It may stop anywhere.

An event is identified by its sequence number, so the oldest event is the smallest
one; numbers may be given out and never appear, and files appear in any order. A
list (`snap`, `all`) is older than the queue. `attempt` is `none`, `recent` (less
than an hour ago) or `due`; an hour passes only while no process runs, because a
process is limited to seconds. `recent` and `acknowledged` are history.

Left out: the byte limits beside the numbers of events, unreadable files, clocks
that go back, and the refresh of the sampling policy, which runs beside the upload
and shares nothing with it.

### TokenRefresh

Commands (`GetToken` at bootstrap and before each request, `TryRefresh` on a 401,
`ClearTokenIfCurrent` when discovery stays unauthorized), and shells that log in and
out without the lock. A token is the number under which the service issued it.
Whether a token is expired or accepted is up to the clock and the server: both are
possible whenever the code looks. `WithRefreshLock` is modelled with its file: created
exclusively, `stat`ed for its age, renamed away when it is older than ten minutes.

Abstractions. The store is one atomic cell; `Login` looks inside it. A refresh
that returns no new refresh token keeps the old one in the code; the two are not
distinguished. A lock holder that is alive is assumed to finish within ten minutes
(guard of `Age`). The code has no timeout that would make sure of it; a refresh
request that hangs for longer loses the lock to the next command. The workers of a
batch, in one process, behave as several `Procs`.

### Batch

One invocation of a batch command. A number is what `ParseNumber` leaves of its text: sign,
digits, how many of them follow the point, exponent (`Spellings`). `Key` is
`canonicalIntegerKey` on these: the zeros it cuts off and the exponent it computes, with no
exponent expanded. `Value`, which says what number a spelling stands for, is used by the property
alone. The channel is the pair
`fed`, `taken`: it has room for every job, so sending never blocks. `cancelled` is the
user's cancellation; the first 401 is `firstErr` and cancels the fan-out as well. A
result slot that nobody wrote is `"zero"`, which would be printed as a success: that
is the hazard `BatchIsTrue` is about.

### Pagination

One tool command: `MCPRuntime.Execute` for commands that are neither batch nor
attachment commands. Each request, the first one and those that fetch pages, goes
through `mcpclient.Client.Call`, which repeats it once after a 401 and a refresh.

| state | code |
|---|---|
| `cmd` | the parsed flags and the parameters that the tool declares |
| `mode`, `cursor` | `currentToken` of `paginateByToken` or `currentPage` of `paginateByPageNum` |
| `merged` | the list field of the merged payload, each item tagged with its page |
| `pageCount`, `streak`, `total`, `why` | `pageCount`, `emptyStreak`, `total`, and the `break` that ended the loop |
| `out` | `state.Result`: data, `truncated`, `stopped_reason`, `next_page_token`, `next_page_num` |
| `pages`, `ran` | history: replies received, requests that the server carried out |

A page number is an `int` of `MaxInt` values. A reply is any combination of a list, a
null or missing list or no object at all, with or without token and `has_more`: the
server is not trusted. Properties say what the code makes of that.

Four things the code does that a reader may not expect; the model follows it and the
properties name them as exceptions:

* a page whose list is `null` replaces what was merged (`mcp_runtime.go:739`), so
  `NothingLost` speaks of the pages from the last null list on;
* a page that is no JSON object ends the loop without a mark
  (`mcp_runtime.go:500-503`, `623-626`);
* with tokens, an empty last page counts towards the streak, so a complete result may
  carry `stopped_reason`; with page numbers the code avoids this on purpose
  (`mcp_runtime.go:629-632`);
* the page cap is looked at before the total, so a complete result may be marked
  `truncated`. A mark is therefore a warning, while its absence is a statement, and
  `UnmarkedIsComplete` is about the absence.

### Handoff

Processes that run `ai-handoff availability`, `create-link` and `preference handoff`,
with the service and the config snapshot on disk (`jsonFileCache`).

| state | code |
|---|---|
| `pc`, `attempt`, `retried` | `Client.call`, its retry counter, and the second request of `callWithRefresh` |
| `net` | requests that a client may have given up on and the server has yet to see |
| `version`, `open`, `links` | the service (external): its config, and the links by idempotency key |
| `cache` | `cli-config.json` with its time stamp; `by` (history) is its writer |
| `known`, `racing`, `unclear` | history, for the two properties about the snapshot |

An answer is taken up in the step in which the server gives it: until it writes the
snapshot, a client does nothing else with it, so a delay of the answer is a delay of
`Store` or `Clear`. Timeouts, 5xx and 429 are one action (`Fail`), possible whether the
request was carried out or not. The service is assumed to honour the key, as
`client.go:157-159` does. `newIdempotencyKey` may in principle return no key when
the system has no randomness; that case is left out, as are the contents of requests.

### WrapperChain and ExtensionRun

`WrapperChain` is `buildWrapper` for N wrappers around a handler. A wrapper may call
`next` itself or from a goroutine, twice, late or never, swallow its error, fail or
panic; its tracker (`called`, `closed`, `violation`, `caller`, `below`) lets one call
through. A layer is entered at most once because the tracker above admits one call,
so one activation record per layer is enough. A wrapper whose selector fails open is
not in the chain: that is a smaller N. Errors are classified as the exit code does:
the command's own failure, a rejection by an extension, a runtime error. A handler
that reports `SuccessfulExit` counts as `ok`.

`ExtensionRun` is `App.ExecuteWithIO` around it: startup hooks in order and shutdown
hooks in reverse, each in a goroutine with a deadline, fail-closed or not; the
observers; the verdict of the policy, which is drawn once because it depends on the
command alone. Command lines that never reach a command are `CommandRun`'s.

A factory may hand `next` to a goroutine and fail afterwards: `buildWrapper` then
returns without closing the tracker (`runtime.go:423`). `Escaped` names that layer, and
`QuietAfterReturn` says that it is the only way around the wait.

### Login

`auth login` in its forms (browser, device code, and the two halves of a device login
for scripts), `logout`, `status`, and a command that uses the token.

| state | code |
|---|---|
| `keychain`, `up` | the item of the keychain and whether it can be reached (`keychain_store.go`) |
| `file`, `machineKey` | the encrypted token file and the key file (`file_store.go`) |
| `primaryFailed` | whether `FallbackStore` fell back in this process |
| `interval`, `waited` | the poll loop of `device_flow.go` with `slow_down` and its deadline |
| `catalog` | the token for which the cached tools were fetched |
| `settled`, `may`, `kept`, `excused`, `early`, `skew` | history, for the two properties |

Each step that touches the keychain, the key file or the token file is an action,
a crash may come between any two, and the keychain fails and recovers. A token file
is truncated and then written. `may` collects the tokens that a load may find by
right: those settled when it began and those of writers that overlap with it. Creating
the machine key is one step for each process; two processes may still both create one.

### ProfileConfig

`config init`, `set`, `show`, `profile use`, `create` and `delete`, and the host that
`auth login` saves. `file` is what a reader takes `config.json` for and `text` whether it
is whole: `os.WriteFile` truncates first, so a reader may find nothing and take that
for an empty configuration. `asked` is the file that the same edits would have made one
after the other; `harm` notes what could excuse a difference: a write from an outdated
view, a read of a half written file, a crash in a write, a garbled file.

### Startup

`NewCLIAppContext` up to the session: the profile of the command line or the current one,
the account and the token of an extension, the configuration, the stored token, the
cached tools or those that the server lists, and the identity the command runs with,
which is resolved a second time when the first attempt found no configuration.
`inspect` resolves an identity of its own (`handler`). Around two starts the world moves
`MaxEvents` times: a login, a refresh, a revocation, a switch of the profile, ageing.
The client's own refresh is `TokenRefresh`'s: here a 401 that stays is one outcome of `Ask`.

### PluginInstall

`Install` asks each plugin, in turn, for its capabilities, name and version, and then lets
it fill a staging registrar in a goroutine. `running` are the plugins whose goroutines may
still register, `frozen` the registrars that no longer listen. A registration is a hook,
a rule, or a call that the registrar notes as an error; of several of one kind it
does not matter how many there are. The name of a plugin is taken when it is seen, not
when its plugin is accepted, so a skipped plugin keeps its name.

### Catalog

`mapAndSanitizeTools` and `buildCommandTree`: tools become commands, commands are accepted
or rejected one after the other, and the groups get what the CLI adds (`user me`,
the attachment shortcuts, the batch form). Names are abstracted to members of small sets
(`LowerKebab` are those that a server may give). `Answers` says which of the server's,
the local and the static commands a root name reaches.

### CommandRun

`executeWithFactory`, `App.ExecuteWithIO`, `executeParsed` and the pipeline, for five kinds of
command: a local one, a batch, a tool, an upload, a download.

| state | code |
|---|---|
| `kind` | the command, and so the executor that its tags select |
| `stage` | where the invocation is; `factory` covers plugins, listing and tree |
| `err`, `rendered`, `told` | the error of the command, `AlreadyRenderedError`, the times it was printed |
| `printed`, `code` | the result is on stdout, the exit code |

An executor that the command does not select stays at one of its initial states. The
wrappers around the command are `ExtensionRun`'s and left out here; `--format` and the flags
are a choice of outcomes; `--dry-run` stops before the executor begins, and a batch has
no such form. `Panic` is the deferred recover of `executeWithFactory`, in every stage up to
the exit code, also after the result was printed or an error rendered; while the factory or
an executor is at work, a panic is told like one before or after it, so only those are steps.
`WorkerPanics` is one in the goroutine of a batch's worker, which nothing recovers: it ends the
process without a word.

### Upload and Download

`Upload` is one file and the runs that repeat it: the server names the parts that it
lacks with their ranges, which are off by one for the last part at times
(`chunkBodySize`), the file may grow and shrink while they are sent, and the answer to the
last part carries the token. `Download` is several processes with one output path and
therefore one `<output>.partial`: names lead to files, and a process keeps writing to the
file it opened whatever becomes of the name. `overlapped` notes that two were at work
at the same time. The file of an upload is known by its size: content that changes at the same
size is told apart neither by the code, which looks only at sizes, nor by the model, so
`UploadIsWhole` is about ranges of the file and not about one version of its bytes.

## What is checked

Every run ends within two and a half minutes or so on two workers. The bounds are constants of
the `.cfg` files and guards named in the modules.

| run | instance | question |
|---|---|---|
| `TelemetryConsent` | 2 commands, 2 shells, 1 uploader, 2 changes of the consent, failures anywhere | what a successful disable promises at every interleaving, the refinement to `ConsentPromise`, and that a disable returns |
| `TelemetryDelivery` | 4 events, 3 accounts, 2 routes, quota 2, reports of 2 | reports only of what is due, no loss below the quota, nothing stuck |
| `TokenRefresh` | 2 commands, 1 shell, 3 tokens, failures and crashes | exclusive refresh, no spent refresh token, no step back, every command ends |
| `TokenRefreshStaleLock` | 3 commands, crashes | finding 1 |
| `Login` | a process that logs in or out beside one that logs in, uses the token or asks for its status; 3 tokens, 2 machine keys, 1 outage of the keychain, poll interval 1 and expiry 2 | what a load finds, what the catalog belongs to, every login ends |
| `ProfileConfig` | 2 processes with any two of 12 commands over none, one or two profiles, kills | edits are lost and the current profile dangles only by named overlaps |
| `Startup` | a tool command beside a local, offline or inspect one, 2 profiles, 2 tokens, 1 event of the world | who a command runs as, and under whom it files what |
| `Handoff` | 2 commands in every combination that interacts, 1 retry, 2 versions of the config | one link per command, only named ways to a stale snapshot, every command ends |
| `HandoffRace` | the same without retries | finding 2 |
| `ExtensionRun` | 2 wrappers, with factories that give `next` away early, and 2 hooks at each end, one of each fail-closed | truth of the exit code, gates, cleanup, exit |
| `CommandRun` | one invocation of each kind, see below | plugins, tree, executors, errors, exit |
| `CommandExitCode` | the same | finding 3 |

Why these bounds reach the interesting cases:

* *Consent.* The critical case is disable, enable, and a worker that slept through
  both: two changes. A second command lets one event be committed while another is
  rolled back. One uploader is enough, since the send lock admits one and a second
  would only wait. The proofs of the safety properties cover any numbers.
* *Delivery.* Two accounts on one route are needed for "events of others", a quota
  of two and three events on a route for pruning, a second route for the quota
  across routes, a report of two for a partial refusal.
* *Tokens.* Two commands are enough for "two see the same 401"; but only one can
  recover a stale lock then, and the run with three is finding 1. Three tokens are one
  that is stored and two issued later: a refresh and a login, or two refreshes.
* *Login.* Two processes are enough for two writers, or a writer and a reader, of
  one secret. Two keys are one for each process that misses it. One outage
  separates a save that falls back from a load that finds the keychain again. The deadline
  of two intervals is passed with and without a `slow_down`.
* *ProfileConfig.* One lost edit takes two processes. Profiles `a`, `b` and `default`,
  the last of which the code treats specially, let an edit meet the current
  profile, another one and one that is missing.
* *Startup.* One event of the world between any two steps of a start is what each of the
  three properties turns on. Two profiles tell "mine" from "foreign".
* *Handoff.* One retry with a refresh in each attempt gives four requests of one
  command, any of which may arrive late. The race needs one reader and one writer.
* *Extensions.* Two wrappers give one that is both inside and outside of another.
* *CommandRun.* Plugins and listings are varied one at a time, as what becomes of the one
  does not depend on the other: up to two of six plugins (two names, either policy, with and
  without restriction), or every listing of up to two of eighteen tools and of three of
  eleven. *Batch*: lists of up to two IDs in twelve spellings (of 7 in four ways, 70, 8, -7,
  zero, one half), and seven longer ones; two workers and a cap of three give every race of a
  401, an exit and a dropped job, "too many" and "just enough after deduplication".
  *Pagination*: a cap of four and a streak of two let the loops end for every reason; with numbers
  up to 6, the start pages 0, 1, 3 and 4 reach an invalid start, the cap, the cap on
  the very largest number (`exhausted`), and the largest number before the cap. *Upload*: up to three bytes
  in parts of two, run twice, have a short last part and a part sent again. *Download*: two
  processes with objects of two parts and of one, so that a mixture can be told.

Each property of a passing run has a mutant in `PROJECT.json`: a faulty version of
one definition under which TLC finds that property violated in the same run.

### Fairness

Only what the code itself pushes is fair. A process that runs keeps running (weak
fairness of its steps); nobody has to start a command, crash, time out or fail, and
no property depends on a failure happening.

* `TelemetryConsent`: running recorders, uploads and disables proceed. Weak fairness
  suffices for the locks, although `flock` promises no order among waiters, because no
  new holder arrives while the switch is off; `DisableEnds` exempts the case in
  which somebody turns it on again.
* `TelemetryDelivery`: commands keep starting maintenance processes for their
  account, and an hour passes again and again. Time passes only between processes,
  and processes end within seconds, so it is strong fairness of `Tick` that says
  "time passes". The property is conditional: `EventsLeave` asks only that the
  processes of one account eventually work (`Smooth`), without crashes and refusals.
* `TokenRefresh`: running commands proceed and time passes (`Age`). The deadline of
  a lock wait is not counted on: commands end because stale locks are recovered.
* `Login`: a running process proceeds. The wait for a callback has a limit
  (`callback.go:76`) and a device code expires; the user need not approve.
* `Handoff`: a running command proceeds. While it waits for an answer, that is the
  timeout which `doCall` sets for each attempt; the server need not answer.
* `ExtensionRun`: the handler and the wrappers go on, and deadlines pass. Hooks need
  *not* return, which is the point of `ExitsDespiteHangs`.
* `CommandRun`: the process goes on, while its surroundings (late registrations, an
  interrupt, other downloads, a file that changes) are never fair.

In `TokenRefresh`, `Login` and `CommandRun` the fairness of a step that waits for a server
is an assumption about the network: token, tool and attachment requests go through a
client without timeout (`mcpclient/client.go:70`, `auth/http_client.go:34`,
`attachment_register.go:449`). What their liveness shows is that no loop, lock, channel or
retry of the CLI keeps a command from ending when its requests are answered or fail.
`ProfileConfig` and `Startup` have no loops and state no liveness.

### Findings

1. `TokenRefreshStaleLock`: `removeStaleRefreshLock` checks the age of the lock file
   and renames it in two steps (`auth/file_store.go:97`). Of two processes that saw
   the stale file, the slower renames away the fresh lock of the other; both then
   refresh, which the comment of `WithRefreshLock` (`file_store.go:60-61`) rules out.
2. `HandoffRace`: an availability command that was answered before a preference change
   writes the snapshot after the change has cleared it
   (`cli_config_provider.go:54`). `cliapi_runtime.go:284-288` promises that the next
   availability does not serve "a decision from before the change", and
   `README.md:272` that the cache is invalidated immediately. `StaleOnlyByRace`
   shows that this is the only way besides a failed clear.
3. `CommandExitCode`: `errors/errors.go:122` says that a server error has exit code 2.
   `renderError` (`src/cmd/execute.go:108-126`) asks the error for its code only when
   it prints it itself; one that the pipeline has rendered leaves with 1.

### What else a reader of the code should know

Each is what the code does and what the models follow; a property names it as its
exception, or the model leaves it out.

* `TryRefresh` drops the token it obtained and reports only success
  (`auth/token_manager.go:160`). When it could not be saved, the retry sends the
  rejected token again, although a store failure "must not prevent the caller from
  using the freshly exchanged token" (`token_manager.go:124-126`).
* A login stores its token without the refresh lock; a start that was refused may remove
  it (`LoginLostOnlyByOverlap`), and a refresh may overwrite it.
* After a save that fell back, keychain and file each hold a token
  (`auth/fallback_store.go:22-23`, `45`); `LoadIsExplained` excuses a load that finds the other.
* A login that reaches the keychain clears the token file whoever has written it
  (`FallbackStore.Save`). With four processes and two outages a later login's token may be
  the one in that file: a browser login has written the keychain and not yet cleared the file,
  a logout empties the keychain, a third login falls back to the file, and `auth status` finds
  nothing, although no logout came last. `excused` names such a load. No run has four
  processes: the attempt to prove `LoadIsExplained` without this found it.
* Headers that are no JSON object are dropped when a profile is loaded
  (`config.go:194-204`) and cleared for good by the next login (`config.go:258`), without any
  overlap: the theorems about `ProfileConfig` are about files and edits without them
  (`OrderlyFiles`), and TLC checks files without them.
* A wrapper factory that gives `next` to a goroutine and then fails leaves a tracker that
  nobody closes (`extension/platform/runtime.go:423`): the handler can start behind
  a command that has returned (`Escaped` in `QuietAfterReturn`).
* The root names that a server may not take are a list by hand (`registry.go:31-39`),
  and `telemetry` is not on it: a listing can take that command over (the exception
  in `TreeHolds`).
* Downloads to one path share `<path>.partial` (`attachment/download.go:93-94`); two at
  a time may produce a mixture (`overlapped` in `DownloadIsWhole`).
* `inspect` files in the invocation's profile the tools that another profile was listed
  (`app.go:357`; `ForeignToolsOnlyByInspect`).
* A preference update that was given up on may be carried out after a later one
  (`cliapiclient/client.go:168`). Its order is left to the service.
* An upload marker written by a clock that was ahead is trusted for up to an hour
  (`telemetry/queue.go:227`). Clocks that are set are not modelled.

## What is proved

All proofs hold for every value of the constants under the named assumptions of the
modules, which only type them (`CatalogAssumption` says besides that the table of known tools
gives each its own path, and what is no lower-kebab name), and under the hypotheses that a
theorem states itself (`OrderlyWorld`, `OrderlyFiles`, below). Each theorem rests on an inductive invariant,
which TLC checked on the instances above before it was proved.

* **`TelemetryProofs`**, the consent. `DisableIsFinal` (`DisabledIsSilent`) from
  `NoEventComesBack`, `NoEventIsSentLate` and `DisabledIsEmpty`; `NoEventIsLost`,
  `ClearIsExclusive`; and `Refinement`: the specification implements `ConsentPromise`.
  The inductive invariant is `TypeOK /\ LockInv /\ GenInv /\ DeleteInv /\ FreshInv`.
  `LockInv` says which states hold which lock, so that a disable that clears excludes
  everybody else; `GenInv` bounds what was cleared by the current generation;
  `DeleteInv` gives a reason to each deletion under way; `FreshInv` extends
  `ClearedStaysCleared` from the queue to the hands of recorders and uploaders, without
  which it is not inductive: an event between check and rename is in nobody's queue.
  `QuietInv` (nothing between check and rename while the switch is off and all is
  quiet) and `UnknownInv` (a command that has not started is unknown) are added for
  the empty queue and the refinement.
* **`TelemetryProofs`**, the delivery. `Rested` (`ReportsAreDue`) and `Causes`
  (`LeavesForCause`). The invariant: `PlaceInv`, where the process is and what it
  holds; `MarkInv`, whatever was sent within the hour and is still queued has a
  fresh marker at its route; `KnownInv`, the process knows all of that: it is in its
  list when it decides that the route is drained, and in its acknowledgements when it
  goes on to the next report. `CauseInv` adds that lists are part of the queue, that
  the lists of different routes are disjoint and that acknowledgements are backed by
  the service. That a pruned event leaves a quota of newer ones behind, although the lists
  are older than the queue, then follows from facts about cardinalities.
* **`TokenRefreshProofs`.** `LockInv` says who owns the lock file at which place and that
  a stale one belonged to a process that died in the section. `ExclusiveButForRecovery`:
  refreshes are exclusive, with any crashes, as long as no two waiters are between the
  `stat` and the rename of a stale lock; so the recovery is the *only* way around
  the lock, and finding 1 is that way. `Exclusive` (`RefreshExclusive`) follows under
  `OrderlyWorld`: nobody crashes, or there are at most two processes, since the second of two
  waiters needs a third that died. Given exclusion, `FreshInv` says that what a process in the
  section exchanges or saves is still the stored token unless a shell logged in or out
  meanwhile, and `IssueInv` that tokens come from the service in order: hence `NothingSpent`
  (`NoSpentRefresh`), `GoesForward` and `TokensAreKept` (`TokenNeverGoesBack`).
* **`LoginProofs`.** `LoadExplained` (`LoadIsExplained`) and `CatalogFollows`
  (`CatalogFollowsLogin`), for any number of processes, outages and kills, and `TypeCorrect`,
  which bounds the polls of a device login (`RoundInv`: the interval grows by one for
  a wait of at least one). Writers and loads announce what they may change or find: by
  `OverlapInv` each knows the effect of each writer it overlaps with. `StoreInv` says that the
  keychain holds a settled token, that of a writer under way or one it kept when it failed,
  and the file a settled one; `WriterInv` and `LoadInv` carry this through the two steps of a
  save, a logout and a load. `UseInv`: unless a login has come in between, a command under
  way looks for a token that is settled still, so the catalog that it fetches may stay.
* **`ProfileConfigProofs`.** Under `OrderlyFiles`, `EditsAreKept` (`LostOnlyByOverlap`) and
  `CurrentIsThere` (`DanglesOnlyByRace`). `FileInv`: as long as there was no harm, the file is what
  the edits ask for whenever nobody has it open, and whoever is about to write writes just
  that; the lemma `EditIsAsked` shows for each edit that its chain of load, change and save
  makes what `Asked` says. `ReliedInv` follows the profile that a `use` or `create` counts on from
  its list to its write.
* **`StartupProofs`.** For any processes, profiles and events: `CachesAreOwn`
  (`ForeignToolsOnlyByInspect`), `RunsSelected` (`RunsAsSelected`) and `LossesByOverlap`
  (`LoginLostOnlyByOverlap`). `ProcInv` ties what a process has resolved to its place: the
  profile from the launch on (`Invoked`), the profile of its identity from the account on
  (`HasIdentity`), and, between the comparison and the removal of a rejected token, that the store
  still has that token or none, unless a login came between (`Clears`), which is the part that
  other processes disturb (`Stays`).
* **`HandoffProofs`.** `Typed` (with the bound on retries, which needs
  `CountInv`: who waits before a retry has one left), `OneLink` and `StaleByRace`.
  `KeyInv` says that all links were made under the one key of their command; `AnswerInv`
  that an answer held by a reader is as new as every reported change, unless the
  reader held it while the snapshot was cleared.
* **`ExtensionRunProofs`**, the wrappers. For any number of them: `SuccessIsReal`, one run of
  the handler and no success without it, and `ReturnIsQuiet`, with the layers of `Escaped`
  as its exception. `TrackInv` ties the flags of a tracker to the layers around it,
  `ResultInv` says that results come from below, `RunsInv` counts the handler, and `CallInv`
  and `AboveInv` follow a call from its caller to the layer it runs in.
* **`ExtensionRunProofs`**, the process. `ImplementsChain`: a process step is a chain step or
  leaves the chain alone, so the chain's theorems carry over (`ProcessSuccessIsReal`). For any
  hooks: `HandlerGated`, `ReportsAreTrue` (from `SuccessWhole` and `TruthTold`) and
  `CleanupTried`, from an invariant on the position in the hooks' order and what became
  of the hooks before it.
* **`CommandRunProofs`**, the parts, each for any constants of its module:
  * *Pagination.* `PagesBounded` (`RequestsBounded`), `Marked` (`MarksAreTrue`) and
    `InOrderOfPages` (`PagesInOrder`, from `Follows` and `Merges`). `Place` says for each position
    of the loop how many pages there are and that the cursor is the one the last page
    gave; `Streak` counts the pages at the end that brought nothing, and `Outcome` says
    when there is a result and how often the tool ran. `MergedInv` says that the merged list
    is sorted by page and has of each page as many items as the page; that a step keeps this
    is a fact about the places of a page in a concatenation (`PageMerged`), not an induction.
  * *Batch.* `BatchTrue` (`BatchIsTrue`) and `NumbersOnce` (`EachNumberOnce`). `OwnerInv` gives each
    index one owner, the channel or a worker, until it is answered or dropped; `LeaveInv`
    says why a worker may have left; `IdsInv` that the list has each number once, in the order of
    its first spelling. `KeyIsValue` justifies the keys: two spellings have one key exactly when they
    stand for one number, whatever their lengths (`KeyToValue` and `ValueToKey`; the first and
    last significant digits fix where the zeros begin, since powers fall along the digits, `PowersFall`). `InOrder` (`Selection`), the order of a set of positions, is a `CHOOSE`;
    `OrderExists` shows by the rank of each position that there is one, with the library's
    theorems on finite sets, and so each set of positions has a smallest one (`Smallest`), which
    stands in for an induction over the list.
  * *Upload.* `UploadWhole` (`UploadIsWhole`): what the server holds of a part is a range of
    the file that was cut once (`UploadInv`), though a range may be announced off by one.
  * *Download.* `DownloadWhole` (`DownloadIsWhole`): `NameInv` keeps the two names on different
    files, `LitterInv` ties a partial file to a process, and `AloneInv` says what
    a process that works alone has written so far.
  * *Plugins.* `Installed` (`InstalledWhole`). `FateInv` says that a plugin whose turn is over has
    been taken or skipped, and that its registrar listens no longer, so that a late
    registration changes nothing; `ActiveInv` that what is active is all that was
    staged; `TurnInv` that the one whose turn it is has a name of its own.
  * *Catalog.* `CatalogTree` (`TreeHolds`) and `CatalogAnswers` (`EveryToolAnswered`), for any listing
    and any table of known tools. `CatalogInv` says that accepted commands would each do alone
    and have paths of their own (`OwnInv`), and that a listed tool is waiting, served or reported.
    The code validates each command in a tree of its own, then builds the tree of all:
    that the first is enough for the second is `TreeOfWhole`, which follows a group
    (`GroupWhole`) through all that the CLI adds to it. The names with a `+` cannot meet those of a
    server, and `AloneFacts` shows that the trees of single commands keep `user me` and the flags
    of `workitem get` from doing harm.
* **`CommandRunProofs`**, the command. `RunsInstall`, `RunsCatalog`, `RunsTool`, `RunsBatch`,
  `RunsUpload` and `RunsDownload`: an invocation of any kind is a run of each of the models
  it is composed of, so every theorem about those holds of it (`CommandInstalled`, `CommandTree`,
  `CommandTools`, `CommandBounded`, `CommandMarked`, `CommandPages`, `CommandBatch`, `CommandUpload`, `CommandDownload`). `Told`
  (`ToldOnce`): `RunInv` says in which stages there is no error yet, and that one is marked as
  rendered exactly when it has been told.

### Hypotheses that are not assumptions of a module

* `OrderlyWorld` (`TokenRefresh`): nobody crashes, or at most two processes. With three and a
  crash the conclusion is false, which is finding 1.
* `OrderlyFiles` (`ProfileConfig`): no file or edit has headers that are no JSON object, and no
  file comes with a current profile, other than `default`, that is not there. Headers that are
  no object are lost without an overlap (see above), and a file that is edited by hand
  may dangle from the start. The instance that TLC checks satisfies it.

### Only model-checked

All safety properties of the passing runs are proved. What is not:

* Liveness: `DisableEnds`, `EventsLeave`, `EveryCommandEnds`, `EveryLoginEnds`, `CommandsEnd`,
  `ExitsDespiteHangs`, `CommandEnds`. It is out of the prover's reach.
* The three findings are counterexamples; their runs show them.

Worth proving next: that `TokenRefresh` implements an atomic store with one refresh at a
time, which would say in one statement what its three theorems say, and a version of `GoesForward`
for any number of crashes that names the recovery as its exception.

## What is not modelled

The components with status `not_modelled` in `PROJECT.json`, each with its reason: the content of
telemetry events, transport and credential extensions, output formatting, the SDK, the
npm launcher, skills and scripts. They hold no state that outlives a call, or none that
other processes see, or are not part of the program.

Of the components that are modelled partly:

* *telemetry delivery*: the refresh and cache of the sampling policy, which runs beside
  the upload and shares nothing with it; unreadable files; clocks that are set back;
* *token stores*: the store of Windows; the steps within the creation of a machine key;
* *tool execution*: coercion of parameters (a flag says whether they are valid), the transforms
  of results, redirects;
* *CLI API commands*: the contents of requests and answers;
* *identity*: the prompts of a first run, and more than one event of the world around two starts;
* *framework*: the parsing of flags and arguments is a choice of outcomes; of the panics in
  goroutines, which end the process, those of a batch's workers are modelled (`WorkerPanics`).
