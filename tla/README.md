# Verification of volclog (ve-tls-cli)

`volclog` is a command-line client of the Volcengine log service. Every
invocation is a process of its own; any number of them run at once on one home
directory, and they share `config.json`, OAuth token caches, STS credential
caches, lock files, a directory of skills and the executable itself. A process
may be killed at any moment, a write may fail after it took effect, servers
rotate refresh tokens, credentials age while somebody waits for a lock, listings
change between two of their pages, and users rebind, log out or edit in another
terminal. This directory holds TLA+ models of the program, the TLC
configurations that check them, and TLAPS proofs.

All paths below are relative to `src/internal/` unless they say otherwise.

## 1. Inventory

| Component | State it keeps | Operations | Hard parts | Status |
|---|---|---|---|---|
| `securestore` locks | per process: registry path -> `processLock` (token channel, reference count); on disk: one flock per lock file | `withPathLock`, `retainProcessLock`, `releaseProcessLock`, `acquireOSFileLock` | goroutines x processes, cancellation in three places, errors, death of a process | modelled but for the Windows variant, proved |
| `securestore` files | files, temporary files, what of them is durable | `UpdateFile`, `atomicWrite`, removal of caches | read-modify-write, failure after the rename, crash and power loss between steps | modelled but for unused operations, proved |
| SSO cache (`auth/sso/cache.go`) | token, STS and client caches; commit markers in each STS cache | `WithTokenLock`, `WithSTSLock`, `Read/Write/Delete` | one STS cache shared by several profiles | caches and locks modelled, parsing not |
| SSO provider (`auth/sso/provider.go`) | local token, local STS value | `Retrieve`, `refreshToken`, `refreshIfNearExpiry`, `patchConfig` | crash between cache, config and marker; ageing while waiting; rotation | modelled |
| SSO commands (`cli/sso.go`, `cli/configure_sso.go`) | snapshots of session, profile, token, STS cache | `runSSOLogin`, `runConfigureSSO`, `runSSOLogout` | loads without a lock, two to many locks, rollback, partial failure | modelled but for flags and prompts |
| SSO device flow (`auth/sso/device_flow.go`, `oauth_client.go`) | client registration, polling interval, deadline | `Login`, `ensureClient`, `pollForToken`, persistence | `slow_down`, deadline during a request, overflow, lost registration | modelled |
| account and role binding (`auth/sso/service.go`, `portal_client.go`) | pages of a listing | `ResolveBinding`, `ListAccounts`, `ListAccountRoles` | endless or changing pages | modelled |
| configuration (`config`, `cli/configure_*.go`) | `config.json`: profiles, shared credentials, current profile | `Update`, `configure set` (three forms), `use`, `delete`, `cred delete` | read-modify-write by many processes; long sequences of settings | commands and `Update` modelled; display, project file and flags not |
| console login (`auth/console`, `cli/login.go`) | one cache per login session, profile binding | `Login`, `Retrieve`, `runLogout` | rollback, replacement of a session while the user is asked | modelled, proved |
| console authorization (`auth/console/callback.go`, `authorize.go`, `device.go`) | listener, result channel; poll state | `CallbackServer`, `LocalAuthorizer`, `RemoteAuthorizer`, `DeviceAuthorizationFlow` | double callbacks, timeout, shutdown, transient errors | modelled |
| HTTP retry (`auth/httpx`) | attempt, response body | `Do`, `sleep`, `parseRetryAfter` | last attempt, context, Retry-After bounds | modelled but for body draining |
| STS client and role providers (`auth/sts`, `auth/ramrole`, `auth/oidc`, `auth/ecsrole`) | one credential, one gate | `Retrieve`, `doWithRetry` | callers cancelled while one refreshes; expiry on arrival | modelled |
| credential resolution (`app/runtime`, `tlsapi/client.go`) | environment, profile, secrets file | `ResolveSelectors`, `Resolve`, `resolveSigningCredentials` | precedence of many sources | modelled |
| execution and pagination (`execution`) | accumulated pages; normalized input | `Execute`, `executeAll`, `NormalizeInput` | termination, changing tables, cursors, rotation between pages | modelled but for the codecs |
| upgrade (`upgrade`) | the executable, a temporary file | `Run`, `compareVersions`, `atomicReplace` | a release published again, cut downloads, crash | modelled |
| skill lifecycle (`cli/skill_lifecycle.go`) | skill directories, stages, backups | `install`, `update`, `uninstall` | two renames with a backup, other processes, edits | modelled |
| log export (`cli/log.go`, `log_file_output.go`) | page context, partial file | `export`, `export-analysis` | endless contexts, failure in mid-file | modelled |
| command line (`cli/run.go`, `run_pipeline.go`), output and artifacts | flags, envelope, output file | one invocation from flags to exit code; spill; filter; sizes | refusal before or after sending; a failing delivery after a success; self-describing sizes | modelled but for help texts and formatting |
| workflows (`cli/workflow*.go`) | graph of an application | `workflow exec`, `app.resolve-*` | cycles, duplicates, partial answers | dispatch and application workflows modelled; log and analysis workflows not |
| ingestion formats, tool and shortcut catalogue, topic shortcuts, diagnosis, code generator, packaging | none shared | conversion, tables, reports | none that a model reaches | not modelled |

How they interact: a business command resolves its credentials, which builds an
`SSOProvider`, a console `Provider`, a role provider or a pair of keys from the
configuration as it was loaded, without a lock; every page of a request asks the
provider again. Providers and the commands that log in and out meet in the
caches and the configuration. The lock order of SSO is token locks, then STS
locks, then the lock of `config.json`; within the first two kinds, the order of
`securestore.DigestKey`. A console command holds the lock of one login session
at a time. All these locks are `withPathLock` on different files, and every
write of a cache or of `config.json` is `UpdateFile`. Authorizations run under
these locks and call their servers through the retry client. Skills and the
executable have no lock at all.

What makes them correct, in short. The exact conditions are with the properties, and
what the code does not keep to is listed at the end of section 3:

- a lock excludes all goroutines of all processes, is never lost, and lets a
  cancelled waiter go;
- a credential is returned only after it is in the cache, the profile's
  `sts-expiration` was patched to it, and the profile is marked in the cache;
- a marker is never there without its patch, whatever crashes in between;
- the `sts-expiration` of a profile belongs to what it is bound to now;
- the newest refresh token of a lineage is the one on disk and the one used;
- a login that fails leaves the caches as it found them, if locks can be taken;
- a rebind or a logout takes the STS cache with it, if no other process configures,
  and no Retrieve that was overtaken brings it back;
- a profile of one console login session is bound to another one only if its
  user agreed to leave that very session;
- a console logout leaves neither the cache nor a binding of its session, and
  neither a refresh nor a rollback revives the cache;
- a file changes as a whole, no update of it is lost, and no temporary file of
  an update is taken away or left behind;
- no set of commands waits in a cycle;
- no poll and no retry comes sooner than the server asked or later than its
  deadline, and what a server hands out once is neither asked for twice nor lost;
- a code is accepted only from the login that asked for it, and nothing listens
  afterwards;
- callers that share a role get a usable credential, fetched by one of them;
- a listing ends, and of an unchanged table whose pages are served as asked for it
  is complete and without duplicates, unless it reached its limit; each request of
  it is signed as one identity;
- what a user wrote in a skill before an unforced command looked at it is kept, and
  a replacement that fails or dies leaves the old or the new tree at the path or in
  a backup; the executable is always a whole release;
- the output of an export is never a part of a document, though for a moment there
  may be none, and success is not reported for less than was found;
- what can be checked of a command before its request is checked before it, and the
  exit code is true;
- whatever was configured before, every profile has what its mode signs with.

## 2. Modules

| Module | Models | Composed of |
|---|---|---|
| `PathLock` | what `securestore` promises: one owner per path | - |
| `SecureStoreLock` | `withPathLock` on one path: registry, token, flock | implements `PathLock` |
| `SecureStoreLock_proofs` | theorems | `SecureStoreLock`, TLAPS |
| `SsoStore` | shared state of the SSO commands, locks, crashes, time, configuration commands | takes `PathLock` for granted: a lock is its owner |
| `SsoProvider` | `SSOProvider.Retrieve` | extends `SsoStore` |
| `SsoCommands` | `sso login`, `configure sso`, `sso logout` | extends `SsoStore` |
| `SsoSystem` | any number of processes running all of it; the properties | `SsoProvider`, `SsoCommands` |
| `SsoSystem_proofs` | theorems | `SsoSystem`, TLAPS |
| `ConsoleLogin` | `volclog login`, the console provider and `volclog logout`; the properties | takes `PathLock` and `AtomicFile` for granted |
| `ConsoleLogin_proofs` | theorems | `ConsoleLogin`, TLAPS |
| `AtomicFile` | what `securestore` promises about the content of a file | - |
| `SecureStoreFile` | `UpdateFile`, `atomicWrite` and the removal of a cache on one path | implements `AtomicFile`; takes `PathLock` for granted |
| `SecureStoreFile_proofs` | theorems | `SecureStoreFile`, TLAPS |
| `HttpRetry` | `RetryClient.Do`: attempts, delays, the context | - |
| `DeviceGrant` | the authorization server, the user, the flow both clients share | extends `HttpRetry` |
| `SsoDeviceFlow` | `DeviceFlow.Login` of SSO with the client registration | extends `DeviceGrant` |
| `ConsoleDeviceFlow` | `DeviceAuthorizationFlow.Authorize` of the console | extends `DeviceGrant` |
| `SsoPortal` | `ResolveBinding` over paginated listings | - |
| `CallbackAuthorizer` | the loopback callback server and the pasted response | - |
| `RoleProvider` | the three role providers, STS and ECS metadata clients | - |
| `MCAuthorization` | the five above, one per behavior; constants for TLC | the authorization modules |
| `DeviceFlows_proofs` | lemmas and invariants of the retry and both device flows | `SsoDeviceFlow`, `ConsoleDeviceFlow`, TLAPS |
| `Authorization_proofs` | theorems | `MCAuthorization`, `DeviceFlows_proofs` |
| `Execution` | `Executor`: one request or all its pages, signing | - |
| `RequestInput` | from a JSON object to a request | - |
| `CredentialSources` | selectors, secrets file, environment, profile, client | - |
| `AppGraph` | the two application workflows | - |
| `CommandRun` | one invocation from its flags to its exit code | - |
| `EnvelopeSize` | the sizes an envelope announces of itself | - |
| `LogExport` | `log export` and `log export-analysis` | - |
| `SkillLifecycle` | `skill install`, `update`, `uninstall` | - |
| `Upgrade` | `volclog upgrade` | - |
| `ProfileStore` | sequences of configuration commands on `config.json` | takes `AtomicFile` for granted |
| `ProfileStore_proofs` | theorem | `ProfileStore`, TLAPS |
| `MCCommands` | the ten from `Execution` to `ProfileStore`, one per behavior; constants for TLC | the command modules |
| `Commands_proofs` | theorems | `MCCommands`, TLAPS |
| `MCSecureStoreLock`, `MCSsoSystem`, `MCConsoleLogin`, `MCSecureStoreFile` | constants for TLC | their modules |

### SecureStoreLock

`entry` is the registry of each process, `refs` and `token` are the fields of a
`processLock`, `mine` is the local `lock` of a call, `flock` the owner of the
OS lock. The actions follow one call from top to bottom: `Retain`, `TakeToken`
or `Contend` or `GiveUpToken` (the two selects), `TryFlock`, `TimerFires`,
`GiveUpFlock`, `FlockError` (the polling loop), `CallbackReturns`, and the
three deferred functions in their order: `ReleaseFlock`, `ReturnToken`,
`Unretain`. Objects of the heap come from `Locks`, and an object nothing points
to may be allocated again, which is how a call that kept an object for too long
would be caught. `Cancel` ends the context of a call at any point; `Kill` ends
a process at any point. Registry operations are atomic because the code holds
the registry's mutex.

### SsoStore, SsoProvider, SsoCommands, SsoSystem

A process runs one command at a time; `pc` says where it is, `job` what it
holds in memory. Every read or write of a shared file, every server call and
every acquisition of a lock is a step of its own. What one `config.Update` does
is one step, for it runs under the lock of the file; the exception is the
logout, which deletes caches inside its callback and therefore holds
`configLock` over several steps.

Data is abstracted to what the properties tell apart. A credential is the
number of its issue, so that one number stands for the secret and for its
expiry. An account and a role are one value. Time is `stale`, the set of
credentials that have come within `RefreshWindow` of their expiry: it grows at
any moment, and each call of the clock in the code is a test in the step that
acts on it. A commit marker, in the code a digest of config path and profile
name, is the profile. The OAuth server is the set `live` of refresh tokens it
accepts; it may or may not rotate. `patched` is a history variable: every patch
of an `sts-expiration` that reached the disk.

Faults are a constant. `"crash"`: a process dies between any two steps, its
locks are free and its files remain. `"io"`: a read fails, a write has no
effect, or a write takes effect and reports an error, as `atomicWrite` does
when syncing the directory fails after the rename. `"lock"`: a lock file cannot
be opened or locked. `"net"`: the answer to a refresh or a revocation is lost
after the server acted.

Environment actions are the other configuration commands (`configure delete`,
`configure sso-session`, `configure set --mode`, each one `config.Update`) and
time.

Simplifications a reader should know:

- sessions are there from the start and never removed (no command removes one);
- the region and scopes of a session change with its start URL or not at all;
- a login mode and a session are changed only by `configure sso`; a profile
  with the legacy empty mode is not distinguished from another mode;
- a logout that fails partway is "partial" whether or not anything was cleared,
  which the code tells apart for its message;
- an error of the release of a lock, after everything was done, is left out;
- an unreadable file makes a command fail; whether it is corrupt, of the wrong
  mode or missing permissions makes no difference to what happens next;
- the device flow with its client registration, and the listing a binding is
  chosen from, are one step each, which `SsoDeviceFlow` and `SsoPortal` take
  apart.

### ConsoleLogin

The same construction for console login: `lock` is the owner of each session's
`FileCache.WithLock`, `pc` and `job` are what a command has in memory.
`StartLogin`, `Authorized`, `Confirm`, `Snapshot`, `Write`, `Bind`, `Restore`
are `LoginService.Login` in its order: the session a profile is bound to is read
first, the authorization and the question to the user follow without a lock, and
the config callback compares once more. `Read`, `RefreshGranted`, `Persist`,
`Return` are `Provider.Retrieve`; `Delete`, `Unbind`, `NextSession` are
`logoutSession` and the loop of `runLogout`. `Release` and `Unwind` give the
lock back and return; `job.out` is the verdict the user gets. Faults are those
of the SSO modules. `ConfigureDelete`, `ConfigureSetMode` and `ConfigureSso` are
the other commands that change a profile's mode or session.

Simplifications:

- `logout --all` takes the sessions in any order, where the code sorts them;
- `config.Update` is one step, for it runs under the lock of the file;
- the authorization (browser or device) is one step that yields a token or
  fails (`CallbackAuthorizer` and `ConsoleDeviceFlow` take it apart), and an
  expiry that is invalid once the user has confirmed counts as a refusal;
- `RefreshWasted` stands for a lost answer and for an answer the provider
  rejects: in both the server has acted and nothing is written;
- a write that fails ends the login as "unsaved" with nothing rolled back, as
  in the code, although it may have taken effect.

### AtomicFile, SecureStoreFile

`disk` is the list of files the path has led to, from the one it leads to after
a power loss to the one it leads to now; a file has a content, which is the set
of changes in it, and may be incomplete or not fsynced. `SyncDir` forgets the
older entries, as does the kernel at any time (`WriteBack`). `PowerLoss` takes
the path back to any file of the list, and a file that was not fsynced may lose
a part. A `"config"` file is read and rewritten (`config.Update`), a `"cache"`
is written anew or removed. Each system call of `atomicWrite` is an action with
a failing twin; `Cleanup` is the deferred removal of the temporary name, which
runs also after a rename that gave the name up. Names come from a small set, so
that a name may be taken again as soon as it is free. `AtomicFile` says what is
left of this for a caller: `Update`, `Replace`, `Delete`, and `PowerLoss` back
to a content that was not yet known to be durable. The refinement justifies
what `SsoStore` and `ConsoleLogin` assume of a write: done, not done, or done
and reported as failed.

That directory entries become durable in order is assumed of the file system.
Only the Unix variant is modelled; the permission and symlink checks are part of
`LockFails` and `Refuse`. `config.Save`, which overwrites without reading, has
no caller among the commands.

### HttpRetry, DeviceGrant, SsoDeviceFlow, ConsoleDeviceFlow

`call` is the call of `Do` in progress: its attempt, when to wake, whose body is
open. `Attempt(a)` gives it the answer `a` of the server, which the module
making the call chooses; `Wake` and `SleepCancelled` are the two cases of
`sleep`. `Delays` is the whole rule of `sleep`: Retry-After within its bounds
first, otherwise backoff with a cap and jitter, in integers that wrap at
`MaxDuration` as `time.Duration` does at 2^63-1. Time is moved by the program's
own sleeps and by the latencies of its requests; nothing else in these flows
takes time that matters to them.

`DeviceGrant` is the server (external): a device code that is pending, approved,
denied or consumed, and the user and context who change it at any moment. An
answer may be lost after the server acted. `SsoDeviceFlow` adds the client
registration (`EnsureClient`, `RegisterAttempt`, `KeepClient`), the poll loop
(`PollAgain`, `SlowedDown`, `PollRefused`, `PollFails`) and `PersistToken`;
`ConsoleDeviceFlow` is the other client, whose polls are single attempts and
which survives up to `MaxTransient` failures in a row. Both convert seconds to
durations as the code does, the first with a guard against overflow, the second
without and with a cap. One flow at a time: the caller holds the token lock.

### SsoPortal, CallbackAuthorizer, RoleProvider

`SsoPortal` reads pages of a directory that may change between them, and answers
with pages that are honest, endless or malformed; `ListPage` merges one,
`ListFails` gives up. `ResolveAccount` and `ResolveRole` choose from what was
listed, or from the flags if what they name is listed. The prompt is a choice
among the listed values.

`CallbackAuthorizer` has the goroutine of `Serve` (`serving`), one goroutine per
request (`handlers`), the result channel of capacity one (`slot`) and the caller
(`auth`) as separate actors: a request is delivered, or finds the channel full,
in an order of its own; the wait ends by a result, by its deadline, or by an
error of the server; `Cleanup` shuts down and waits for the handlers. The HTML
answered and the opening of the browser are left out. `RemoteAuthorizer` is one
step, since nothing races it.

`RoleProvider` has any number of callers over one provider: the fast path under
the mutex (`Fast`), the gate with its cancellation (`TakeGate`), the second look
(`Check`), the attempts of the STS or metadata client with their sleeps, and
`Store`. The clock moves between any two steps, so that a credential may be
granted already expired or expire while a caller waits. Metadata credentials are
fetched with the token of IMDS first. Request signing is left out.

`MCAuthorization` runs these parts, one per behavior: they share no variable, and
the initial state decides which of them moves. This keeps one set of constants
and one set of fairness assumptions without multiplying their states.

### Execution, RequestInput, CredentialSources, AppGraph

`Execution` follows `Executor.Execute`: `Prepare` refuses what cannot be sent
(the input is abstracted to what is wrong with it), `Send` signs with what the
provider returns for this page, `SingleAnswer`, `PageNumber` and `Cursor` take an
answer. The service (external) lists a set of rows in their order, may insist on
smaller pages, may change between two pages, and its cursors need not end. A row
is its position.

`RequestInput` is `NormalizeInput`, the validation and the building of the
request, over small schemas; the fields of a flat object come in any order, as
those of a Go map do. Headers are treated like the query.

`CredentialSources` models a value by where it comes from, so that "which key
signs with which token" is a question about origins. `SelectSource`,
`LoadSecrets` and `Resolve` follow the code from the selectors of a command to
the client. Endpoint and region are resolved alike and are one value.

`AppGraph` takes an application apart, one request per step, over every set of
answers within the bounds: resources of unknown type, without an ID, of another
region, named twice, or by two log applications.

### CommandRun, EnvelopeSize, LogExport

`CommandRun` parses flags one after the other (`ParseFlag`), applies the
refusals of the pipeline in their order (`Preflight`, `LoadContext`,
`CheckContext`), sends or plans (`SendRequests`, `Act`), wraps (`Envelope`,
`Spill`) and delivers (`Render`). A result is a set of parts: data, a preview, a
plan, a warning, an error. An output directory may be one that cannot be made or
not be written to; stdout takes every write. All seven kinds of command go
through it; what a login does is the subject of other modules.

`EnvelopeSize` is the arithmetic of an envelope that contains its own length:
repeated encoding until the digits settle, around the sizes where they grow.

`LogExport` pages by the service's Context into memory or into a temporary file
that replaces the output at the end; pages may be empty or without `Logs`,
requests fail, and the process dies anywhere.

### SkillLifecycle, Upgrade, ProfileStore

`SkillLifecycle` has processes of two versions and a user who edits, on one
directory, with no lock. A tree is its kind, its manifest, and its content, of
which the digest is all the code looks at. `Inspect`/`ReadManifest`/`Decide` are
`inspectSkillState`, `Check` the look after staging, `Backup`, `Place`, `Rollback`,
`Cleanup` the swap, `BeginRemove`, `Removing` the recursive removal, which others
may see half done. Any rename or removal may fail and any process may die
between them.

`Upgrade` compares versions as `compareVersions` does, on character codes, next
to `Precedes`, the order of the SemVer document; downloads, verifies against the
checksum of the release (which may be published again in between), and renames a
temporary file over the executable. There is one rename and no backup.

`ProfileStore` has `config.json` as a function from names to profiles, one from
names to shared credentials, and the current profile; `configure set` in its
legacy, runtime and `--mode` forms, `use`, `delete`, `cred delete` and the
logins that bind a profile are one action each, because each is one
`config.Update`. Region, endpoint, timeout and security token are left out, as
nothing depends on them.

`MCCommands` runs these ten parts in the way `MCAuthorization` does.

## 3. Checks

All passing runs finish in under four minutes with two workers.

| Run | Question | Instance |
|---|---|---|
| `lock` | exclusion, exact reference counts, nothing left behind, refinement of `PathLock`, cancelled waiters return, somebody gets in | 3 goroutines in 2 processes, 3 heap objects, cancellation, OS errors, death: 14,371 states |
| `sso_refresh` | commit protocol and refresh lineage under all faults | 2 processes, 2 profiles of one binding, 4 credentials, 3 commands: 641,302 states |
| `sso_binding` | the same with rebinds, logouts, logins and mode changes | 2 processes, 1 profile, 2 roles, 3 credentials, crashes and failing I/O: 629,113 states |
| `sso_progress` | every command returns, and without faults nobody presents a dead refresh token | 2 processes rebinding across 2 sessions and 2 start URLs: 186,249 states |
| `console_login` | login, retrieval and logout under all faults | 2 processes, 2 profiles, 2 sessions, 3 tokens, 3 commands: 1,097,919 states |
| `console_lineage` | bindings and refresh tokens without faults, with the other configuration commands | the same and one configuration command: 1,755,750 states |
| `secure_file` | whole files, no lost update, temporary files, refinement of `AtomicFile` | 3 callers, 3 changes, 2 temporary names, failing calls, crashes, power losses: 37,882 states |
| `authorization` | retries, polls, grants, callbacks, listings and shared role credentials; everything ends | 3 attempts, 2 racing browser requests, 2 callers, pages of 2 up to 3, one change of the directory: 150,451 states |
| `commands` | requests, inputs, identities, envelopes, exit codes, exports, skills, upgrades, profiles | 2 processes on 2 skills of 2 versions with an edit, a crash and a fault; 11 releases; 3 logs; 4 rows; 2 flags of 7 kinds of command; 4 settings of 2 profiles and a credential: 698,430 states |

Why these bounds are enough to be interesting. Three goroutines let the token
and the flock be contended at once, and with three heap objects a third one can
be allocated while two are in use; larger instances are covered by the proofs,
since every safety property of `lock` is proved for all sizes. In the SSO and
console runs two processes are the smallest number that race; every property
about a profile speaks of one profile and the cache it shares with at most one
other, so two profiles of one binding suffice; three commands let one command
prepare the state two others race on; three to five credentials cover an initial
login, a refresh, an exchange and a second refresh or exchange. In
`secure_file` a second name is needed for one caller to write while another's
file is left over, and three changes for two to race after one was reported as
done. The bounds
`MaxId`, `MaxCmds` and `MaxAdmin` are guards of `RefreshGranted`, `Authorized`,
`ExchangeGranted`, `Start` and `Administer` (`Begin` in `SecureStoreFile`); at
`MaxId` a server refuses, which the code handles as any other refusal, so a bound
never leaves a command stuck.

In `authorization` a duration is a few units: there are intervals below, at and
above the default, the lifetime of a code lies between two polls or beyond all of
them, and `MaxDuration` = 20 stands for 2^63-1, so that the values 40 a server
may send do overflow. Two transient failures in a row are survived and the third
is not. Two browser requests are what it takes to race for a channel of capacity one,
where the second must be dropped without blocking; two callers, for one to wait at the gate while the other
refreshes; pages of two with three items, to end with a full and with a partial
page, and a third page to run into `MaxPages`. `MaxChanges` and `MaxTime` bound
the portal's changes and the role clock.

In `commands`, two skills let a command fail at the second after the first was
done; one edit, one crash and one fault (`MaxEdits`, `MaxCrashes`, `MaxFaults`)
may hit between any two steps of either process. Releases differ in each place
where versions compare, with numeric and alphabetic identifiers of different
length. `MaxRepublished` = 1 changes a release between checksum and archive.
Three logs over pages of 1, 2 and 5, and `MaxEmpty` = 2 empty pages, end before,
at and after each page limit; four rows over two caps do the same for lists, with
`MaxRowChanges` = 1 change in between. Two flags are every pair of flags, which
is what refusals are about. Envelope bodies lie around 100, 1,000 and 10,000
bytes, where the length of a length grows. Four settings (`MaxSettings`) make a
profile, share its credential, switch it and delete one of them; this property is
proved for any number.

Deadlock is checked where a system of several commands runs. `Rest` allows it to
stop when all commands have returned. The check is off in `sso_progress`, because
a command that is stuck violates `CommandsReturn`, the stronger statement; in
`authorization`, for the same reason (`CallsEnd`); in `commands`, whose parts are
single invocations that end; and in the runs with a counterexample. A console
command owns at most one lock at a time, so the deadlock check is what there is
to say of its waiting.

The console runs and `secure_file` use symmetry, and `commands` that of the
processes of the skill commands: processes, profiles, callers
and temporary names occur in no definition by name, and these runs check no
liveness. Login sessions are not symmetric, for one of them is logged in from
the start.

### Properties

A property of a run is often a conjunction of parts that are best read together;
the parts have names and comments of their own.

| Property | Parts |
|---|---|
| `LockSafety` | `TypeOK`, `RefsCountHolders`, `OneLockPerProcess`, `OneContenderPerProcess`, `MutualExclusion`, `QuiescentKeepsNothing` |
| `LockProgress` | `CancelledWaiterReturns`, `SomeoneGetsIn` |
| `MarkersAreTrue` | `TypeOK`, `MarkedWasPatched`, `ExpirationIsOfBinding` |
| `OnlyPersistedIsUsed` | `TypeOK`, `ReturnsPersisted`, `RefreshUsesCachedToken` |
| `CachesChangeAsAgreed` | `NoSilentReplacement`, `NoRevival` |
| `FilesAreIntact` | `TypeOK`, `NeverTorn`, `OwnTempStays`, `NoTempLeft` |
| `RetriesAsAsked` | `BodiesReleased`, `WaitsAsAsked` |
| `PollsAsAgreed` | types, `PollsAsAsked`, `ConsolePollsAsAskedUpToMax` |
| `GrantsAreKept` | `RegistrationIsKept` (`RegistersOnce`, `ClientIsOnDisk`), `GrantIsKept`, `ConsoleGrantIsKept` |
| `BindingIsExact` | `ListingIsExact`, `BindingIsOffered` |
| `CallbackIsSafe` | `CodeIsOurs`, `NothingListens` |
| `RoleCredentialIsUsable` | `ReturnsUsable`, `CancelledGetsNothing`, `HardLimit` |
| `RefreshedOnce` | `RoleTypeOK`, `OneLeader`, `NoNeedlessRefresh` |
| `CallsEnd` | `LoginEnds`, `AuthorizerReturns`, `ResolutionEnds`, `CancelledCallerReturns` |
| `ListingIsSound` | `ExecTypeOK`, `DryRunSendsNothing`, `RequestsBounded`, `ListingIsComplete` |
| `SkillsSurvive` | `SkillTypeOK`, `OwnWorkSurvives`, `FailureRestores` |
| `SwapsAreWhole` | `InstallOnlyFills`, `OldOrNew` |
| `UpgradeIsSafe` | `UpgradeTypeOK`, `OffersOnlyNewer`, `ExecutableIsWhole`, `NoTempLeft` |
| `ExportIsHonest` | `ExportTypeOK`, `ExportIsWhole`, `SuccessIsComplete`, `NoPartLeft` |
| `NothingSentInVain` | `DryRunIsLocal`, `RefusedIsLocal`, `UndeliverableIsNotSent` |
| `ExitCodeIsTrue` | `CommandTypeOK`, `ExitZeroDelivers`, `FailureIsReported` |
| `IdentityIsAsAsked` | `SourceTypeOK`, `TokenFollowsKeys`, `SecretsFileDecides`, `DynamicIgnoresKeys` |
| `RequestIsAsGiven` | `InputTypeOK`, `FlatMeansOneThing`, `SentIsComplete`, `BodyTakesAll` |
| `GraphIsExact` | `GraphTypeOK`, `DescribedOnce`, `TopicsAreReachable`, `GraphIsClosed` |
| `SizesAreTrue` | `SizeTypeOK`, `AnnouncedIsActual`, `SizeSettles` |
| `ProfilesAreUsable` | `ConfTypeOK`, `KeysAreThere`, `ModeHasIdentity`, `CurrentExists` |

The parts of `LockSafety` are what callers rely on, from
the outside in; each of them can break without the others noticing at once (a
miscounted reference only matters when a third caller arrives).

`MarkedWasPatched` is the commit protocol: cache, then config, then marker. It
holds across crashes because the cache is written without markers, across
rebinds because a provider patches only a profile that still matches, and
across rollbacks because a restored cache brings back its own history.
`ReturnsCommitted` is what a caller of `Retrieve` gets. `ExpirationIsOfBinding`
relates the configuration to the history of patches and survives rebinds to and
from the same role. `RefreshUsesCachedToken` says the token presented is the one
on disk; it depends on the token lock being held over the whole `Retrieve` and
on `tokenCache` being replaced by the rotated one. `RefreshTokenIsLive` adds the
server: nobody presents a token that was rotated away or revoked, unless a
fault lost the answer. `FailedLoginIsUndone` covers both rollbacks.
`NoStsWithoutToken` says a logout is not undone by a `Retrieve` it overtook,
`RebindDropsOldSts` that a rebind removes what the old binding left.
`CommandsReturn` is the absence of cyclic waiting over three kinds of locks.

`NoSilentReplacement` is about the console login that asks long before it binds:
between the question and the binding the profile may be bound elsewhere.
`LogoutIsComplete` and `NoRevival` hold because deletion, refresh and rollback
are under the lock of the session; `ReturnsPersisted` because a failed write
ends the retrieval. `BindingHasCache` relates configuration and caches: a
rollback restores the cache other profiles of the session depend on.

`AckedSurvives` needs the fsync of the file, that of the directory and the read
inside the lock, all three. `OwnTempStays` is about the deferred cleanup, which
removes a name it may no longer own; the lock is what makes it harmless.
`ImplementsAtomicFile` says that an update starts from the content readers see
at the moment of the rename, hence that none is lost.

`WaitsAsAsked` and `PollsAsAsked` relate the delay between two requests to the
last answer of the server, over wrapping arithmetic and every `slow_down` since.
`GrantIsKept` is about the token that arrives after the deadline has passed while
its request was under way. `ListingIsExact` compares what was merged with what
the portal lists, if that did not change, and `BindingIsOffered` holds whether it
did or not. `OneLeader` and `NoNeedlessRefresh` are the two halves of the double
check at the gate; `CancelledGetsNothing` is about callers that lose interest
while they hold it. `ListingIsComplete` asks for every row once if the table stayed,
numbered pages were as large as asked for, cursors ended, and the limit was not
reached; the service of the model sends no empty page before the last.
`RequestsBounded` asks for an end if nothing of this is so.
`SignedAsOneIdentity` says that no request has keys and token of two credentials
although the provider rotates them between pages.

`OwnWorkSurvives` and `OldOrNew` are what two renames without a lock still
promise: what a user wrote before a command without `--force` looked at the skill
exists at its path or in a backup, and no step takes the last whole copy of a skill
that nobody uninstalls. `FailureRestores` is about the rollback: a replacement that
fails does not leave the old skill beside an empty path. None of them says that a
failed command changes nothing, and it is not so: see the end of this section.
`ExportIsWhole` lets the old output be gone before the new one is there.
`ExecutableIsWhole` needs the checksum and the rename; `OffersOnlyNewer` compares the
code's order of versions with that of SemVer. `RefusedIsLocal` and
`UndeliverableIsNotSent` name what is found before the request; a table that cannot be
drawn, a directory that cannot be written to and a spill that fails are found after
it, and then `ExitZeroDelivers` and `FailureIsReported` ask for an exit code that
says so. `SecretsFileDecides` is about the selector and the kind of signature; a value
that the file lacks may come from the environment.
`ProfilesAreUsable` is about sequences: a shared credential is not deleted from
under a profile, a profile that changes its mode back and forth keeps what the
new mode needs.

### Fairness

`SecureStoreLock!FairSpec`: the Go scheduler runs every goroutine (weak
fairness of `Step`), and the `select` of the polling loop chooses among ready
cases at random, so a done context is not passed over for ever (strong
fairness of `GiveUpFlock`). Callbacks need not return, in general: the premise of
`SomeoneGetsIn` is that from some moment on they do and nothing is cancelled,
killed or fails, without which nobody could promise that somebody gets in. No
fairness among waiters is assumed and none is claimed: flock has none.

`SsoSystem!FairSpec`: a running command takes its next step if it stays
possible. Server calls have timeouts or contexts and a device flow has a
deadline, so they answer, if only with a failure. Weak fairness suffices for
the locks in this instance because commands are finite in number; starvation by
an endless stream of commands is possible in the code and not excluded. Nobody
has to start a command, and no fault has to happen.

`MCAuthorization!Spec`: weak fairness of each of the four sequential parts
(`SsoLogin`, `ConsoleAuthorization`, `Resolve`, `CodeLogin`) and of the local
steps of each caller of a role provider (`RoleLocal`): the program runs on, its
requests have timeouts, its timers fire. None for the user, the browser, the
contexts of callers, the clock or the answers of STS: `CallsEnd` holds although
nobody ever approves, calls back or answers.

### Disagreements between code and documentation

Three runs check a statement the repository makes of itself and find a
counterexample.

| Run | Statement | What happens |
|---|---|---|
| `sso_rebind_race` | `cli/configure_sso.go:560-562`: the old STS cache is cleared "so the old Provider fast path cannot reuse stale dynamic credentials" | of two concurrent rebinds, the second works with the account and role it loaded before the first; commit re-verifies only session and mode |
| `workflow_filter` | `src/docs/4-Usage.md:284`: the filter of `workflow exec` "is applied to the complete envelope"; `:267`: no spill with `--jmes-filter` | `finalizeWorkflowExecEnvelope` (`cli/workflow.go:450`) spills without looking at the filter, which then sees the preview |
| `identity_mixed` | `src/docs/3-Configuration.md:146`: "Without a complete environment AK/SK set, the selected profile is used" | `resolveSigningCredentials` (`tlsapi/client.go:284`) completes a profile that lacks one key from the environment, field by field |

Further statements of the documentation that the models contradict are defined
beside the others, and can be reproduced by naming them in a cfg:

- `MarkerMatchesProfile` (`auth/sso/cache.go:73-75`): `configure sso` with the
  binding a profile already has sets its expiration to 0 and keeps the marker;
- `LogoutClearsSts` (`src/docs/2-Authentication.md:583`): a logout deletes only
  the STS caches of profiles that are bound at that time;
- `FailedLoginIsUndone` with `"lock"` in `Faults` (`cli/sso.go:157-158`): a
  rebind that cannot take the STS lock of its old binding returns without
  restoring the token;
- `ArtifactIsComplete` (`src/docs/4-Usage.md:252`): contract digest and warnings
  are added to an envelope after its file was written;
- `SecretsFileIsAlone` (`src/docs/6-Advanced.md:126`): the keys of a complete
  secrets file are sent with the security token of the environment;
- `PageAllIsAll` (`src/docs/4-Usage.md:137`): a listing reports success when it
  stops at `max_pages`, or at a page that is smaller than it asked for;
- `ModifiedIsUntouched` (`src/docs/6-Advanced.md:105`): what a user writes after
  `update` or `uninstall` has looked at a skill, and before its swap or removal,
  goes away with the backup or the tree.

What a reader of the same page might expect of a skill command that fails, and what
the code does not do:

- an `uninstall` whose removal fails or dies (`removeSkillDirectory`) leaves a part of
  the tree at the path;
- a command for several skills that fails at one of them keeps what it has done to
  those before;
- a replacement whose backup cannot be removed (`cli/skill_lifecycle.go:612`) reports
  an error with the new version in place, and a part of the backup stays beside it;
- a process that dies between the two renames, or whose rollback fails, leaves the path
  empty and the old tree in the backup, which no later command looks for.

## 4. Proofs

Every safety invariant and action property of the passing runs is a theorem, for
every number of processes, goroutines, profiles, sessions, roles, credentials,
callers, requests, pages, files, skills, releases, rows, flags and settings, and
for any limits. Five of them need a hypothesis on the faults or on who configures,
which holds in the run that checks the property as well; see the list at the end. The runs are still worth having beside the theorems: they are where an
invariant is refuted cheaply, and the mutants are tried on them.

The assumptions are those the modules declare, and TLC evaluates all of them:

- typing, and finite sets where the code counts: `LockAssumption`,
  `StoreAssumption`, `ConsoleAssumption`, `FileAssumption`,
  `ProfileStoreAssumption`, `SkillAssumption`, `SkillStartAssumption`,
  `UpgradeAssumption`, `LogExportAssumption`, `ExecutionAssumption` (the rows a
  service holds are finitely many), `InvocationAssumption`,
  `CommandRunAssumption`, `CredentialAssumption`, `RequestInputAssumption`,
  `AppGraphAssumption`, `EnvelopeSizeAssumption`, `PortalAssumption`,
  `RoleAssumption`, `GrantAssumption`, `SsoFlowAssumption`;
- the order of the code's own limits: `RetryAssumption`,
  `ConsoleFlowAssumption`.

**SecureStoreLock_proofs.** `MutualExclusion` follows from `flock` alone, but
the reference counts do not: `releaseProcessLock` removes the entry when the
count reaches zero, and that the count is right depends on every call using the
registry's object, which depends on the entry not being removed too early. The
inductive invariant `IInv` breaks this circle by carrying four facts together:

- *Registry*: a call that retains an object retains its process's entry, an
  entry has at least one call, and two processes never share an object;
- *TokenOwned*: an object's channel is full whenever one of its calls is past
  the select, and at most one is;
- *FlockOwned*: the OS lock is owned by the call that is inside or releasing;
- *exact counts*: `refs[l]` is the cardinality of the calls that retain `l`.

From it: type correctness, exact counts, `OneLockPerProcess`,
`OneContenderPerProcess`, `MutualExclusion`, `QuiescentKeepsNothing`, and the
refinement `Spec => ImplementsPathLock` under `holder <- flock`.

**SsoSystem_proofs.** Type correctness is not inductive by itself: that
`configure sso` holds an old session with a role when it deletes an STS cache,
or that only a profile can be marked, depends on which command is at which
label. `WellFormed` adds to `TypeOK` that a running command is at a label of
its own and that its job is filled in as far as that label needs, and that a
bound profile has both session and role. On it rests the invariant of the
commit protocol: every marker on disk, in a snapshot held for a rollback
(`job.sts` of a rebind), and in the value a provider is about to write is a
patch that happened - and at `mark` the provider's own profile has just been
patched. The lemmas show for each kind of step that it keeps markers, and that
only `PatchProfile` adds an expiration. From it: `MarkedWasPatched` and
`ExpirationIsOfBinding`, under all faults.

The second half is the lock discipline. `SafeInv` says of each process, at each
label of its command, which locks it owns (`HoldsToken`, `HoldsSts`, `HoldsOld`,
`HoldsAll`), what it remembers of the caches under them (`KnowsCaches`: the token
in memory is the one on disk, the STS credential is the one just written, and its
profile is marked from `mark` on), that the STS cache of an old binding is away
when the profile is bound (`OldIsAway`), and what a failed login has put back
(`PutBack`). `Disciplined(p)` is the other half: a step of `p` changes a lock or
a cache only if it owns that lock or nobody does. Then what others know stays
true (`OthersOK`), and each action has only its own process to look after.
Ownership needs three kinds of locks at once, since a rebind takes two token
locks and the STS lock of a binding that is not the one it is making. From it:
`ReturnsCommitted`, `RefreshUsesCachedToken`, `NoStsWithoutToken`, and
`FailedLoginIsUndone` where lock files do not fail.

`RebindDropsOldSts` needs in addition what a rebind knows of the configuration,
on which it has no lock between loading and committing: `BindInv` says that the
binding it loaded is still that of the profile (`KnowsBinding`), unless session or
mode have changed, which the commit verifies. It holds where one process
configures; with two, the run `sso_rebind_race` shows how it fails. Attempting
the proof showed a second way, with one: the commit compares session and mode, not
the role, so a profile that leaves the SSO mode, whose role changes while it is out
of use, and that is back in the mode by the time of the commit passes the check as
well. Therefore `RebindsDropOld` allows at most one mode change (`Seldom`, which is
the bound of the run), and `RebindsInUseDropOld` states for any number of them what
remains true, of profiles that are in the SSO mode before and after the rebind.

`RefreshTokenIsLive` is a property of the whole system and the server: `LiveInv`
says that a refresh token belongs to one token key, in its cache or in the memory of
the command inside its lock (`OneOwner`), that every token was issued (`Issued`),
that the server accepts the one in a cache, unless the holder of its lock is just
about to write its successor (`LiveCache`), and the one a command has read, while a
token about to be revoked is in no cache any more (`LiveJob`).
A lost answer, a death or a failing write between the server's rotation and the
cache would break `LiveCache`, which is why the theorem excludes those.

**ConsoleLogin_proofs.** The argument is lock ownership. `IInv` says what a
command at each label has in memory (`JobAt`) and what it knows of the disk
(`DiskAt`): inside its session's lock, the cache is what it has read or written,
and after the deletion of a logout there is no cache and, at the end, no
binding. `Undisturbed` is the other half: a step leaves alone the lock, the
cache and the bindings of every session that somebody else has locked, so that
what a command knows stays true. From it: `TypeOK`, `ReturnsPersisted`,
`RefreshUsesCachedToken`, `LogoutIsComplete`, and the action properties
`NoRevival` and `NoSilentReplacement`, under all faults.

Two more invariants rest on it. `BackedInv`, for `BindingHasCache`: the session of a
bound profile has a cache, or a logout in it is just about to unbind (`Backed`), and
while a login that found no cache may still have to remove the one it writes, no
profile is bound to its session (`Unbacked`). It excludes deaths and failing
files, after either of which a binding may really be left without a cache.
`LiveInv` is that of the SSO system for the console's single kind of lock, where a
login that was granted a token and has not written it yet owns it too (`Pending`).

**SecureStoreFile_proofs.** Again what a caller at each label knows (`JobAt`,
`FilesAt`): it owns the lock, its temporary file is there, the content it has
read is still the visible one, the file it is about to rename is complete and
fsynced. `DiskOK` adds that every file the path may lead to is complete, durable
and has the changes callers were told of; it is needed for all of them, not only
for the visible one, because any of them may come back. `NamesOK` tracks the
temporary names on top of that. From these: `TypeOK`, `NeverTorn`,
`AckedSurvives`, `OwnTempStays`, `NoTempLeft`, and the refinement
`Spec => ImplementsAtomicFile`, in which a rename is an update or a
replacement, the directory sync and the kernel's write-back forget older
versions, and everything else is a stutter.

**ProfileStore_proofs.** The theorem speaks of `ConfSpec`, the part of the
`commands` run that is `ProfileStore`. The property is nearly inductive, and what
is missing is typing: `ConfOK` says that every stored credential is a complete
pair, every profile is a record with the keys and the fields of its mode, and
the current profile exists. Credentials only become more (`MoreCreds`), except
that `cred delete` removes one that no profile of any mode refers to: a profile
of another mode keeps its reference, and switching back must find it. Each form
of `configure set` puts one profile (`PuttingProfile`) and perhaps one credential
(`PuttingCred`) that were checked before. After a deletion the smallest name that
is left becomes the current one, which exists because names are well-founded
under `<`.

**DeviceFlows_proofs, Authorization_proofs.** The parts of `MCAuthorization` share no
variables, so each has an invariant of its own, and a step of one leaves the others
alone.

`CallInv` relates a call of `Do` that sleeps to the answer that made it sleep
(`SleepsAsAsked`), including a `Retry-After` beyond the limits and a backoff that
wraps; its `Bodies` has at most the body of that answer open. The function `Backoff` is
defined by recursion on the attempt, which the provers do not know to have a
value; the module shows that approximations of it exist for every length and agree,
by the least counterexample, and obtains the equations of `Backoff` from that.
`GrantInv` adds the flow and the server: where a code has been handed out its
terms are what the flow polls by (`TermsKnown`), the interval in use is what the
server has asked for so far (`IntervalAgreed`, with the increment that is told but
not yet added, and with its overflow), a token that left the server is on its way
to the flow or its answer was lost (`TokenInFlight`), and an end says what happened
(`EndedTruly`). `DiskInv` follows the registered client. From these:
`RetriesAsAsked`, `PollsAsAgreed`, `GrantsAreKept`.

`RoleInv` is ownership of the gate: the one caller between `check` and `store` is the
one the gate belongs to, and the credential it is about to refresh is not fresh;
the clock only takes freshness away, so that this stays true until it stores.
`CallbackInv` follows a callback through listener, handlers and channel: what is in
the channel is the first one taken, what `Authorize` checks is that one, or what was
pasted, and nothing listens once it has returned. `PortalInv` says that a listing has
exactly the rows before its next page as long as the directory did not change, that
pages follow one another without a gap, and that what is bound was listed. From
these: `RoleCredentialIsUsable`, `RefreshedOnce`, `CallbackIsSafe`,
`BindingIsExact`.

**Commands_proofs.** Again one invariant per part.

- *Skills.* `SkillInv`: the path of a skill that may not be lost holds a whole copy or
  nothing, and where a process has a backup of it, there is a whole copy at the path or
  in a backup that some process is to put back, or that a death or a failed rollback
  has left behind (`Anchor`, `Anchored`); a skill the user edited before a process there looked is
  still the user's, and no process there has decided to replace it (`OwnWork`,
  `Undecided`). Every action keeps this and never loses the last copy
  (`StepOK`). From it `SkillsSurvive` and `SwapsAreWhole`, with any number of
  processes that die anywhere.
- *Upgrade.* `UpInv` says that what is about to be renamed was verified and is
  newer. Newer by `compareVersions`: `ComparisonIsPrecedence` shows for every two
  versions that `parseVersion` takes, of any length, that this is the order of the
  SemVer document. The code compares numbers as strings of digits after looking at
  their lengths; that this is the order of their values is a lemma on `Value` (for
  equal lengths the first digit that differs decides, a longer number without a
  leading zero is greater), and identifiers follow by the first place that differs.
- *Export.* `ExportInv`: the rows so far are the first logs, none missing and none
  twice, and the part file has them too (`PartFollows`).
- *Requests.* `ExecInv` counts requests against pages. `ListInv` says that as long as
  the table has not changed the rows merged so far are a prefix of it: up to
  `(page - 1) * size` where pages are numbered and served as asked for, up to the
  cursor where there is one; that every position is that of exactly one row is shown
  by counting. From these `ListingIsSound` and `SignedAsOneIdentity`.
- *Command line.* `CommandInv` has, for each step, what has been ruled out before it
  (`CheckedFlags` and its companions), so that what these checks refuse is refused
  before the request; hence `NothingSentInVain` and `ExitCodeIsTrue`.
- *Credentials and input.* `SourceInv` and `InputInv` say where each value in use came
  from, and which fields have found their section so far, whichever order a map
  gives them in. From these `IdentityIsAsAsked` and `RequestIsAsGiven`.
- *Applications.* `GraphInv`: each request was for something that is listed, each
  resource the answers name is in the graph or still to be looked at (`Exploring`),
  the topics listed are those the answers have reached (`Heeded`, `TopicsHeard`), and
  edges lead between nodes (`Closed`). When nothing is left to look at, this is
  `GraphIsExact`.
- *Envelopes.* `SizeInv`: an envelope's length depends on the announced size only
  through its digits. From what an encoding of the file announces, three passes reach
  a size that a further pass would repeat (`SizeFinal`), and after at most four
  rounds the size is the one already announced (`RoundOK`). The limit of
  passes cuts off nothing but a repetition, the limit of rounds is never reached, and
  `SizesAreTrue` follows for bodies of any length.

What is proved under a hypothesis:

| Theorem | Hypothesis | Without it |
|---|---|---|
| `FailuresAreUndone` | lock files do not fail | a rebind that cannot lock its old STS cache returns without restoring (section 3) |
| `RebindsDropOld` | one process configures, at most one mode change | run `sso_rebind_race`; a dormant profile that changes roles |
| `RebindsInUseDropOld` | one process configures | run `sso_rebind_race` |
| `RefreshesAreLive` (of both systems) | no death, failing file or lost answer | the server has rotated and the new token is gone |
| `BindingsHaveCaches` | no death, no failing file | a binding whose cache was not written, or is gone while nothing was unbound |

What TLC alone shows: the liveness properties (`CancelledWaiterReturns`,
`SomeoneGetsIn`, `CommandsReturn`, `CallsEnd`), which are beyond this prover, and
that the implementation of locks and files is what the composed models take for
granted (proved of each, but the composition is by hand).

## 5. Not modelled

- *Log ingestion and special input formats* (`cli/special_io.go`): a conversion
  of one input into protocol messages, without state, whose errors one test of
  one input shows.
- *Tool and shortcut catalogue* (`cli/tool_meta.go`, `shortcut_meta.go`,
  `contract`): tables and lookups. *Topic shortcuts* (`cli/topic.go`): flags
  mapped to one request each. *Log and analysis workflows*: they forward to
  shortcuts.
- *Diagnosis* (`cli/doctor*.go`): reads the configuration and reports on it.
- *Code generator* (`openapigen`) and *packaging* (`src/npm`, scripts): not
  part of the running program.
- *Display*: help and usage texts, tables, `show` and `list`, the numbered
  prompts; only what is shown at all is modelled (`CommandRun`).
- *The project file* and the parsing of flags of the configuration commands.
- *Windows variants* of the lock and of the atomic write, permission and symlink
  checks beyond "the call fails", parsing of cache files beyond "unreadable",
  the draining of response bodies, codecs and request signing as computations.

## 6. Plan

1. *Refinement*: the one-step authorization of `SsoCommands` and `ConsoleLogin`
   by the device flows and the callback authorizer; a command's `config.Update` by
   `AtomicFile`.
2. *Remaining parts*: names of artifacts when commands share an output
   directory, and the log workflows.

A run is added only for a question the others do not ask: `authorization` and
`commands` take new parts in.
