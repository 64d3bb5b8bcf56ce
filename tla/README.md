# Specifications of the Linux Cloud Connector

TLA+ models of LCC, a desktop application (Flutter interface in `lib/`, Rust
core in `native/src/`) that reaches Google Cloud VMs through Identity-Aware
Proxy tunnels and runs SSH, RDP, VNC, SFTP and database clients over them.
Source paths are relative to the repository.

Run a model with `tlc -config <cfg> <module>`, check proofs with
`tlapm <name>Proofs.tla`. `PROJECT.json` lists runs, mutants, hazards,
findings and theorems, and maps every definition to the lines it models.

## 1. The system

### Components, their state and how they interact

| Component | Code | State | Operations | What makes it correct |
|---|---|---|---|---|
| IAP relay session | `iap_tunnel/session.rs`, `frame.rs` | session id, `received`/`acked`, `OutboundBuffer`, half-decoded bytes, reconnect count | one task per local TCP client: read either side, send, acknowledge, reconnect, resend | no byte lost, repeated or reordered; nothing acknowledged that was not delivered; a close ends it |
| Tunnel registry, idle reaper | `tunnel.rs`, `iap_tunnel/listener.rs` | `TUNNELS`: key to `IapTunnel` (backend, port, `last_active`); gcloud children; accept loops | start/reuse, stop, health, cleanup, touch, latency; reaper thread every 30 s | nothing orphaned, a key keeps its tunnel, only idle tunnels reaped, starts return |
| Native SSH forward | `ssh_forward.rs` | reactor with its connections, half-close flags, keepalive clock | start (over a relay listener of its own), pump, keepalive, stop | each direction closed once; a dead session noticed, a healthy one kept |
| Connection manager | `lib/src/features/gcloud_provider.dart` | `TunnelState` by key, `_inFlightConnects`, timers | connect, disconnect, health sweep, reconnect with backoff, manual retry, client launch | one connect of a key at a time; a dead tunnel does not stay green; reconnection ends |
| SFTP transfers | `sftp.rs` | flags by transfer id; per call: workers, remaining count, error channel | upload, download, cancel, directory requests | success means the whole file; failure leaves no file with holes |
| Transfer queue | `features/sftp/transfer_queue_provider.dart` | list of transfers, `_running` | enqueue, cancel, retry, clear, close of the tab | sequential; nothing forgotten; a cancellation stands |
| Token store | `token_store.rs` | keyring entries, index file, `InFlightReads` | save, load, list (prunes), delete, set active, status | no secret that nothing lists after a failed step (a crash, a refused rollback and an unreadable index are excepted); one keyring read of an account at a time |
| Accounts, OAuth | `accounts.rs`, `oauth.rs` | pending login, active account | loopback login with state and PKCE, add, switch, remove, log out | the active account is listed; a change of account takes the cached token with it |
| GCP REST, gcloud | `gcp_rest_client.rs`, `gcloud.rs`, `gcloud_bin.rs` | access token cache behind a mutex | REST calls, gcloud calls | the served token is the active account's and the selected engine's |
| SSH access | `ssh_access.rs`, `ssh_session.rs`, `ssh_keys.rs`, `ssh_consent_dialog.dart` | `_inFlight` of a window, consent, the key file | probe, ask, publish a key to OS Login or to the metadata, wait for the agent | one flight; published means landed; others' metadata survive; calls end |
| Engine preference | `engine_pref.rs` | preference file, environment | read, set | a call is served by the engine selected when it began |
| SSHFS mounts | `sshfs_mount/*`, `sshfs_mount_provider.dart`, its dialog | `ACTIVE_MOUNTS`, the provider's rows and spinner; the mounts are the system's | mount, unmount (by place, by row, all), refresh | rows and the program's mounts agree, both ways; every call ends |
| Windows credentials | `windows_credentials/*` | keyring | reset through metadata and serial port | the answer stored is that of the own key pair; resets lose no metadata |
| Diagnostics, doctor | `doctor.rs`, `diagnostics.rs`, `connectivity_doctor.dart` | the rows of a run | thirteen checks in order, two fixes, run again | a green report means nothing was wrong; a sound machine has no red row |
| Workspace of accounts and projects | `gcloud_provider.dart` (`AccountNotifier`, `MultiProjectNotifier`) | the account shown, its selected projects, their rows, the stored selections | switch, select, remove, clear, refresh, start | each account gets its selection back; a row belongs to the account shown |
| Panels of a VM | `diagnostics_panel.dart`, `snapshot_manager_dialog.dart`, `sftp_browser.dart`, `manual_instance_dialog.dart` | what was asked, the list shown, spinner and error | read, search, snapshot commands, directory commands, power | what is shown answers the last question; every spinner stops |
| Client launchers | `rdp_client/*`, `vnc_client/*`, `db_client/*`, `child_reaper.rs` | connection files, child processes | launch with fallback, write a file, spawn, reap, clean up at start | success opened one client; a client dials its own tunnel |
| Settings, profiles, workspaces (tabs) | providers in `lib/src/features` | stored JSON | load, change, save | load does not overwrite a change |
| Update check | `features/updates/*` | last check, dismissed version | check, compare, notify | version order, policy |
| Validation, redaction, logging, bridge, layout of windows | see `PROJECT.json` | none, or the operating system's | | |

A click on *Connect* runs, in this order: connection manager, generated bridge
(one call per Rust worker thread), registry, then an engine: the native
listener, whose accept loop runs one relay session per TCP client; a `gcloud`
child process; or an SSH forward over a listener of its own. Clients (SSH, RDP,
SFTP, sshfs) then talk to the local port. The interface is a single event loop
whose handlers interleave only at `await`; the Rust side is threads (bridge
workers, reaper, transfer workers) and tasks (accept loops, sessions). The
registry is one mutex which a start does *not* hold while it builds its
engine. `ssh_access.rs` calls the registry directly; every SFTP session and
mount depends on a tunnel that the reaper may take.

### What is hard

Connections that break in mid-frame and resume from byte counts; starts that
race each other, a stop and the reaper; `/proc` and clocks read before a lock
and used after it; children that exit between two checks; parallel workers one
of which fails; cancellations that arrive before or after what they cancel;
`await`s between reading a state and writing it back; keyring and index written
one after the other; a token fetched while its account changes; metadata that
three writers rewrite as a whole; half-closes behind partial writes; checks of
one run that each see another world; a list answered after the account it was
asked for is gone; two readings of one panel that end in the other order; a mount
that appears between a look and the `sshfs` that follows; a client installed
between a look and a spawn, or one that reads its file an hour later. The `hazards` list in `PROJECT.json` names each at its line.

## 2. Modules

| Module | Models | Abstracts |
|---|---|---|
| `RelaySession` | `run_session`, `pump`, `resume_after_reconnect`, `AckPolicy`, `OutboundBuffer`, `frame::decode` | bytes to their position in the stream; frames to a kind, a count and, for DATA, a head and a tail |
| `BytePipe` | what a session promises: two byte streams | |
| `TunnelRegistry` | `tunnel.rs` and the life cycle of its three backends | processes, listeners and connections to sets; time to ticks |
| `TunnelService` | what the registry promises: a key's tunnel stays until closed | |
| `SftpTransfer` | one parallel or single-connection transfer | the file to units of one buffer |
| `TransferCall` | what the queue sees of a transfer: phase and flag | |
| `TransferQueue` | the queue and a tab's end, over `TransferCall`s | a transfer to its id and status |
| `SshForward` | `ssh_forward.rs`: start and cleanup, stop, the reactor's loop, channel opens, `Conn::pump`, keepalive | bytes to counted units per direction; libssh2 to the answers it may give |
| `Accounts` | `token_store.rs`, `accounts.rs`, `oauth.rs`, the token cache of `gcp_rest_client.rs`, the sign-in preference of `engine_pref.rs` | a secret to its account; a token to its account and engine; PKCE and JSON to outcomes |
| `Connections` | `gcloud_provider.dart:445-1330` over the registry as the manager can tell it | a backend to its number and health |
| `InstanceAccess` | `ssh_access.rs`, `ssh_session.rs`, `ssh_keys.rs`, `windows_credentials/*`, the consent dialog, the metadata of one VM | keys to names, the metadata to its parts, the fingerprint to the metadata itself |
| `Doctor` | `doctor.rs`, the token each check fetches, the two fixes | the world to what the checks can tell apart |
| `Mounts` | the bridge's mount calls, the registry, the provider and the dialog | the disk to places, a place to what is mounted on it |
| `Launchers` | the three dispatchers, the sixteen clients, the connection files and their cleanup, the reaper of children | a client to a ladder of tries; a file to the launch whose address it holds |
| `Workspace` | the account list, the selection and its stores, the project list, the rows | a VM list to the account it was listed for |
| `VmConsole` (extends `Workspace`) | the diagnostics panels, the search for a VM, the snapshot manager, the file browser, the power buttons | a question to a value, an answer to the question it answers |
| `MC*` | the instances TLC checks; `MCFleet` puts `Workspace` and `VmConsole` together | |
| `*Proofs` | the theorems, see section 4 | |

`ReachProofs` is about `SshForward`, `Doctor` and `Launchers`, `TransferProofs` about
`SftpTransfer` and `TransferQueue`, `DashboardProofs` about `Mounts`, `Workspace` and
`VmConsole`; the definitions of two modules that are proved about together have names of their
own (`QueueInit`, `DoctorNext`, `LaunchSpec`).

`TransferQueue` composes with `SftpTransfer` through `TransferCall`: the queue's
calls take `TransferCall` steps only, and `SftpTransfer` is shown to implement
`TransferCall`.

### `RelaySession` and the code

`pc` says where the task is: connecting, waiting in `select!` (`"wait"`), or
decoding `pending` (`"decode"`), and `resuming` whether that is inside
`resume_after_reconnect`, where the local socket is not read. One action is one
iteration's arm: `LocalRead`/`LocalEof`/`LocalReadError` for the local socket,
`ReadMessage`/`ReadClose`/`RelayGone` for the relay, one `Decode*` per frame
kind. `sent`, `confirmed`, `unacked` are `OutboundBuffer`; `received`, `acked`
are `AckPolicy`. `recorded` and `ackSent` are history. A WebSocket message is
any number of consecutive pieces, so it may split a DATA frame or hold several
frames. The relay, the VM and the local application are external; what is
assumed of the relay is in the module's header.

### `TunnelRegistry` and the code

A start is the program counter `step[c]`: `"build"` and `"probe"` (native
listener and its probe), `"settle"`, `"poll"` and `"port"` (gcloud: the wait
after the spawn and the two questions of `wait_for_listener`), `"insert"`. `Begin` and
`Insert` are its two lock sections; `Stop`, `Cleanup`, `CheckHealth` and `Touch` are
one section each. The reaper is three steps, as the code is: `ReaperWakes` (time
and `/proc`, no lock), `Sweep` (lock), `ReaperStops` (after the lock). `Guarded`
are the threads that come through the single flight of `connect`
(`gcloud_provider.dart:988-1020`); the others (`_attemptReconnection`, the SSH
probe) start a key whenever they like, also while a start of it is under way.
`outside` and `displaced` are history: which entries such a start made, and which
backends were replaced under their key by a start that overlapped another, one of the
two outside the single flight. `Accounted` gives up those, and only those;
`NoneOrphaned` does not and fails. To `TunnelService` a start is `pending` from its
look-up to its insertion, so that overlapping starts are part of what it describes. `/proc/net/tcp` is assumed readable, as
it is on Linux: elsewhere the code reaps nothing.

What the code does that a reader may not expect, and the model keeps: reuse
returns an entry without asking whether it lives; a stop during a start finds nothing,
and the start leaves a tunnel open; a sweep writes the reaper's earlier time
over a later `last_active` (hence `Slack` in `ReapsOnlyIdle`); a native loop
never ends by itself; dropping a gcloud entry leaks its child, dropping a
native one ends its loop.

### `SftpTransfer`, `TransferQueue` and the code

The coordinator is `pc`, each worker thread is `worker[w]`, and what they share
is what the code shares: `cancel`, `remaining` (the `RemainingGuard`s), `errors`
(the channel). `dest` and `wrote` are the destination file, which has its full size
from the start, so that its size proves nothing. The source may be truncated by
others at any time; one that grows is not modelled.

`TransferQueue` has one action per method of the notifier. `Turn` is what
`_pump` and `_runOne` do between two `await`s, `awaited` the stream they wait for.
The stream of a call ends when the call has returned: `StreamEnds` also after an
error, because the generated bridge drops the call's error into a future
nobody awaits (`frb_generated.dart:3399-3440`); `StreamFails` is the `catch`, should the
error arrive. A cancellation is `posted` and arrives later, possibly after the
call's end, possibly at a retry of the same id. Not obvious: a cancelled transfer may be
retried while its own call still winds down (`RetriedEarly`). It is queued, the loop waits
for that call, and its end marks the transfer done (`:159`) without a new run:
`QueuedStarts`, `NoneForgotten` and `NoneSkipped` except it by that name.

### `SshForward` and the code

`pc` is the reactor's place in its loop: see the shutdown flag and accept one
connection (`"accept"`), open channels (`"open"`), pump (`"pump"`), keepalive.
`todo` are the connections a part of the tick has yet to visit. One `Pump` is
one whole visit of a connection: flush both buffers, read each side whose
destination is empty, pass an end on, retain or close. What a `write` accepts
and what libssh2 answers (`Answers`) are choices. `send_eof` may fail with
`EAGAIN` and nobody looks (`:549`), so `EofTold` leaves `vmEof` to chance.
`SetupFails` is every early return of `start` after the IAP transport is up.

### `Accounts` and the code

A caller's `pc` stands before its next call into keyring, index, cache or
network: an operation is cut wherever it leaves the process or waits. `lock` is
the mutex of the token cache, held through a fetch as the code holds it.
Nothing in the code keeps two operations from rewriting the index together but
the dialog that offers them one at a time; `MayEnter` is that assumption.
A log-out asks for the engine again before each removal and ends with gcloud.
A keyring read ends in two steps, as in the code: it frees its slot (`ReadFrees`,
`over`) and then answers (`ReadAnswers`).
`Crash` loses memory and keeps keyring, index and preference; the keyring may
refuse, a secret may vanish, the index may be unreadable, each counted against
`MaxFaults`. `strayed` and `vanished` are history.

### `Connections` and the code

A call or a health check is a `task`; each waits for the library at a place of
its own and then writes over the row it read before (`snap`). `Find` and
`Launched` are the library's two lock sections. What the code does and a reader
may not expect: a health check writes back the copy of a row it read before two
calls; `_enterReconnectingState` starts a stop and does not wait for it
(`StrayStop`); `_attemptReconnection` is outside the single flight, hence the
form of `ConnectsNeverLeak`; a disconnect does not wait for a connect.

### `InstanceAccess` and the code

Tabs live in windows; a window is an isolate with its own `_inFlight`. The
metadata is written as a whole under its fingerprint. The answer to a write is
an operation (`op`), which takes effect (`Lands`) or fails later. `late` is a
deadline that has passed: the loops of `wait_for_operation`, of the wait for
the agent and of the serial poll look at it between two requests. A tab's key,
its OS Login profile and the user a login needs are kept apart because a key
accepted for one user name is refused for the other.

### `Doctor` and the code

One action per check, in the order of `run_all_checks`. Each check reads the
engine and the world afresh and each of the six that call Google fetches its
own token, so a world that changes between two checks is the normal case.
`standing` and `well` are history: what has been wrong, or right, all through
the run. `missed` marks a run that lost a token or an answer on the way.

### `Mounts` and the code

A call of the bridge is `call[c]`, its `pc` the next look at the disk, program or
lock; the provider's own `await`s are `"refresh"` and `"looking"`. A mount's
identifier is the call that made it. `stack` is what the system has mounted at a
place, the visible mount last; anybody may unmount it, and its `sshfs` may die.
`holder` is the call that keeps the registry's lock across a look at the disk
(`refresh_mount_status` does). `crowded` notes the places two calls worked on at
once, which nothing in the code prevents. Not obvious: `findmnt --target` answers
for every path that exists (`sshfs_mount/utils.rs:168`), so a directory that
exists counts as a mount point: mounting on one is refused, and a refresh
drops only rows whose directory is gone too. Without `findmnt` the answer is
always no; it is assumed present. The allowed prefixes are prefixes of characters.

### `Launchers` and the code

A launch is a record: `turn` is whose turn it is (the preferred client's, then a
place in the order), `rung` the try of that client's ladder (native, flatpak,
without an address). `Consider` is one iteration of the dispatcher's loop,
`CreateFile` and `FillFile` the two halves of writing a connection file, `LookFor`
the look for a program, `Spawn*` the spawn and the thread that waits for the
child. A client that runs reads its file when it likes (`Opens`). Nobody calls
`cleanupDbConfigFiles` or `removeRdpConfigFile`: files go only by age, at a start.
Not obvious: Remmina's flatpak is run without a look, so that a launch can report
a success that opened nothing (excepted in `SuccessOpens`, only when the native
spawn failed by mischance); a file that cannot be written skips the native rung;
`tigervnc` counts as available where `vncviewer` is missing (`tigervnc.rs:10`), so
its spawn fails and the next client has its turn; a port from 6000 on, or below
100, is read as another display (`tigervnc.rs:39`, excepted as `BeyondDisplays`);
two projects' VMs of one name share a file (excepted as `SharesFile`).

### `Workspace`, `VmConsole` and the code

The notifiers run on one event loop: what stands between two `await`s is one
action, and `switches`, `starting`, `loads` and `writes` are the tasks that wait.
A listing takes its token when Rust gets to it (`ListTakesToken`), which may be
after a switch. `meant`, `spoilt` and `crossed` are history: what the user last
chose for an account; the accounts that promise nothing any more, because a choice, another
switch or a restart fell in the middle of a switch or a start (or the selection was
cleared); the projects a listing of which outlived its account. `VmConsole` has
one record per call in Rust; a panel takes any answer as it comes, except that
the snapshot manager counts only its last reading. `muddled` notes a panel with
two questions under way, `unsure` one whose list may be out of date: a command
given up at gcloud's time limit may still happen, a reading failed, or gcloud's answer was
no JSON, which `list_snapshots` takes for an empty list (`ReadsNone`, `snapshots.rs:134`).
`existing` and `entries` are the snapshots and directories there are; the list's filter
`sourceDisk~/<disk>` (`:105`) also finds those of disks whose name only begins with the
VM disk's (`Namesakes`), which can then be restored and deleted from the VM's panel. The serial
timer asks for what is new since the answer shown, which may be another port's
(`_autoRefreshTimer`). Until a directory is shown the browser is at `/home` (`currentPath`). SSH and REST calls without a time limit of
their own are assumed to be answered.

## 3. What is checked

| Run | Question | Bounds | Distinct states |
|---|---|---|---|
| `relay` | bytes over breaking connections: order, buffer, acknowledgements, arrival, end, refinement of `BytePipe` | frames of 1 byte, 2 reconnects, 2 bytes out, 3 in, 4 pieces under way to the client, frames the decoder refuses | 412 551 |
| `registry` | a tunnel and a forward sharing a port, a caller of the single flight and one outside it, the reaper, both engines: orphans, what is reaped and that it is, refinement of `TunnelService` | 2 keys, 1 port, 2 backends, 1 poll, idle time 1, no lag or slow start | 306 277 |
| `sftp_transfer` | success, failure, end, refinement of `TransferCall` | 5 units, 3 workers | 11 316 |
| `transfer_queue` | sequential, starts | 3 transfers, 2 retries | 71 704 |
| `ssh_forward` | half-closes, wholeness of what ends by itself, false deaths and zombies | 1 connection, 2 units each way, interval 1 | 145 690 |
| `accounts` | secrets without an owner, the cache against changes of account, one keyring read per account | 2 accounts, 2 callers, 2 readers, 2 faults (symmetric) | 2 187 127 |
| `connections` | lost backends, dead tunnels, reconnection | 1 key, 2 calls at once, 1 check, 2 attempts, 3 backends, 2 calls in all | 116 923 |
| `instance_access` | publication, contention, lost items, end | 2 tabs, 2 windows, 2 resets, 2 key pairs, 1 foreign write | 268 944 |
| `doctor` | green only if nothing is wrong, no red if all is well | 2 defects at a time, 2 upsets | 1 401 816 |
| `mounts` | rows against mounts, both ways; calls end | 3 calls (two of the user's and the provider's first refresh), 1 loss, a directory of the user's and one of the system's | 200 904 |
| `launchers` | one client per success and none per failure; the right tunnel | 2 launches, 1 mishap (fault, change of installation or restart), 3 kinds of request, 5 programs, 2 platforms | 268 046 |
| `fleet` | selections come back, rows and panels show what they should, spinners stop | 2 accounts, 2 projects, 1 selected, 3 presses, 2 serial ports, 2 snapshots and 1 of a namesake disk, 2 directories | 484 740 |

The bounds are enough for the cases that matter to happen. Relay: a second
break while the first is being resumed, a resend longer than one frame, a DATA
frame cut by a break, and three bytes in with frames of one, so that `received - acked`
exceeds twice the frame size and an ACK is sent. Registry: a
dead backend and its successor on the same port, a start outside the single flight over one
inside it, a reuse or a touch between the reaper's
look and its lock, a poll that gives up. The reaper's look and its lock fall into one tick there
(`MaxLag` is 0), and a start into one (`MaxStart`); other values are left to `OnlyIdleIsReaped`. SFTP: five units in three ranges leave a last
range longer than the others, so a lost remainder shows. Queue: one transfer running, one waiting,
one retried behind them, and two retries so that one id can run three times.
Forward: two units let a write be partial, and the one connection's half-closes
meet every order of data; connections share nothing but the transport's state
and `blocked`. Accounts: one account's sign-in overlaps a switch, a removal or a
fetch of the other's; a crash or a refusal hits between any two writes, and
twice. Connections: a call overlaps a health check, another call and a stray
stop; three backends let one be replaced twice. Access: two writers of one
window, of two windows, a reset and a stranger on one fingerprint. Doctor: two
defects, so that one hides the other; two changes, so that the world changes and
changes back within a run. Mounts: a mount meets another of the same place, or a
refresh, at every step, and is then unmounted or lost. Launchers: one preferred
client of each family, an order with a file writer behind two others, two launches of one
instance; a file can be written by one while the other's client has yet to read it.
Fleet: away from an account, a choice, and back; `MCFleet` keeps apart what does
not meet (the presses are all on the workspace or all on one panel, none follows
one made in the middle of something, and the third is made when next to nothing is
under way). The theorems of section 4 do without these bounds.
`CHECK_DEADLOCK FALSE` is set where the modelled thing ends: a session, a
forward, a call, a queue, launches or presses whose bounded inputs are spent. The
other configurations are checked for deadlock.

### Known divergences

These properties quote what a comment or a document of the code promises, and do
not hold. Each has a configuration of its own, not among the regular runs:
`tlc -config <cfg> <module>` shows the counterexample.

| Property | Configuration, module | What happens |
|---|---|---|
| `NoHole` | `RelayHole.cfg`, `MCRelaySession` | a chunk whose send fails is neither recorded nor sent again (`session.rs:586`) |
| `NoFrameLeftBehind` | `RelayLeftover.cfg`, `MCRelaySession` | frames behind `RECONNECT_SUCCESS_ACK` wait for the relay's next message (`session.rs:535`) |
| `NoneOrphaned` | `TunnelOrphan.cfg`, `MCTunnelRegistry` | a start outside the single flight can orphan a gcloud child (`tunnel.rs:392`) |
| `OnlyUnreapedSignalled` | `TunnelSignal.cfg`, `MCTunnelRegistry` | a child reaped by `try_wait` is signalled by its number (`tunnel.rs:289`) |
| `ListeningIsAlive` | `TunnelStranger.cfg`, `MCTunnelRegistry` | a dead engine can be reported as listening (`tunnel.rs:485`) |
| `CancelStands` | `TransferCancelled.cfg`, `MCTransferQueue` | a cancelled transfer can be shown as done (`transfer_queue_provider.dart:159`) |
| `LogOutEmpties` | `LogOut.cfg`, `MCAccounts` | a log-out of all can succeed and leave a secret: the accounts come from a listing that skips what it cannot read (`accounts.rs:327`) |
| `ClientEndReachesVm` | `SshForwardEof.cfg`, `MCSshForward` | `send_eof`'s answer is discarded (`ssh_forward.rs:549`): one that would have blocked is never sent again |
| `EveryMountRegistered` | `MountsDouble.cfg`, `MCMounts` | two mounts of one new directory stack, and one unmount takes both rows off the table (`mount.rs:23`) |
| `RefreshRemovesUnmounted` | `Mounts.cfg` with it as a `PROPERTY` | a refresh keeps a row whose directory still exists (`api.rs:810`) |
| `ReapedIsNoticed` | `ConnectionsReaped.cfg`, `MCConnections` | a forward that the idle reaper took stays green: health checks skip forwards, and the sweep that "is the only signal a forward has" (`gcloud_provider.dart:735-742`) sees only entries that are still there (`tunnel.rs:928`) |

Others were met while writing the models, have no property of their own, and are
excepted by name in those there are.

- Workspace: the answer to a list asked for before a switch is shown after it
  (`gcloud_provider.dart:106` speaks of full isolation); the answer for a removed project brings its
  row back; `clearAll` is not stored per account; a choice made during a switch or
  reload is lost; a start at which the account list fails clears the selection;
  `removeAccount` compares with the list as it is after it was reloaded (`:172-190`);
  a connect under way survives a switch; tunnels are keyed by VM name only; a request sent
  after a switch acts as the other account; the comments "Always use CLI" (`:2184`, `:2197`) and
  "CLI fallback" (`:1466`) are out of date.
- Panels: two answers of one panel may come in the other order
  (`diagnostics_panel.dart:120-157`), and `setState` may follow the end of the panel
  (`:135`); the audit and snapshot filters match prefixes; an unreadable list of snapshots is
  shown as an empty one (`snapshots.rs:134`); the serial timer sends the offset of another port's
  answer (`diagnostics_panel.dart:167`); a refresh after a directory command
  may cross a navigation; typing a search erases an error; the rows of a project are
  not read again after a power operation (`gcloud_provider.dart:1461`); the dialog that adds a VM takes the
  text as it is when the answer comes; only the first page of a list is read.

### Fairness

- Relay: weak fairness of the session's task (the runtime polls it) and of the delivery of
  bytes on a connection that is up. Strongly fair: the local socket's end (`select!` picks at
  random, so a relay that never stops talking does not starve it), and the relay's answer, its
  SID or its `RECONNECT_SUCCESS_ACK`, whatever else it says in between. Neither the local application nor the
  network owes anything. `resume_after_reconnect` has no timeout, so without a
  relay that answers `CloseEndsSession` does not hold.
- Registry: each start's own steps (its waits are bounded by timeouts and a
  number of polls), the reaper's wake-up and lock, the end of aborted loops. Strongly fair:
  time, which the model stops while somebody is in a step that takes none; the reaper sleeps
  between its sweeps, so time can always pass again.
- Transfer: the coordinator's look at the count every 100 ms. Nothing of the
  workers: no SSH session has a timeout, so `ReturnsWithItsWorkers` starts from workers
  that have ended.
- Queue: the event loop gets to a stream's end. That calls return is a hypothesis
  of `QueuedStarts`, not a fairness assumption, for the same reason.
- Forward: the reactor's thread runs, a stop joins it, time passes. Strongly fair:
  the answer to a channel open (libssh2 may say "try again" any number of
  times, not for ever) and the pump's writes being taken whole; a client that
  was sent the FIN closes at last. `NoZombie` has the end of a half-sent packet as a
  hypothesis: while libssh2 reports one, the keepalive is vetoed and nothing else looks.
- Connections: the library answers every call it is given (each waits a bounded
  time), the timer fires, delays pass, a stop that was started arrives. The user
  owes nothing.
- Mounts: each call's own thread goes on (`Progress`): the looks at the disk and
  the programs end, the user answers the gate, a waiting thread gets the lock.
- Fleet: answers come, and the tasks of the event loop go on (`WorkspaceFairness`,
  `ConsoleFairness`: weak fairness of answers, of the account list, of the start,
  of switches, of the stores, and of the console's calls). The user owes nothing.
- Access: requests are answered or time out, sessions end, clocks run. Neither the
  user before a dialog, nor the server's operations, nor the VM's agent owe
  anything: the deadlines alone end a call.

## 4. What is proved

For every value of the constants that the module's named assumption allows, with
nothing else assumed. The type invariants are proved too (`TypeCorrect`,
`QueueTypeCorrect`, `MountsTypeCorrect`, `LaunchTypes`; for the doctor, the workspace and the
panels as a conjunct of the invariant). Every invariant that a run
checks, every action property and every refinement has its theorem; liveness has
none. Of the specifications, `DoctorSpec`, `LaunchSpec`, `WorkspaceSpec` and
`ConsoleSpec` have no bound but their constants.

| Module | Theorem | Statement |
|---|---|---|
| `RelaySessionProofs` | `NothingRecordedIsReordered` | `Spec => []OutboundInOrder` |
| | `NothingUndeliveredIsForgotten` | `Spec => []UndeliveredIsBuffered` |
| | `OnlyDeliveredIsAcked` | `Spec => []AckedWasDelivered` |
| | `ImplementsPipe` | `Spec => PipeSpec` |
| `TunnelRegistryProofs` | `NothingOrphaned` | `Spec => []Accounted` |
| | `OnlyIdleIsReaped` | `Spec => ReapsOnlyIdle` |
| | `ServiceImplemented` | `Spec => ServiceSpec` |
| `TransferProofs` | `SuccessIsWhole` | `Spec => []OkIsWhole` |
| | `NoHoleIsLeft` | `Spec => []FailureLeavesNoHole` |
| | `CallImplemented` | `Spec => CallSpec` |
| | `NothingForgotten` | `QueueSpec => []NoneForgotten /\ NoneSkipped` |
| | `AwaitedStaysListed` | `QueueSpec => []AwaitedIsListed` |
| | `Sequential` | `QueueSpec => OneAtATime` |
| `ReachProofs` | `HalfClosesComeLast` | `Spec => []EofAfterData` |
| | `HealthyStaysUp` | `Spec => NoFalseDeath` |
| | `EndsAreWhole` | `Spec => EndsWhole` |
| | `ReportTellsTheTruth` | `DoctorSpec => []ReportIsTrue` |
| | `LaunchReportIsTrue` | `LaunchSpec => []ReportsWhatItOpened` |
| | `ClientsDialTheirTunnel` | `LaunchSpec => []DialsItsTunnel` |
| `AccountsProofs` | `SecretsAccountedFor` | `Spec => []NothingUnlisted` |
| | `ActiveIsServed` | `Spec => []ServedIsActive` |
| | `ActiveListed`, `HolderIsFetching` | `Spec => []ActiveIsListed`, `Spec => []HolderFetches` |
| | `ReadsAreSingle` | `Spec => []ChecksShareOneRead` |
| `ConnectionsProofs` | `SingleFlight` | `Spec => []OneConnect` |
| | `ConnectsLoseNothing` | `Spec => ConnectsNeverLeak` |
| `InstanceAccessProofs` | `PublishedOnlyIfLanded` | `Spec => []PublishedMeansLanded` |
| | `SingleFlight` | `Spec => []OneFlight` |
| | `ConflictIsContention` | `Spec => ConflictMeansContention` |
| | `NothingLost` | `Spec => NobodyLosesAnItem` |
| `DashboardProofs` | `RowsAgree` | `Spec => []TableIsWhatIsMounted` (of `Mounts`) |
| | `SelectionReturns` | `WorkspaceSpec => []SelectionIsRestored` |
| | `RowsStayOwn` | `WorkspaceSpec => []RowsAreOfTheirAccount` |
| | `PanelsShowWhatWasAsked` | `ConsoleSpec => []ShowsWhatWasAsked` |

**Relay.** `OutboundInOrder` and `UndeliveredIsBuffered` are not inductive. `IInv`
adds: the buffer is the tail of what was recorded after `confirmed`
(`BufferIsTail`); every count the client has or will read is one the relay had
reached (`CountsAreReached`), else an acknowledgement could free a byte still in
flight; at most one `RECONNECT_SUCCESS_ACK` is on its way, only while resuming, and
it carries exactly what the relay took (`OneResume`), else the resend would start
at the wrong byte; and nothing but the resend is in flight then (`InFlight`).
`OnlyDeliveredIsAcked` has an invariant of its own: the two counters are ahead
of what was told, and behind what was delivered. `ImplementsPipe` maps every step of
the session to a step of `BytePipe` or to a stutter. Towards the client, what is half
decoded (`pending`) and behind it on the wire (`toClient`) carries, one after the other,
the VM's bytes from `received` to what the VM has sent, whatever breaks in between; so what
is written to the local socket continues it without a hole. Towards the VM the
record ascends, and what the VM got is its beginning; that there is no hole is not
promised (see `NoHole` above).

**Registry.** Nothing is assumed of the callers. `Accounted` needs that of two starts of
one key under way, or of a start and an entry made since it looked, one is outside the
single flight (`SingleFlight`), so that every backend `Insert` replaces is noted as `displaced`;
that the reaper is in its last step
while it holds tunnels (`KillsDoomed`); and that a backend is in one place only
(`Shape`). `OnlyIdleIsReaped` relates the two clocks of each backend, the one
the code keeps and the true one (`Young`), and the connections spared since
the reaper's look (`SparedSeen`). `ServiceImplemented` maps the registry to
`TunnelService` step by step, overlapping starts included.

**Transfers.** The ranges of the workers cover the file (`Covered`), a worker has written
its range up to where it is (`Progress`), and the count the coordinator polls is that
of the workers still at it (`Counted`): that is what its verdict rests on. For the queue,
the loop awaits one stream and every call in flight is that one (`LoopOK`), what the loop left
behind is not queued (`Drained`), and what is awaited is in the list (`Listed`). What becomes of a
queued transfer (`Fate`) is followed through every action; only the end of its own earlier call is
excepted.

**Forward.** The flags of a connection say something of its counters: who has
been told of an end has had everything before it (`Behind`, while the session
stands), a side that ended wrote nothing more (`Ended`), and nobody is given more
than was read nor more is read than was written (`Counted`). That a connection
that ends by itself is whole needs in addition that channels are opened only for
connections that wait for one (`Visited`).

**Accounts.** One call at a time is between reading the index and writing it
(`Sectioned`); a step knows whom it is about (`Named`); what is about to be written
is the index, or nothing (`Snapped`). For the cache: a fetch under way is for the
account that is still active, or somebody owes an invalidation (`Minted`).
This rests on the mutex: an invalidation waits for the fetch that holds it
(`HolderFetches`). For the keyring reads: a slot stands for the only read of its account
that has not freed it (`OneRead`).

**Doctor.** Each check that raises nothing rules out problems of its own, and the
thirteen together rule out all (`FoundNone`). That no row is taken back follows
from the rows not yet come to being empty (`Unreported`). A check answers for the
whole run because of the history: what stands has stood since the run began, and
a machine in order throughout is in order now (`StillSo`).

**Launchers.** A launch is where its record says, on a rung of its client's ladder, and
has written the file that rung needs (`Placed`). `SuccessOpens` needs `Sure`, as long
as nobody changes the installation: a flatpak tried without a look was looked for on the
rung before, which is a property of all sixteen ladders (`Climbs`, `LaddersAre`), and Remmina's flatpak is
tried only where the native program is missing. `DialsItsTunnel` needs that the file a
client was lent is whole, its own and young from when it is written until it is opened
(`Filed`, `Lent`): files age only while nothing is about to be opened.

**Mounts.** Two calls that work on one place are noticed (`Alone`); where that did not happen a
place holds one mount at most, and none when `sshfs` is run on it or a row is being
forgotten (`Clear`); what a refresh has found gone stays gone until it drops the row
(`GoneIsGone`); and a row about to be made is that of a mount (`RegistersMount`). None of
this rests on the registry's lock: the order of each call's own steps is enough.

**Workspace.** While the user does one thing at a time (`OneThing`), what is stored, what is
shown and what a switch or a start has found to restore are all what he meant (`Kept`).
One choice made in the middle of a switch ends the promise, for every account (`AllOrNothing`).
For the rows no such hypothesis is needed: except between a change of account and the
moment its workspace is restored, every row and every listing under way is the active
account's or noted as crossed (`RowsInv`), and the project list is the active account's or
about to be read again (`MenuInv`). Both are about `WorkspaceSpec`, which has none of `MCFleet`'s
restrictions.

**Panels.** A panel not asked twice at once has one reading under way, and it is for what was
last asked (`OneQuestion`). A command that changed a list still owes its reading, or the list is marked
out of date (`SnapshotsFollow`, `FilesFollow`), and so is one whose reading was taken for empty. This is about `ConsoleSpec`, on any number of
panels at once.

**Connections.** `Placed` ties the place of a task to the operation it runs, and
`Clear` says that what a launching connect finds registered by then was not
started by a connect.

**Access.** A tab that runs is its window's flight (`Flies`), the operation of a tab that
waits for it is done only if it landed (`Landing`), a write that is accepted keeps what it was
based on (`Body`), and a second attempt comes after one change of the metadata and fails only
after another (`Counting`).

**Only model-checked:** liveness, which is beyond the prover (`RecordedReachesVM`,
`CloseEndsSession`, `IdleIsReaped`, `ReturnsWithItsWorkers`, `QueuedStarts`, `NoZombie`,
`VmEndReachesClient`, `DeadIsNoticed`, `ReconnectSettles`, `EverySpinnerStops`, and the
`CallsEnd` of `InstanceAccess` and of `Mounts`).

## 5. Not modelled

`PROJECT.json` gives a reason for every component left out. In short: validation
and redaction are pure functions on text that unit tests cover; log files keep no state; the
bridge is generated (`frb_generated.rs` alone is a quarter of the Rust code);
settings, tabs, the update check and widgets are single assignments,
synchronous notifiers and layout.

- **Settings.** The first load is not awaited and may overwrite a change made in
  the first instants.

What the modelled parts leave out:

- Relay: sockets are always writable, so the head-of-line deadlock of `pump` is not seen.
- Registry: `measure_tunnel_latency` changes no state. Elsewhere than on Linux the
  code reaps nothing.
- SFTP: directory requests keep no state; a drop's resolution into transfers.
- Forward: a channel's write error drops what was read of the replies; a client
  that never closes after the FIN keeps its slot (`ssh_forward.rs:249-253`).
- Accounts: two rewrites of the index at once (`MayEnter` excludes them); a rollback
  after an unreadable index may delete a working sign-in (`token_store.rs:213-217`); a
  listing that prunes the active account leaves its token in the cache, which
  `ServedIsActive` names as an exception.
- Access: two windows may make the key file at the same time (`ssh_keys.rs:60`); a
  conflict that the operation reports is not retried (`ssh_access.rs:265-272`); half a
  line of the serial port is lost (`serial_parser.rs:156-159`); a reset deletes the old
  credential before it has a new one (`windows_credentials/mod.rs:159`).
- Mounts: what the options of `sshfs` mean, and opening a file manager. `findmnt` is
  assumed present on Linux.
- Launchers: the wording of files and arguments beyond the address; what the
  clients do once connected.
- Workspace: Riverpod's own retry of a failed provider; a `gcloud config set account`
  given up after ten seconds that lands later (`gcloud.rs:776-800`); `gcloud.rs`'s own listings, which the
  REST ones superseded.
- Panels: export and layout; the file browser's own uploads and downloads, which refresh the
  directory at their end as its commands do; the jail of local paths (`validate_local_path`).
- Doctor: a token lost or an engine switched in the middle of a run does give a
  green report (`missed` excludes such runs); a machine with application default
  credentials only is skipped under gcloud; the *re-authenticate* fix of the gcloud
  row always fails under gcloud (`accounts.rs:272-280`); nothing keeps two runs after
  a fix apart (`connectivity_doctor.dart:163`).

## 6. Plan

| Module | Code | Composes | Properties | Theorems |
|---|---|---|---|---|
| `RelaySession` with bounded sockets | `session.rs:619` | two applications | no four full buffers wait for each other | `PipeSpec` again |
| `Connections` over `TunnelService` | | both | what is shown green is open | the same |
| `InstanceAccess` with the key file | `ssh_keys.rs` | | two windows, one key pair | the same |
| the bridge's worker pool | `frb_generated.rs`, `api.rs` | `Mounts`, `SftpTransfer` | a blocked call does not stop the others | |
