# TLA+ models of the Comment bus daemon, its updater, enrollment and library sync

This directory holds TLA+ models of `comment`, the command line and local
daemon ("bus") that brings comments, mentions and messages of the Comment
service to agents that run in terminals on this machine. The models are
translated from the Go sources, checked with TLC on small instances and, for
the message store, the managed sessions, the daemon's socket, the auto-updater
and the library sync, proved with TLAPS for every instance.

## The system

| Component | State it keeps | Operations | Talks to |
|---|---|---|---|
| Message store (`messages.go`, `store.go`) | SQLite: messages, recipient rows, outbox, events | send, ingest, claim, renew, ack, release, requeue, quarantine | daemon, under one connection |
| Cloud mutations and journal (`daemon.go`, `notification_ops.go`) | `ops/pending`, `ops/done`, private metadata files | ack, release, renew of a cloud message | store, cloud |
| Notification ingest (`daemon.go`) | journaled lease operation, metadata files, per-profile lock | lease, ingest, adopt, decline, retry a pending ack | cloud, store, journal |
| Repair (`repair.go`) | none of its own | replay pending operations, release abandoned claims | journal, store, cloud |
| Listen claims (`listeners.go`, `daemon.go`) | claims, pull waiters, launch markers, in memory | claim, release, reload drops | profiles, runtimes |
| Main runtimes (`runtime_transient*.go`) | reservations, runtimes, rows, a goroutine and a terminal each | start, stop, watch, nudge, reconcile | terminal hosts, store |
| Mention auto-start (`mention_autostart.go`) | launch record per profile | check, reserve, launch, back off | ingest, runtimes |
| Managed sessions (`sessions.go`, `daemon.go`) | session records, handoff logs | create, reconcile, relaunch, fence, reset daily, stop | terminal hosts, store |
| Nudges (`daemon.go`, `tmux.go`) | attempts and back-off of each session | dispatch, back off, nudge again | sessions, terminal hosts |
| Spool (`spool.go`) | a file per message | mirror the store | file system |
| Daemon lock, socket, watchdog (`daemon.go`, `daemon_lock_unix.go`, `daemon_socket_watchdog.go`) | lock file, socket, pid file | start, re-bind, close | file system, service manager |
| Profiles and bot registry (`profiles.go`, `botlets_registry_repair.go`) | loaded profiles; registry file | reload, repair | file system |
| Document sync (`internal/commentsync`) | projected files, placement metadata, recoveries | login, sync once, live sync, recover | cloud, file system |
| Auto-update (`auto_update_*.go`) | update journal | install, boot, roll back | package manager, service manager |
| Enrollment (`agent_enrollment_worker.go`, `agent_enroll_journal.go`) | enrollment journal, profile with its backup, registry entry | list, redeem, back up, write, verify, ack, undo | cloud, daemon |
| Pairing (`bus_pair.go`, `daemon_auth.go`) | daemon credentials | pair, unpair with its cleanup | cloud, enrollment journal |
| Team installs, owned agents, runtime requests (`cmd/comment/*_worker.go`) | profiles, registry | install, resync, start | cloud, daemon |
| Socket protocol, command line, installers, doctor | none worth checking | one request, one command | everything |

What is hard in it: requests, the poller of each profile, the goroutine of each
runtime, the session loops and a repair run concurrently and meet in `busMu`,
`profileMu`, `sessionMu`, `transientRuntimeMu`, `listenEstablishMu` and the
per-profile ingest lock, most of which are given up around cloud calls and terminal
commands; cloud calls may be carried out although their answer is lost; the
cloud hands out the same notification again when a lease ends; the daemon may
die between any two writes. `PROJECT.json` lists each such hazard with its line.

## The modules

**`Inbox`** is what the store promises its readers, without leases or rows: a
message arrives, is open or in the hands of one holder, and once done stays done.

**`MessageStore`** is `messages.go`. `row` is `message_recipients`, `outbox` and
`requeues` are the tables of their name and the count of requeue events; each
action is one exported method, which is one transaction on the store's only
connection. Methods that refuse write nothing and are stuttering steps. Time is
what the code asks of it: a lease is `live`, `expired` or `none`, a live lease
may expire at any moment, and a lease of the cloud may be over when it is
stored. `origin` and `revived` are history variables. `Promise` instantiates
`Inbox` under `PlaceOf`.

**`CloudClaims`** extends the store by all that happens to the message of one
notification: the cloud (external), the metadata file, the journal (`ops` is
what an id stands for, `pending` and `done` the two directories), the requests
of sessions and owners that wait for a cloud call (`calls`), the poller with its
journaled lease, the repair pass, and the sessions that are alive. Every stretch
of code under `busMu` is an action; a cloud call is split into the journaled
intent, the cloud's step and the completion, so that everything else interleaves
with it. `loose` are requests that may still arrive after their caller gave up
or died. A crash keeps the store, the journal, the metadata and the lease
operation, and the start-up repair runs before requests are served. An ingest
writes the metadata before the store: `IngestStops` is the daemon that dies, or the
store that refuses, in between; the journaled lease is then ingested again.
`completeActivity` and `skipTerminalCloudReplay` end in the same ack path and
are `Ask` with kind "ack".

**`ListenHandles`** decides who listens for a handle. A `listen.claim` is its
three critical sections (`ClaimReads`, `ClaimCommits`, `ClaimRechecks`) under
`listenEstablishMu`; a launch goes through the phases of
`startTransientRuntime`; a reload is two steps under `profileMu`; a stop removes
the runtime, waits for its goroutine and deletes the row; a restart takes up rows
whose terminal is alive, or cannot be looked at for now (`Revives`).

**`AutoStart`** follows a mention through `ingestCloudNotification` and
`maybeAutoStartRuntimeForMention`, with the goroutine of the bot's runtime,
which also ingests notifications.

**`LibrarySync`** is the mirror of the library (`internal/commentsync`). A pass
holds the sync lock and goes through `Once` or `RefreshProjection` step by step:
replay of an unfinished write, snapshot, and for each document the looks at its
target and at its old file with the edits kept as recoveries, the journal, the
rename, the removal of the old file, the metadata file, the placement, the
journal again; then the documents that are gone, whose metadata file may stay
behind their record (`LeavesMetadata`) and then serves as the placement
(`Previous`). `disk` is what lies under the
root, `db` and `meta` are the placements, `op` the one operation that may be
started (passes exclude each other, and each closes what it finds). Paths are a
name, or a name with a document's suffix, as `uniquePath` and
`firstAvailableSibling` make them. Between any two steps the user saves or
deletes a file, the library changes, the process dies, or a step fails. `made`,
`excused` and `quiet` are history variables.

**`Sessions`** is the managed sessions of one bot. An operation (`op`) holds
`sessionMu` and is taken through its writes one at a time: the sweep of
`reconcileLiveSessionForScopeLocked` over the records, with the relaunch of bmux
sessions, `markSessionStaleLocked` and `fenceDuplicateLiveSessionsLocked`; the
creation of a session; the daily reset from its request over the prompt, the handoff
log and the death of the session to its replacement; the stop; the looks of a status
or a receive at one session; the repair of a claim (`Repairs`), when the daemon
starts and on demand; the nudge of the queue's head. Where the cloud refuses for
good to take a claim back, its holder's record is marked stale, whatever it was: in
a repair, and when the claims of a session are released (`FreeRefused`). `rec` is
the records on disk, `pane` the terminals, `op.mem` the record the operation has in
memory, which is what it writes back. Between any two writes the daemon may die, a
terminal end, an inspection or a kill fail, the agent write its log, an owner take
the message, minutes or a day pass. A nudge that meets a task for a target that is
gone gives `sessionMu` up: it is `parked`, and goes on with what `Refresh` reads
(`op.kind = "reuse"` is the second nudge of a dispatch, which does not read again).
`Renamed` are sessions of before a rename, which the scope of the bot matches and
its labels miss.

**`DaemonSocket`** is how several processes share one home: `StartDaemon` looks at
the socket path, probes, compares and removes before it takes the lock; binds and
serves after it; the watchdog finds the file gone and binds again, with a limit of
time and a goroutine that may succeed late, or fail and leave a file that nobody
listens on (`Strays`); `Close` removes the file it owns and unlocks last. A file is
a number, so that "the same inode" is equality; every look at the path and the
removal that follows it are two steps. Signals, kills, lost files and failed or
hanging binds are the events.

**`AutoUpdate`** is the updater's journal: the worker that journals, installs and
restarts the service; the reconciliation before `StartDaemon`, which counts the boot
or rolls back, and the one after it, which commits; the rollback with its four
effects in the order of the code (lock, journal, npm, service). The process may be
killed between any two of them, the user stops the service or installs a release by
hand. A release of `Broken` never starts. `tries`, `failed` and `stranded` (the
release whose rollback ended before the old one was installed) are history
variables.

**`Enrollment`** follows the credential of one agent. The server (`srv`, `revoked`)
lists enrollments to the paired daemon; the worker `w` goes through a pass of
`runOnce` step by step: redeem, `BacksUp`, `Journals`, `Writes`, verify, ack; or,
for an enrollment that was closed meanwhile, the undo of `cleanupClosedEnrollment`
and its confirmation. `profile`, `backup`, `registry`, `journal` and `auth` are the
files; a credential is the number of its enrollment and of its redemption, and `bot`
says which of the two install paths is taken. `comment bus unpair` (`u`) is another
process: it revokes the daemon, reads the journal, restores or removes what the
journal attributes to the daemon, writes the journal back and removes the
credentials. Between any two steps the server closes enrollments or revokes daemons,
the user installs the agent by hand or pairs again, an answer is lost, a file cannot
be written, the daemon or the command is killed. The backup is a plain write, so
that a failure or a kill may leave a piece of it (`Torn`), which every later pass
takes for a whole one. The worker's retry windows are `waiting`, the ETag of its
last list `etag`. `owed` and `excused` are history variables: what the properties
claim and whom they except.

The `MC` modules give the symmetry sets and constant functions for TLC.

## The runs

| Run | Asks | Bounds, and why they are enough |
|---|---|---|
| `message_store` | Do rows stay coherent, is every local message kept, is a session's claim unique, a send idempotent, redelivery bounded, and does the store implement `Inbox`? | two sessions, an owner, two local messages (two live claims need two), one cloud message, cap 2. No bound on the length of behaviours. |
| `cloud_claims` | Does the daemon believe only in acks the cloud agreed to, is one terminal operation per claim on its way, does a pending ack pin its message, is every granted claim ingested or handed back, does no renew outlive its claim? | two sessions, three claims with a cap of one (the cap is passed), two operations, one crash or repair. One caller waits at a time; requests whose caller gave up or died stay on their way, so that an operation in doubt, a second lease, a conflicting request and a crash all fit. `View` forgets requests on their way that the cloud has carried out or no longer can (a claim it ended is never leased again), and that a request was carried out once neither its file nor a caller asks: no action and no property tells such states apart. |
| `listen_handles` | Has a handle one listener and a bot one main runtime; does a stopped runtime stay stopped? | two handles of one bot, one session and anonymous claims, two launches, one restart. |
| `auto_start` | Is there one launch at a time, and does every mention end? | two mentions, two runtimes, the clock to 3 base cooldowns. |
| `auto_start_caller` | Does the auto-start let its caller go on? Violated, see Findings. | as above |
| `library_sync` | Is every edit in its file or in a recovery, does the mirror converge, does a crash leave no stray projection? | two documents, two names, two revisions, three edits, deletions, changes, crashes or failures in all: two renames and a deletion, or a crash and a rename and an edit, fit. |
| `sessions` | Is nobody replaced without a handoff, nobody typed to who is being reset or was stopped, nobody fenced brought back; does a reset end? | three sessions (two live ones to fence and a replacement), one renamed, one on bmux, a cap of one nudge, two days, two crashes, failures, stops or ended terminals in all: a kill that fails and a crash fit. |
| `enrollment` | Is the user's own install kept, is a dead credential noticed, a registry entry never orphaned, and does the worker look again as long as there is work? | two enrollments of one agent, as a bot and not, two pairings (the second daemon meets what the first left), one install by hand, one fault: an install between two enrollments, a closed one, an unpair and a lost answer or kill fit. |
| `auto_update` | Is every boot counted, a rollback remembered, a failed release left alone, a crash loop ended? | three releases, the last broken, the code's own cap of three boots, three kills, one install by hand: the cap is reached, with a kill in the rollback. |
| `daemon_socket` | Does a serving daemon keep its socket, one that answers have the lock; does a lost socket come back? | two processes, five socket files, three events: a bind that is late while another daemon starts fits. |
| `daemon_served` | Is there a daemon again after the watchdog gave up? Violated, see Findings. | one process, two events |
| `library_leftover` | Does the file of a deleted document leave? Violated, see Findings. | as above, two changes |

The types of the message store, the library sync, the updater, the socket and the
sessions are not among the properties of the runs: they are proved, for every
value of the constants (`TypeCorrect`, below).

Deadlock is not checked in the runs of the daemon (a pass of the library sync may
always begin, and there it is): the message store ends when all is acked, and the other
models stop at their bounds (claims, operations, restarts, runtimes, time).

**Fairness.** The safety properties need none. `AutoStart!FairSpec` assumes that
goroutines go on: the steps of a launch, of a goroutine that ends and of a lock
holder involve no wait but for locks and for terminal commands with a time limit of
five seconds (launches: three minutes). Strong fairness is used for steps that wait
for a mutex or choose among steps that alternate with others: Go's mutex hands over
to a waiter that has starved for a millisecond. `AUFairSpec` and `DSFairSpec` assume
that a process runs on and that the service manager starts one that has ended
(`KeepAlive` in the launchd plist, `Restart=always` in the systemd unit), and of the
watchdog only what its time limit gives: a bind that hangs is given up. `SSFairSpec`
assumes that an operation goes on, that minutes pass and the daemon is started
again, and, strongly, that the reset loop, which polls every minute, gets
`sessionMu`. `LockReleased` also takes for granted that `Close` gets past its joins
of runtimes and pollers (`stopAllTransientRuntimes`, `stopAllNotificationPollers`,
`daemon.go:529`), which are not in `DaemonSocket`: these wait for goroutines that
were cancelled, and one that waits for itself (finding 1) would hold it up. Nothing
is assumed of users, of the cloud, of agents, or of terminals.

## The proofs

`MessageStoreProofs` proves, for all sets of messages, holders, keys and
requests and every cap (`StoreAssumption`: local and cloud ids, sessions and
owners are disjoint, NULL is none of them):

- `TypeCorrect`, by the obvious induction;
- `RowsStayCoherent`: `TypeOK /\ RowsCoherent` is inductive; each method is
  one step and each kind of row it writes (`Cleared`, `Offered`, a claimed row)
  is coherent by itself;
- `LocalMessagesAreNeverLost` follows from coherence: a local row that is
  neither acked nor absent is unclaimed, or claimed with a lease;
- `SessionsHoldOneClaim`: inductive with the types; a claim is granted only when
  no other live claim of the session exists, a lease comes to life again only in
  `RenewCloudMessage`, which records the claim in `revived`;
- `SendsHappenOnce`: inductive with the types, which tie `origin` to keys;
- `RedeliveryStopsAtTheCap`: needs coherence, since only an acked row without a
  holder counts as stopped;
- `StoreKeepsPromise`: each transaction moves the places of a set of messages
  from one status to another (`OneRowMoves`, `StoreStepMoves`) and is a step of
  `Inbox` or a stutter.

`LibrarySyncProofs` proves, for any documents, names, siblings, revisions and
number of events (`LibrarySyncAssumption`: ids are numbers other than the
user's, `NoName` is no name):

- `TypeCorrect`: `Typed` says what a pass knows in each phase (what is written
  has a path and a revision, an old file is moved only under a placement, the
  journal holds exactly the write under way) and is inductive;
- `NoEditLost`: `EditsKept` is not inductive, for the rename and the removals
  overwrite files without a look. `KeptInTime` says that the edit in a file the
  pass has looked at, and is about to replace, is kept already if it is owed to
  the user. The looks establish it (a file that is not dirty is a projection,
  and a document without a placement gets a path that is free), a save in
  between does not break it since that edit is excepted, and `IInv`, the three
  together, is inductive;
- `NothingStray`: a projection lies where its placement says, or where the
  journal does (`Accounted`). Inside a write that does not do: the new file is
  there before its placement, and the old one until it is removed, so `Accounted`
  says where it may lie in each phase, and that the file of a removed document is
  gone when its record is dropped. A write starts from the placement in the
  database, if there is one, and ends with its own there (`FromPlacement`);
- `MirroredByTwo` follows the two passes. Every document has paths of its own, and
  those that one library allocates are apart (`OwnPaths`, `OwnApart`). In a pass
  that nothing comes between, the snapshot is the library and what is done is
  allocated (`CleanPass`); its end finds all documents allocated, and nothing
  else placed. From then on (`Settled`) a look finds a document on its path, or
  nothing there, so that nothing is moved or removed, and what is done stays up to
  date; the end of the second pass finds all of it up to date, and every pass
  after it writes what is there (`Repeats`).

`AutoProofs` proves, of the auto-update, for any releases, broken ones, cap and
bounds:

- `TypeCorrect`, with `JobHeld`: what an update in memory is at each place of the
  process that uses it (a rollback begins with the journal it has read);
- `EveryStartCounted`: the journal has counted a boot before it happens;
- `RollbackDurable`: at every place of a rollback the release is locked or its
  journal is still there, from `LockHeld` (what is recorded stays recorded);
- `NeverThrashes`: needs that the lock is on the release that failed last
  (`FailedLocked`), for it is the lock that keeps the worker away;

and of the auto-start, for any mentions, runtimes and time:

- `StartTypeCorrect`: who holds `busMu` is storing a mention or nudging. An ingest
  that returns makes its goroutine idle again, which must not be a goroutine that
  nudges: mentions are ingested one after the other (`OneIngested`), and the
  goroutine that ingests one does nothing else (`IngestedBy`);
- `MentionsLaunchOnce`, from `LaunchReserved`: a launch under way is the one that
  is reserved (`inFlight`), however long it takes.

`DaemonSocketProofs` proves, for any processes, socket files and number of
failures:

- `TypeCorrect` and `AnsweringIsLocked`, from `IInv`: `SlotsOK` says which files a
  process holds at each place, `DistinctOK` that no file is in two hands, `OpenOK`
  that just the files of processes that listen are open;
- `ServingSocketKept`: outside the window the property names, nobody takes the
  path of a file that listens. It needs `PathOK`: a file found stale stays stale,
  and the path never comes back to a file that lost it.

`SessionsProofs` proves, for any sessions, hosts, caps, days and number of
failures:

- `TypeCorrect` and `HandoffKept`, from `IInv`, which has a part for each thing an
  operation relies on. `PlaceOK` says which sessions it has in hand at each place;
  `MemoryOK` and `ParkedOK` that a record in memory was read of a session that
  ran, so that writing it back cannot forge a reset; `RecordsOK` that a session
  under replacement is dead and its log on disk; `DyingOK` and `LivingOK` what
  the record on disk says while the operation is at each place. `ResetHasHandoff`
  is not inductive without the memory: a nudge writes a whole record back, that it
  may have read before it gave `sessionMu` up.
- `FencedStay`: no step runs a dead or stale session again, from `LivingOK`
  (whoever writes "alive" has seen that the record runs), but a kill that fails
  (`Restored`) and the second nudge of a dispatch; and a dead one stays dead, but
  where the cloud refuses to take its claim back (`Marked`), which makes it stale.
- `PromptsAreWelcome`: `RememberedOK` says that a nudge's record in memory has the
  reset of the one on disk until it is written, and that the attempts are below
  the cap from the look at the queue on.

`CloudClaimsProofs` proves, for any sessions and any numbers of claims, operations
and crashes, on top of what is proved of the store:

- `ClaimsUseTheStore` and `ClaimsKeepPromise`: whatever the daemon does to the one
  message is a transaction of `MessageStore` or leaves it alone (`StoreStep`), so
  the claims of the cloud implement `Inbox` as well;
- `AcksAreAgreed`, `TerminalsDoNotRace`, `AcksPinTheirHolder`,
  `RenewsAreNotForeign` and `ClaimsAreNotForgotten`, from one invariant. What an
  action may do to the journal, to the cloud, to the metadata, to the done
  archive, to the calls, to the repair, to the poller and to the row is stated
  once for each (`JournalStep` to `RowStep`), by a look at all actions; the parts of
  `IInv` then follow without the actions. None of the five is inductive.
  `AckAgreed` needs that an ack which was carried out ended the claim in the cloud
  (`AppliedOK`) and that one in the done archive has reached the store (`DoneOK`);
  the other four need that, under a claim newer than the message's own, there are
  only declines and retried acks (`NewerOK`), that what may end the claim is of the
  message's claim (`EndingOK`), and what a repair still has to look at (`RepairOK`).
  Where an ack was retried under the claim of a duplicate lease, most of these
  fail, which is what the exceptions of the properties say.

`ListenHandlesProofs` proves, for any handles, bots, sessions, launches and restarts:

- `ListenTypeCorrect`: the marker of a handle is the number of its launches under
  way. It needs that these are finitely many (`MarkersFinite`), and that a step moves one
  launch over at most one edge of the phases (`LaunchSteps`);
- `ClaimsAndRuntimesExclude`, `ClaimsLeaveManaged`, `RuntimesAreReserved` and
  `StopsLast`, from `IInv`. `PhasesOK` says that a row is written late in a launch
  and a runtime tracked at its end, and that a launch past its reservation still
  has it.

`EnrollmentProofs` proves, for any enrollments, pairings, installs by hand and
number of failures, `EnrollTypeCorrect` and, from one invariant:

- `UsersInstallStays`: `OwedOK`, an install that is owed is set aside, whole, before
  anything is written over it or undone; a backup that was cut short owes nothing.
  An unpair that meets a pass owes nothing (`MeetingOK`: apart from that, what it
  has read of the journal is the journal);
- `DeadInstallsAreNoticed`: `JournalOK` says that the journal knows each credential
  that is or will be on disk, `UndoneOK` that what was undone is gone, and
  `InstalledOK` that what the server takes for installed is what lies there;
- `OrphansAreRecorded`: "some record is left" is not inductive, for the record that
  is left may be the next to go. `OrphanOK` names one that stays: the entry's own, or
  one that the unpairing of its daemon or the cleanup of its enrollment keeps;
- `UnchangedIsDone`: every row of the list behind the worker's ETag is out of date
  or still before the worker (`EtagOK`). Its other half is that the server's view
  of an enrollment only moves forward (`ServerSteps`).

The types need that the number of an enrollment's credentials stays within its
bound, and it does because every redemption after the first follows a failure
(`MintsOK`).

Two properties were wrong before they were proved, and right on the bounds of
their runs. A renew may also be left open by the ack of an older claim of the same
holder (`NoForeignRenew`), which takes three claims and three operations; and a
record may be confirmed away together with what an earlier try wrote
(`excused` in `AckClosed`), which takes two failures. Both are named below.

Every safety property of the passing runs is proved. Model-checked only is liveness
under fairness (`EveryMentionEnds`, `CrashLoopEnds`, `SocketBack`, `LockReleased`,
`ResetEnds`), which like ENABLED is out of the prover's reach, as are inductions
over data; no module that is proved about uses recursion.

## Findings

1. `auto_start_caller`: a runtime's own goroutine may wait for its own end. Its
   pane dies, the goroutine ingests a mention before the watcher cancels it, the
   auto-start finds the runtime inactive, forgets it and waits on `done`
   (`runtime_transient.go:670`), which only this goroutine closes. The profile's
   ingest lock is held meanwhile.
2. `daemon_served`: when the re-bind of a lost socket fails or takes too long, the
   watchdog cancels the daemon "so a fresh daemon can take over"
   (`daemon_socket_watchdog.go:250`). The daemon closes and unlocks, but the
   process waits for a signal of its own (`main.go:519`): the service manager sees
   it alive and starts none.
3. `library_leftover`: a document is deleted and another takes its name before
   the next pass. The other finds the path taken by the old file and goes to a
   sibling; the collision guard of `removeAbsentPlacements` counts the path as
   owned by it all the same, drops the record of the deleted document and leaves
   its file, for good.

More things the models show and name as exceptions of a property:

- Sessions: the second nudge of a dispatch (`daemon.go:6090`, `daemon.go:6026`)
  uses the record read before the first nudge gave `sessionMu` up. A session that
  was asked for its daily reset in between is typed to and its request is wiped; a
  bmux session that was stopped is launched again (`op.kind = "reuse"` in
  `PromptsWelcome` and `FencedStays`). After a rename, the reset finds the old
  session by its scope and misses it by its labels: it is asked again at every
  poll, with a new deadline each time, and cannot complete (`Renamed` in
  `ResetEnds`). A crash between the write of a stop or a reset and the kill leaves
  the agent running beside its replacement.
- Sessions: a session that was stopped or replaced is "dead", and becomes "stale"
  when the cloud refuses, for good, the release or the pending ack of the claim it
  holds (`markDeliverySessionRecordStaleLocked`, `repair.go:402`; `Marked` in
  `FencedStays`). It does not run again either way, but a later sweep takes it up
  once more, which it does with stale records and not with dead ones.
- AutoUpdate: a rollback locks the release and drops its journal before it installs
  the old one. If npm fails, or the process is killed before npm is done, nothing
  repeats the rollback: the release that cannot start stays on the disk and
  crashes at every restart, without a journal that would count. The comment at
  `auto_update_worker.go:35` promises that "each restart bumps the pre-start
  counter until the rollback fires, so a bad release self-heals without human
  intervention"; the one at `auto_update_worker.go:451`, that "the daemon stays on
  the bad binary but does not thrash", is about one that runs (`stranded` in
  `CrashLoopEnds`).
- DaemonSocket: a start that has compared the file on the path removes what has
  come to the path since (`InTheWindow`).
- CloudClaims: a repair in which the cloud refuses the ack of an abandoned claim
  keeps that session's pending renew, also when the ack is of an older claim than
  the renew (`NoForeignRenew`), and the stop of a session does not see an ack that
  was retried under the claim of a duplicate lease (`PendingAckPins`).
- Enrollment: the backup of an install by hand is written in place
  (`agent_enrollment_worker.go:693`). When the write fails half-way, or the daemon
  is killed in it, a piece of it stays; the next pass finds a backup and keeps it,
  overwrites the profile, and the install is lost. The comment above it says of an
  existing backup that "it always holds the oldest known-good install for the
  handle" (`agent_enrollment_worker.go:679`). An undoing then puts the piece back
  in its place (`BackupTears`, given up in `owed`).
- Enrollment: a pass that learns at its ack that the enrollment is closed undoes
  what it wrote without looking whose file lies there (`ackEnrollment`,
  `agent_enrollment_worker.go:1086`), so that an install made by hand between the
  write and the ack is removed; `processCleanup` does look. A `.enroll-backup` left
  by a lost answer, a crash or a cleanup that found somebody else's file is
  kept by the next enrollment (`backupProfileForEnrollment`) and may later be
  restored over a newer install. Both are why `owed` is given up for installs in
  the middle of a pass or over an unresolved backup.
- Enrollment: the backup may hold the credential of another enrollment, which is
  restored without a look at whether it is still alive; the reconciler then takes
  the dead profile for an install (`excused` in `NoDeadInstall`).
- Enrollment: a retry that fails before it writes has nothing to undo. If the
  enrollment is closed meanwhile, it confirms the cleanup and drops the journal's
  record all the same (`agent_enrollment_worker.go:1088`), also when a try before
  it wrote the profile or the registry entry and was killed: nobody removes
  these any more (`excused` in `AckClosed`).
- Enrollment: the worker and `comment bus unpair` share no lock. When they meet in
  the middle of an enrollment, both may restore, one may write what the other has
  cleaned up, and the journal's entry of one may be lost (`Meets`).
- Enrollment: entries kept by an unpair whose cleanup failed carry the id of a
  daemon that is gone. The message says "kept in the journal for a later retry",
  but a later unpair has another id and skips them; they only go when the agent is
  enrolled anew. An unpair whose revocation was not confirmed leaves dead profiles
  by design; the journal heals them when the computer is paired again.
- In the library sync, an edit saved between the look at a file and the rename
  over it is lost (`EditsKept` excepts it), and one pass may remove a file it has
  just written, which the next pass writes again (`MirroredAfterTwo` therefore
  asks for two).

## Not modelled, and the plan

Not modelled: wording and formatting, authorization of requests, the socket
protocol, commands to tmux, bmux, npm and service managers, one-shot commands of
the command line. Left out of the components that are modelled in part:

- Sessions: capability and runtime files, the state of an agent's screen beyond
  "busy", nudges of local messages (which are exempt from the back-off), the
  message queue beyond its head; the deadlines of several resets are one
  (`overdue`). A kill fails as a whole.
- DaemonSocket: the pid file, TCP, what runs between the lock and the bind, an
  initialisation that succeeds late, and the joins of `Close` (see Fairness). The
  listen, chmod and Lstat of a bind are one step: it makes the socket, fails, or
  leaves a file behind.
- AutoUpdate: failing writes of the two small files, whose errors the code passes
  over (`auto_update_worker.go:357`, `:382`), foreground daemons, and the
  checks of an upgrade by hand.
- Enrollment: one agent, whose enrollments differ in nothing but their daemon;
  the device code of a pairing and its resume, the provisioning of the sync
  credential, failures of the poll itself (they change nothing but its pace).
  That an enrollment settles under fairness is not checked, for the graph is
  too large; `UnchangedMeansDone` is the safety that it rests on.
- ListenHandles: pull waiters, runtimes of the task role, the shutdown.

Planned, in this order:

1. The live connection of the library sync, whose cursor must not pass work
   that is not done.
2. Team resync and runtime requests: more at-least-once work items of the cloud
   brought into local files.
3. Pull waiters and re-wakes, and shutdown, added to `ListenHandles`.
