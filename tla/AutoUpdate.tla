----------------------------- MODULE AutoUpdate -----------------------------
(***************************************************************************)
(* The daemon's auto-updater (cmd/comment/auto_update_worker.go): a worker *)
(* that installs a newer release and restarts the service onto it, and the *)
(* two reconciliations of its journal around StartDaemon, which commit the *)
(* release or roll it back.  The process is the service's: it runs what    *)
(* npm put on disk, may be killed between any two writes, and is started   *)
(* again by the service manager for as long as the service is started.     *)
(***************************************************************************)
EXTENDS Naturals

CONSTANTS
    MaxVersion,     \* releases are numbered 1..MaxVersion
    Broken,         \* releases whose StartDaemon never succeeds
    Cap,            \* autoUpdateMaxAttempts
    None,
    MaxKills,       \* bound: the process is killed, or the user stops it
    MaxUpgrades     \* bound: `comment upgrade` or npm run by the user

Versions == 1 .. MaxVersion

ASSUME VersionAssumption == MaxVersion \in Nat /\ Broken \subseteq Versions
ASSUME CapAssumption == Cap \in Nat \ {0}
ASSUME NoneAssumption == None \notin Versions
ASSUME BoundAssumption == MaxKills \in Nat /\ MaxUpgrades \in Nat

VARIABLES
    disk,       \* the release npm has installed
    service,    \* does the service manager keep the daemon running?
    pc,         \* where the daemon process is, "down" when there is none
    run,        \* the release the process was started from
    job,        \* the update a rollback or the worker carries in memory
    back,       \* where a rollback that could not restart goes on
    journal,    \* pending-update.json, None when it is absent
    locked,     \* last_rolled_back_version, while the result is rolled_back
    tries,      \* history: starts of the journaled release, counted to Cap
    failed,     \* history: the release whose journal was removed as failed
    stranded,   \* history: the release whose rollback ended without its journal
                \* and without the old release
    kills, upgrades

files == <<disk, journal, locked>>
history == <<tries, failed, stranded, kills, upgrades>>
vars == <<files, service, pc, run, job, back, history>>

NoUpdate == [from |-> None, to |-> None, attempts |-> 0]
Update == [from : Versions, to : Versions, attempts : 0 .. Cap]

Serving == {"idle", "npmNew", "busNew"}
RollingBack == {"record", "delete", "npm", "bus"}
Places == {"down", "pre", "giveUp", "forget", "starting", "post", "commit"}
            \union Serving \union RollingBack

AUTypeOK ==
    /\ disk \in Versions
    /\ service \in {"up", "stopped"}
    /\ pc \in Places
    /\ run \in Versions
    /\ job \in Update \union {NoUpdate}
    /\ back \in {"starting", "idle"}
    /\ journal \in Update \union {NoUpdate}
    /\ locked \in Versions \union {None}
    /\ tries \in 0 .. Cap
    /\ failed \in Versions \union {None}
    /\ stranded \in Versions \union {None}
    /\ kills \in 0 .. MaxKills
    /\ upgrades \in 0 .. MaxUpgrades

AUInit ==
    /\ disk \in Versions \ Broken
    /\ service = "up"
    /\ pc = "down"
    /\ run = disk
    /\ job = NoUpdate
    /\ back = "idle"
    /\ journal = NoUpdate
    /\ locked = None
    /\ tries = 0
    /\ failed = None
    /\ stranded = None
    /\ kills = 0
    /\ upgrades = 0

-----------------------------------------------------------------------------
(* Start-up: the service manager starts what is on disk.                    *)

Pending == journal # NoUpdate
Applied == Pending /\ run = journal.to

Boot ==
    /\ service = "up"
    /\ pc = "down"
    /\ pc' = "pre"
    /\ run' = disk
    /\ UNCHANGED <<files, service, job, back, history>>

\* Mutant: the count is kept in memory only.
CountInMemory ==
    /\ pc = "pre"
    /\ Pending => journal.attempts + 1 < Cap
    /\ pc' = "starting"
    /\ tries' = IF Applied /\ tries < Cap THEN tries + 1 ELSE tries
    /\ UNCHANGED <<files, service, run, job, back, failed, stranded,
                   kills, upgrades>>

\* reconcileAutoUpdatePreStart, below the cap: the attempt is on disk before
\* StartDaemon runs.
CountAttempt ==
    /\ pc = "pre"
    /\ Pending => journal.attempts + 1 < Cap
    /\ journal' = IF Pending
                  THEN [journal EXCEPT !.attempts = @ + 1] ELSE journal
    /\ pc' = "starting"
    /\ tries' = IF Applied /\ tries < Cap THEN tries + 1 ELSE tries
    /\ UNCHANGED <<disk, locked, service, run, job, back, failed,
                   stranded, kills, upgrades>>

\* At the cap: the new release is rolled back, one that was never applied is
\* given up.
ReachCap ==
    /\ pc = "pre"
    /\ Pending
    /\ journal.attempts + 1 >= Cap
    /\ job' = journal
    /\ back' = "starting"
    /\ pc' = IF Applied THEN "record" ELSE "giveUp"
    /\ UNCHANGED <<files, service, run, history>>

\* Mutant: what was given up is not locked out.
GiveUpUnlocked ==
    /\ pc = "giveUp"
    /\ pc' = "forget"
    /\ UNCHANGED <<files, service, run, job, back, history>>

GiveUp ==
    /\ pc = "giveUp"
    /\ locked' = job.to
    /\ pc' = "forget"
    /\ failed' = IF failed = job.to THEN failed ELSE None
    /\ UNCHANGED <<disk, journal, service, run, job, back, tries,
                   stranded, kills, upgrades>>

Forget ==
    /\ pc = "forget"
    /\ journal' = NoUpdate
    /\ pc' = "starting"
    /\ failed' = job.to
    /\ UNCHANGED <<disk, locked, service, run, job, back, tries,
                   stranded, kills, upgrades>>

StartDaemon ==
    /\ pc = "starting"
    /\ run \notin Broken
    /\ pc' = "post"
    /\ UNCHANGED <<files, service, run, job, back, history>>

StartFails ==
    /\ pc = "starting"
    /\ run \in Broken
    /\ pc' = "down"
    /\ UNCHANGED <<files, service, run, job, back, history>>

-----------------------------------------------------------------------------
(* reconcileAutoUpdatePostStart: commit or roll back.                       *)

NothingToCommit ==
    /\ pc = "post"
    /\ ~Applied
    /\ pc' = "idle"
    /\ UNCHANGED <<files, service, run, job, back, history>>

Healthy ==
    /\ pc = "post"
    /\ Applied
    /\ journal' = NoUpdate
    /\ pc' = "commit"
    /\ UNCHANGED <<disk, locked, service, run, job, back, history>>

\* recordAutoUpdateResult: a success lifts the lock.
Commit ==
    /\ pc = "commit"
    /\ locked' = None
    /\ failed' = None
    /\ pc' = "idle"
    /\ UNCHANGED <<disk, journal, service, run, job, back, tries,
                   stranded, kills, upgrades>>

Unhealthy ==
    /\ pc = "post"
    /\ Applied
    /\ job' = journal
    /\ back' = "idle"
    /\ pc' = "record"
    /\ UNCHANGED <<files, service, run, history>>

\* Mutant: the lock is left to the restarted release.
RecordLater ==
    /\ pc = "record"
    /\ pc' = "delete"
    /\ UNCHANGED <<files, service, run, job, back, history>>

\* rollbackAutoUpdate: the lock, the journal, the old release, the restart.
RecordRolledBack ==
    /\ pc = "record"
    /\ locked' = job.to
    /\ pc' = "delete"
    /\ failed' = IF failed = job.to THEN failed ELSE None
    /\ UNCHANGED <<disk, journal, service, run, job, back, tries,
                   stranded, kills, upgrades>>

\* From here until the old release is installed nothing on disk leads back to
\* it: the journal is gone.
DeleteJournal ==
    /\ pc = "delete"
    /\ journal' = NoUpdate
    /\ pc' = "npm"
    /\ failed' = job.to
    /\ UNCHANGED <<disk, locked, service, run, job, back, tries,
                   stranded, kills, upgrades>>

InstallOld ==
    /\ pc = "npm"
    /\ disk' = job.from
    /\ pc' = "bus"
    /\ UNCHANGED <<journal, locked, service, run, job, back, history>>

InstallOldFails ==
    /\ pc = "npm"
    /\ pc' = back
    /\ stranded' = job.to
    /\ UNCHANGED <<files, service, run, job, back, tries, failed, kills,
                   upgrades>>

-----------------------------------------------------------------------------
(* One tick of the worker, runAutoUpdateWorkerOnce and performAutoUpdate.   *)

Outdated(current, target) == current < target

Target(latest, minimum) ==
    IF Outdated(latest, minimum) THEN minimum ELSE latest

Tick(latest, minimum) ==
    LET target == Target(latest, minimum)
        update == [from |-> run, to |-> target, attempts |-> 0]
    IN  /\ pc = "idle"
        /\ Outdated(run, target)
        /\ locked # target
        /\ journal' = update
        /\ job' = update
        /\ tries' = 0
        /\ stranded' = None
        /\ pc' = "npmNew"
        /\ UNCHANGED <<disk, locked, service, run, back, failed,
                       kills, upgrades>>

InstallNew ==
    /\ pc = "npmNew"
    /\ disk' = job.to
    /\ pc' = "busNew"
    /\ UNCHANGED <<journal, locked, service, run, job, back, history>>

InstallNewFails ==
    /\ pc = "npmNew"
    /\ pc' = "idle"
    /\ UNCHANGED <<files, service, run, job, back, history>>

\* busInstall fails before it stops the service: the process goes on.
RestartFails ==
    /\ pc \in {"bus", "busNew"}
    /\ pc' = IF pc = "bus" THEN back ELSE "idle"
    /\ UNCHANGED <<files, service, run, job, back, history>>

\* busInstall stops the service the process belongs to, which ends the process:
\* before the commands that start the service again under systemd, where they
\* would be its children, before or after them under launchd.
Restarts ==
    /\ pc \in {"bus", "busNew"}
    /\ pc' = "down"
    /\ service' \in {"up", "stopped"}
    /\ UNCHANGED <<files, run, job, back, history>>

-----------------------------------------------------------------------------
(* The world: kills, the user, logins.                                      *)

\* The process ends where it is.
Ends ==
    /\ pc' = "down"
    /\ stranded' = IF pc = "npm" THEN job.to ELSE stranded

Killed ==
    /\ pc # "down"
    /\ kills < MaxKills
    /\ kills' = kills + 1
    /\ Ends
    /\ UNCHANGED <<files, service, run, job, back, tries, failed,
                   upgrades>>

UserStops ==
    /\ service = "up"
    /\ kills < MaxKills
    /\ kills' = kills + 1
    /\ service' = "stopped"
    /\ Ends
    /\ UNCHANGED <<files, run, job, back, tries, failed, upgrades>>

\* `comment bus start`, or the next login.
ServiceStarts ==
    /\ service = "stopped"
    /\ service' = "up"
    /\ UNCHANGED <<files, pc, run, job, back, history>>

\* `comment upgrade`: another release is put on disk,
UserInstalls(version) ==
    /\ upgrades < MaxUpgrades
    /\ upgrades' = upgrades + 1
    /\ disk' = version
    /\ UNCHANGED <<journal, locked, service, pc, run, job, back, tries, failed,
                   stranded, kills>>

\* and the service is stopped and started from outside of it.
UserReinstalls ==
    /\ upgrades > 0
    /\ pc # "down"
    /\ kills < MaxKills
    /\ kills' = kills + 1
    /\ Ends
    /\ service' = "up"
    /\ UNCHANGED <<files, run, job, back, tries, failed, upgrades>>

Reconciles ==
    \/ CountAttempt \/ ReachCap \/ GiveUp \/ Forget
    \/ StartDaemon \/ StartFails
    \/ NothingToCommit \/ Healthy \/ Commit \/ Unhealthy
    \/ RecordRolledBack \/ DeleteJournal \/ InstallOld \/ InstallOldFails

Works ==
    \/ \E latest, minimum \in Versions : Tick(latest, minimum)
    \/ InstallNew \/ InstallNewFails \/ RestartFails \/ Restarts

World ==
    \/ Killed \/ UserStops \/ ServiceStarts \/ UserReinstalls
    \/ \E version \in Versions : UserInstalls(version)

AUNext == Boot \/ Reconciles \/ Works \/ World

AUSpec == AUInit /\ [][AUNext]_vars

\* The service manager restarts a process that ended, and a process runs.
AUFairSpec == AUSpec /\ WF_vars(Boot) /\ WF_vars(Reconciles)

-----------------------------------------------------------------------------
(* Properties.                                                              *)

\* No start of a new release is forgotten: whatever kills the process in
\* StartDaemon, the journal has counted the start before (the comment in
\* reconcileAutoUpdatePreStart, "Persist the attempt BEFORE StartDaemon").
StartsAreCounted == Pending => tries <= journal.attempts /\ tries < Cap

\* A release whose journal a rollback removed is not tried again until another
\* one has failed or has been committed, wherever that rollback was
\* interrupted ("preventing upgrade/rollback thrash on a still-`latest` bad
\* release").
NoThrash == pc \in {"npmNew", "busNew"} => job.to # failed

\* While a rollback is on its way to the old release, one of its two records
\* is on disk: a kill in between leaves the journal that repeats it, or the
\* lock that keeps the worker off the release.
RollbackRecorded ==
    pc \in RollingBack => locked = job.to \/ journal = job

\* A release that cannot start is taken off the disk again: its crash loop ends
\* with another release installed, unless the user stops the service ("each
\* restart bumps the pre-start counter until the rollback fires, so a bad
\* release self-heals without human intervention").  The exception: a rollback
\* whose npm fails, or that is killed between the removal of the journal and
\* the end of npm, is not repeated, and the release goes on crashing for good.
CrashLoopEnds ==
    \A v \in Broken :
        (pc = "pre" /\ run = v /\ Applied)
            ~> (disk # v \/ service = "stopped" \/ stranded = v)
=============================================================================
