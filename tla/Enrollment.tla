----------------------------- MODULE Enrollment -----------------------------
(***************************************************************************)
(* How the credential of one agent comes to this computer and leaves it:   *)
(* the daemon's enrollment worker (agent_enrollment_worker.go) with its    *)
(* journal (agent_enroll_journal.go), `comment bus pair` and `comment bus  *)
(* unpair` (bus_pair.go).  The worker redeems an enrollment, writes the    *)
(* profile over what is there, checks the credential and acknowledges; an  *)
(* enrollment that was closed meanwhile is undone.  The server may close   *)
(* enrollments and revoke daemons at any moment, a user may install the    *)
(* agent by hand, answers are lost, the daemon and the commands may die.   *)
(***************************************************************************)
EXTENDS Naturals, FiniteSets

CONSTANTS
    None,
    MaxEnrollments,     \* bound: enrollments the server creates
    MaxPairings,        \* bound: pairings, each with a new daemon id
    MaxInstalls,        \* bound: installs by hand
    MaxFaults           \* bound: failures, lost answers and kills

ASSUME EnrollmentAssumption ==
    {MaxEnrollments, MaxPairings, MaxInstalls, MaxFaults} \subseteq Nat

VARIABLES
    bot,        \* is the agent a Botlets bot, with an entry in the registry?
    srv,        \* external: what the server has on each enrollment
    revoked,    \* external: daemons that were revoked, their credentials with them
    auth,       \* daemon-auth.json: the paired daemon
    profile,    \* agents/<handle>.json: the credential in it
    backup,     \* its .enroll-backup
    registry,   \* who wrote the entry of the handle in registry.json
    journal,    \* enroll-journal.json
    w,          \* the worker and its memory
    u,          \* a `comment bus unpair` and its memory
    owed,       \* history: the install by hand that must not be lost
    excused,    \* history: whose credential or entry may stay behind
    paired, installs, faults

cloud == <<srv, revoked>>
files == <<auth, profile, backup, registry, journal>>
history == <<owed, excused>>
counts == <<paired, installs, faults>>
vars == <<bot, cloud, files, w, u, history, counts>>

Enrollments == 1 .. MaxEnrollments
Daemons == 1 .. MaxPairings
User == 0

\* Every credential is a new one: the n-th of an enrollment, or of the user.
Credential(of, n) == [of |-> of, n |-> n]
Mints == 1 .. MaxFaults + 1

\* A file that was cut short holds nobody's secret; like an install by hand, it
\* is no enrollment's.
Torn == Credential(User, 0)

Credentials == [of : Enrollments, n : Mints]
                  \union [of : {User}, n : 0 .. MaxInstalls]
ASSUME NoneAssumption == None \notin Nat \union Credentials

Open == {"pending", "redeemed"}
NoEntry == [daemon |-> None, wrote |-> {}, prev |-> None]
Journaled == {e \in Enrollments : journal[e] # NoEntry}

Rested == [pc |-> "idle", daemon |-> None, items |-> {}, cleanups |-> {},
           e |-> None, n |-> 0, prev |-> None, ack |-> None, undo |-> FALSE,
           retry |-> FALSE, etag |-> {}, waiting |-> {}]

NoUnpair == [pc |-> "none", daemon |-> None, read |-> [e \in Enrollments |-> NoEntry],
             cleaned |-> {}, failed |-> {}]

Places == {"idle", "next", "prepare", "journal", "write", "verify", "ack",
           "discard", "undo", "removeEntry", "restoreEntry", "confirm", "forget"}

EnTypeOK ==
    /\ bot \in BOOLEAN
    /\ srv \in [Enrollments -> [state : Open \union {"none", "installed", "closed", "gone"},
                                daemon : Daemons \union {None},
                                minted : {0} \union Mints]]
    /\ revoked \subseteq 1 .. paired
    /\ auth \in Daemons \union {None}
    /\ {profile, backup} \subseteq Credentials \union {None}
    /\ registry \in Enrollments \union {User, None}
    /\ ~bot => registry = None
    /\ \A e \in Enrollments :
          /\ journal[e].daemon \in {srv[e].daemon, None}
          /\ journal[e].wrote \subseteq 1 .. srv[e].minted
          /\ journal[e].prev \in Enrollments \union {User, None}
    /\ w.pc \in Places
    /\ w.items \union w.cleanups \union w.waiting \subseteq Enrollments
    /\ w.pc \notin {"idle", "next"} => w.e \in Enrollments
    /\ w.pc \in {"prepare", "journal", "write", "verify", "ack"} =>
          w.n \in 1 .. srv[w.e].minted
    /\ u.pc \in {"none", "revoke", "load", "clean", "forget"}
    /\ owed \in 0 .. MaxInstalls
    /\ excused \subseteq Enrollments \union {User}
    /\ paired \in 0 .. MaxPairings
    /\ installs \in 0 .. MaxInstalls
    /\ faults \in 0 .. MaxFaults

EnInit ==
    /\ bot \in BOOLEAN
    /\ srv = [e \in Enrollments |-> [state |-> "none", daemon |-> None, minted |-> 0]]
    /\ revoked = {}
    /\ auth = None
    /\ profile = None
    /\ backup = None
    /\ registry = None
    /\ journal = [e \in Enrollments |-> NoEntry]
    /\ w = Rested
    /\ u = NoUnpair
    /\ owed = 0
    /\ excused = {}
    /\ paired = 0
    /\ installs = 0
    /\ faults = 0

Fault == faults < MaxFaults /\ faults' = faults + 1 /\ UNCHANGED <<paired, installs>>

\* What GET /agents/me says of a credential.
Alive(credential) ==
    \/ credential.of = User
    \/ LET s == srv[credential.of]
       IN  s.state \in {"redeemed", "installed"} /\ s.minted = credential.n
              /\ s.daemon \notin revoked

\* The server answers a daemon's calls until it is revoked; it lists what is
\* open, and what was closed after it was redeemed until the cleanup is confirmed.
Listed(daemon) == {e \in Enrollments : srv[e].daemon = daemon /\ daemon \notin revoked
                                          /\ srv[e].state \in Open \union {"closed"}}
Fingerprint(daemon) == {<<e, srv[e].state, srv[e].minted>> : e \in Listed(daemon)}

\* The worker and `comment bus unpair` share no lock.  When they meet in the
\* middle of an enrollment, nothing is claimed of what is on disk.
UnpairCleansUp == u.pc \in {"load", "clean"}
Meets(met) ==
    /\ owed' = IF met THEN 0 ELSE owed
    /\ excused' = IF met THEN Enrollments \union {User} ELSE excused

-----------------------------------------------------------------------------
(* The journal.                                                             *)

\* Mutant: the credential is filed under the daemon that is paired now.
RecordsPaired(e) ==
    [daemon |-> auth, wrote |-> journal[e].wrote \union {w.n},
     prev |-> IF w.prev = None THEN journal[e].prev ELSE w.prev]

\* enrollJournalRecord: earlier credentials of the enrollment stay attributed,
\* and the first snapshot of the registry is kept.
Recorded(e) ==
    [daemon |-> w.daemon, wrote |-> journal[e].wrote \union {w.n},
     prev |-> IF w.prev = None THEN journal[e].prev ELSE w.prev]

\* enrollJournalProfileSecretMatches
Matches(entry, e) ==
    profile # None /\ profile.of = e /\ profile.n \in entry.wrote

\* existingProfileIsEnrollmentOwned
Owned(e) == e \in Journaled /\ Matches(journal[e], e)

\* enrollJournalEntryOwnsProfile: a file that is missing is nobody else's.
Owns(e) == e \in Journaled /\ (profile = None \/ Matches(journal[e], e))

-----------------------------------------------------------------------------
(* A pass of the worker: runOnce.                                           *)

WorkerOnly == UNCHANGED <<bot, cloud, files, u, history, counts>>

MovesOn(retry) ==
    w' = [w EXCEPT !.pc = "next", !.e = None, !.n = 0, !.prev = None,
                   !.ack = None, !.undo = FALSE, !.retry = @ \/ retry]

\* The first failure of an enrollment is tried again at once, later ones wait.
MayWait(e) == {w.waiting, w.waiting \union {e}}

Failed ==
    \E waiting \in MayWait(w.e) :
        w' = [w EXCEPT !.pc = "next", !.e = None, !.n = 0, !.prev = None,
                       !.ack = None, !.undo = FALSE, !.retry = TRUE,
                       !.waiting = waiting]

\* An unchanged list is answered 304.
Lists ==
    /\ w.pc = "idle"
    /\ auth # None
    /\ auth \notin revoked
    /\ w.etag # {Fingerprint(auth)}
    /\ w' = [w EXCEPT !.pc = "next", !.daemon = auth,
                      !.items = {e \in Listed(auth) : srv[e].state \in Open},
                      !.cleanups = {e \in Listed(auth) : srv[e].state = "closed"},
                      !.retry = FALSE, !.etag = {Fingerprint(auth)},
                      !.waiting = @ \intersect Listed(auth)]
    /\ WorkerOnly

\* Unpaired, or the token is refused: the worker starts afresh when that ends.
Parks ==
    /\ w.pc = "idle"
    /\ auth = None \/ auth \in revoked
    /\ w # Rested
    /\ w' = Rested
    /\ WorkerOnly

Defers(e) ==
    /\ w.pc = "next"
    /\ e \in w.items \intersect w.waiting
    /\ w' = [w EXCEPT !.items = @ \ {e}, !.retry = TRUE]
    /\ WorkerOnly

WindowElapses(e) ==
    /\ e \in w.waiting
    /\ w' = [w EXCEPT !.waiting = @ \ {e}]
    /\ WorkerOnly

\* Mutant: the etag is kept although an enrollment failed.
EndsPassWithEtag ==
    /\ w.pc = "next"
    /\ w.items = {}
    /\ w.cleanups = {}
    /\ w' = [w EXCEPT !.pc = "idle", !.daemon = None, !.retry = FALSE]
    /\ WorkerOnly

EndsPass ==
    /\ w.pc = "next"
    /\ w.items = {}
    /\ w.cleanups = {}
    /\ w' = [w EXCEPT !.pc = "idle", !.daemon = None, !.retry = FALSE,
                      !.etag = IF w.retry THEN {} ELSE @]
    /\ WorkerOnly

-----------------------------------------------------------------------------
(* processEnrollment: redeem, install, verify, acknowledge.                 *)

\* Redeeming again revokes the credential before.
Redeemable(e) == w.daemon \notin revoked /\ srv[e].state \in Open
Redeemed(e) == [srv EXCEPT ![e].state = "redeemed", ![e].minted = @ + 1]

Takes(e) == w.pc = "next" /\ e \in w.items \ w.waiting

Redeems(e) ==
    /\ Takes(e)
    /\ Redeemable(e)
    /\ srv' = Redeemed(e)
    /\ w' = [w EXCEPT !.pc = "prepare", !.items = @ \ {e}, !.e = e,
                      !.n = srv[e].minted + 1]
    /\ Meets(UnpairCleansUp)
    /\ UNCHANGED <<bot, revoked, files, u, counts>>

RedeemFails(e) ==
    /\ Takes(e)
    /\ \/ ~Redeemable(e) /\ UNCHANGED <<srv, counts>>
       \/ Redeemable(e) /\ Fault /\ srv' \in {srv, Redeemed(e)}
    /\ \E waiting \in MayWait(e) :
           w' = [w EXCEPT !.items = @ \ {e}, !.retry = TRUE, !.waiting = waiting]
    /\ UNCHANGED <<bot, revoked, files, u, history>>

Preexists == profile # None /\ ~Owned(w.e)

Reports(outcome, undo) == w' = [w EXCEPT !.pc = "ack", !.ack = outcome, !.undo = undo]

\* Mutant: the backup is taken again on every pass.
BacksUpAgain ==
    /\ w.pc = "prepare"
    /\ backup' = IF profile # None THEN profile ELSE backup
    /\ w' = [w EXCEPT !.pc = "journal",
                      !.prev = IF bot /\ Preexists THEN registry ELSE None]
    /\ UNCHANGED <<bot, cloud, auth, profile, registry, journal, u, history, counts>>

\* backupProfileForEnrollment: what is there is kept aside, unless this
\* enrollment wrote it or a backup is there already, whole or not.
BacksUp ==
    /\ w.pc = "prepare"
    /\ backup' = IF Preexists /\ backup = None THEN profile ELSE backup
    /\ excused' = IF Preexists /\ backup = None /\ profile.of # User
                  THEN excused \union {profile.of} ELSE excused
    /\ w' = [w EXCEPT !.pc = "journal",
                      !.prev = IF bot /\ Preexists THEN registry ELSE None]
    /\ UNCHANGED <<bot, cloud, auth, profile, registry, journal, u, owed, counts>>

\* The backup is written in place: an error or a kill in the middle leaves it
\* cut short, and the next pass keeps what it finds.
BackupTears ==
    /\ w.pc = "prepare"
    /\ Preexists
    /\ backup = None
    /\ backup' = Torn
    /\ owed' = 0

PrepareFails ==
    /\ w.pc = "prepare"
    /\ Fault
    /\ \/ Reports("failed", FALSE) /\ (BackupTears \/ UNCHANGED <<backup, owed>>)
       \/ ~bot /\ Reports("invalid", FALSE) /\ UNCHANGED <<backup, owed>>
    /\ UNCHANGED <<bot, cloud, auth, profile, registry, journal, u, excused>>

Journals ==
    /\ w.pc = "journal"
    /\ journal' = [journal EXCEPT ![w.e] = Recorded(w.e)]
    /\ w' = [w EXCEPT !.pc = "write"]
    /\ UNCHANGED <<bot, cloud, auth, profile, backup, registry, u, history, counts>>

\* Best effort: the install goes on.
JournalFails ==
    /\ w.pc = "journal"
    /\ Fault
    /\ w' = [w EXCEPT !.pc = "write"]
    /\ excused' = excused \union {w.e}
    /\ UNCHANGED <<bot, cloud, files, u, owed>>

\* A bot's entry and profile are written under the lock of the registry.
Writes ==
    /\ w.pc = "write"
    /\ profile' = Credential(w.e, w.n)
    /\ registry' = IF bot THEN w.e ELSE registry
    /\ w' = [w EXCEPT !.pc = "verify"]
    /\ UNCHANGED <<bot, cloud, auth, backup, journal, u, history, counts>>

WriteFails ==
    /\ w.pc = "write"
    /\ Fault
    /\ Reports("failed", bot => profile # None)
    /\ UNCHANGED <<bot, cloud, files, u, history>>

Verifies ==
    /\ w.pc = "verify"
    /\ Alive(Credential(w.e, w.n))
    /\ Reports("installed", TRUE)
    /\ WorkerOnly

\* The credential is refused: no acknowledgement, it is redeemed again.
VerifyRefused ==
    /\ w.pc = "verify"
    /\ ~Alive(Credential(w.e, w.n))
    /\ Failed
    /\ WorkerOnly

\* The reload failed, or the server has no answer.
VerifyFails ==
    /\ w.pc = "verify"
    /\ Fault
    /\ Reports("failed", TRUE)
    /\ UNCHANGED <<bot, cloud, files, u, history>>

\* The server's part in POST .../ack.
Acknowledged ==
    /\ w.daemon \notin revoked
    /\ srv[w.e].state = "redeemed"
    /\ srv' = CASE w.ack = "installed" -> [srv EXCEPT ![w.e].state = "installed"]
                [] w.ack = "invalid" -> [srv EXCEPT ![w.e].state = "closed"]
                [] w.ack = "failed" -> srv
    /\ owed' = IF w.ack = "installed" THEN 0 ELSE owed

AckAccepted ==
    /\ w.pc = "ack"
    /\ Acknowledged
    /\ CASE w.ack = "installed" -> w' = [w EXCEPT !.pc = "discard"]
         [] w.ack = "invalid" -> MovesOn(FALSE)
         [] w.ack = "failed" -> Failed
    /\ UNCHANGED <<bot, revoked, files, u, excused, counts>>

AckFails ==
    /\ w.pc = "ack"
    /\ \/ Fault /\ (Acknowledged \/ UNCHANGED <<srv, owed>>)
       \/ w.daemon \in revoked /\ UNCHANGED <<srv, owed, counts>>
    /\ Failed
    /\ UNCHANGED <<bot, revoked, files, u, excused>>

\* ENROLLMENT_CANCELLED, _EXPIRED or _FAILED.  A try that failed before it wrote
\* has nothing to undo, and confirms away what an earlier one may have written.
AckClosed ==
    /\ w.pc = "ack"
    /\ w.daemon \notin revoked
    /\ srv[w.e].state = "closed"
    /\ w' = [w EXCEPT !.pc = IF w.undo THEN "undo" ELSE "confirm", !.retry = TRUE]
    /\ excused' = excused \union (IF w.undo THEN {} ELSE {w.e} \intersect Journaled)
    /\ UNCHANGED <<bot, cloud, files, u, owed, counts>>

Discards ==
    /\ w.pc = "discard"
    /\ backup' = None
    /\ MovesOn(FALSE)
    /\ UNCHANGED <<bot, cloud, auth, profile, registry, journal, u, history, counts>>

-----------------------------------------------------------------------------
(* Undoing an enrollment: processCleanup, cleanupClosedEnrollment.          *)

\* Without evidence that the file is the enrollment's, nothing is touched.
CleanupLooks(e) ==
    /\ w.pc = "next"
    /\ w.items = {}
    /\ e \in w.cleanups
    /\ w' = [w EXCEPT !.pc = IF Owns(e) THEN "undo" ELSE "confirm",
                      !.cleanups = @ \ {e}, !.e = e]
    /\ Meets(UnpairCleansUp)
    /\ UNCHANGED <<bot, cloud, files, u, counts>>

\* The journal or the profile cannot be read.
CleanupUnclear(e) ==
    /\ w.pc = "next"
    /\ w.items = {}
    /\ e \in w.cleanups
    /\ Fault
    /\ w' = [w EXCEPT !.cleanups = @ \ {e}, !.retry = TRUE]
    /\ UNCHANGED <<bot, cloud, files, u, history>>

\* restoreOrRemoveEnrollProfile
RestoresOrRemoves ==
    /\ profile' = backup
    /\ backup' = None

Undoes ==
    /\ w.pc = "undo"
    /\ RestoresOrRemoves
    /\ w' = [w EXCEPT !.pc = IF ~bot THEN "confirm"
                             ELSE IF backup = None THEN "removeEntry"
                             ELSE "restoreEntry"]
    /\ UNCHANGED <<bot, cloud, auth, registry, journal, u, history, counts>>

UndoFails ==
    /\ w.pc \in {"undo", "removeEntry"}
    /\ Fault
    /\ MovesOn(TRUE)
    /\ UNCHANGED <<bot, cloud, files, u, history>>

RemovesEntry ==
    /\ w.pc = "removeEntry"
    /\ registry' = None
    /\ w' = [w EXCEPT !.pc = "confirm"]
    /\ UNCHANGED <<bot, cloud, auth, profile, backup, journal, u, history, counts>>

\* Best effort: the backup is used up, a second try would remove the install.
RestoresEntry ==
    /\ w.pc = "restoreEntry"
    /\ \/ registry' = (IF journal[w.e].prev = None THEN registry
                       ELSE journal[w.e].prev) /\ UNCHANGED counts
       \/ Fault /\ UNCHANGED registry
    /\ w' = [w EXCEPT !.pc = "confirm"]
    /\ UNCHANGED <<bot, cloud, auth, profile, backup, journal, u, history>>

Confirmed == [srv EXCEPT ![w.e].state = "gone"]

Confirms ==
    /\ w.pc = "confirm"
    /\ w.daemon \notin revoked
    /\ srv' = Confirmed
    /\ w' = [w EXCEPT !.pc = "forget"]
    /\ UNCHANGED <<bot, revoked, files, u, history, counts>>

ConfirmFails ==
    /\ w.pc = "confirm"
    /\ \/ w.daemon \in revoked /\ UNCHANGED <<srv, counts>>
       \/ w.daemon \notin revoked /\ Fault /\ srv' \in {srv, Confirmed}
    /\ MovesOn(TRUE)
    /\ UNCHANGED <<bot, revoked, files, u, history>>

\* enrollJournalRemove, best effort.
Forgets ==
    /\ w.pc = "forget"
    /\ \/ journal' = [journal EXCEPT ![w.e] = NoEntry] /\ UNCHANGED counts
       \/ Fault /\ UNCHANGED journal
    /\ MovesOn(FALSE)
    /\ UNCHANGED <<bot, cloud, auth, profile, backup, registry, u, history>>

-----------------------------------------------------------------------------
(* comment bus unpair, another process.                                     *)

UnpairBegins ==
    /\ u.pc = "none"
    /\ auth # None
    /\ u' = [u EXCEPT !.pc = "revoke", !.daemon = auth]
    /\ UNCHANGED <<bot, cloud, files, w, history, counts>>

\* Only a 200 confirms; profiles stay when the answer is anything else.
UnpairRevokes ==
    /\ u.pc = "revoke"
    /\ u.daemon \notin revoked
    /\ revoked' = revoked \union {u.daemon}
    /\ u' = [u EXCEPT !.pc = "load"]
    /\ Meets(w.e # None)
    /\ UNCHANGED <<bot, srv, files, w, counts>>

UnpairUnconfirmed ==
    /\ u.pc = "revoke"
    /\ \/ u.daemon \in revoked /\ UNCHANGED <<revoked, counts>>
       \/ u.daemon \notin revoked /\ Fault
             /\ revoked' \in {revoked, revoked \union {u.daemon}}
    /\ u' = [NoUnpair EXCEPT !.pc = "forget"]
    /\ UNCHANGED <<bot, srv, files, w, history>>

UnpairLoads ==
    /\ u.pc = "load"
    /\ \/ u' = [u EXCEPT !.pc = "clean", !.read = journal] /\ UNCHANGED counts
       \/ Fault /\ u' = [NoUnpair EXCEPT !.pc = "forget"]
    /\ UNCHANGED <<bot, cloud, files, w, history>>

OfDaemon == {e \in Enrollments : u.read[e] # NoEntry /\ u.read[e].daemon = u.daemon}

\* The profile is gone and the entry is still listed.
EntryLeft == profile = None /\ registry # None

\* Entries are looked at again for as long as one was cleaned, for a restored
\* backup may be the install of an older enrollment.
ToClean ==
    {e \in OfDaemon \ (u.cleaned \union u.failed) :
        Matches(u.read[e], e) \/ EntryLeft}

UnpairCleans(e) ==
    /\ u.pc = "clean"
    /\ e \in ToClean
    /\ IF EntryLeft THEN UNCHANGED <<profile, backup>> ELSE RestoresOrRemoves
    /\ registry' = IF EntryLeft \/ backup = None THEN None ELSE registry
    /\ u' = [u EXCEPT !.cleaned = @ \union {e}]
    /\ UNCHANGED <<bot, cloud, auth, journal, w, history, counts>>

\* The profile cannot be read or changed, or after it the entry.
UnpairCleanFails(e) ==
    /\ u.pc = "clean"
    /\ e \in OfDaemon \ (u.cleaned \union u.failed)
    /\ bot \/ profile # None
    /\ Fault
    /\ \/ UNCHANGED <<profile, backup>>
       \/ e \in ToClean /\ bot /\ backup = None /\ RestoresOrRemoves
    /\ u' = [u EXCEPT !.failed = @ \union {e}]
    /\ UNCHANGED <<bot, cloud, auth, registry, journal, w, history>>

\* Mutant: entries whose cleanup failed are dropped with the rest.
UnpairDropsAll ==
    /\ u.pc = "clean"
    /\ ToClean = {}
    /\ journal' = [e \in Enrollments |->
                     IF e \in OfDaemon THEN NoEntry ELSE u.read[e]]
    /\ u' = [NoUnpair EXCEPT !.pc = "forget"]
    /\ UNCHANGED <<bot, cloud, auth, profile, backup, registry, w, history, counts>>

\* What is kept is written over what the worker has journaled meanwhile.
UnpairSaves ==
    /\ u.pc = "clean"
    /\ ToClean = {}
    /\ \/ journal' = [e \in Enrollments |->
                        IF e \in OfDaemon \ u.failed THEN NoEntry ELSE u.read[e]]
             /\ UNCHANGED counts
       \/ Fault /\ UNCHANGED journal
    /\ u' = [NoUnpair EXCEPT !.pc = "forget"]
    /\ UNCHANGED <<bot, cloud, auth, profile, backup, registry, w, history>>

UnpairForgets ==
    /\ u.pc = "forget"
    /\ auth' = None
    /\ u' = NoUnpair
    /\ UNCHANGED <<bot, cloud, profile, backup, registry, journal, w, history, counts>>

UnpairKilled ==
    /\ u.pc # "none"
    /\ Fault
    /\ u' = NoUnpair
    /\ UNCHANGED <<bot, cloud, files, w, history>>

-----------------------------------------------------------------------------
(* The world.                                                               *)

\* finishBusPair, also by force over a pairing: the old daemon is replaced and
\* not revoked, its profiles stay.
Pairs ==
    /\ u.pc = "none"
    /\ paired < MaxPairings
    /\ paired' = paired + 1
    /\ auth' = paired + 1
    /\ UNCHANGED <<bot, cloud, profile, backup, registry, journal, w, u, history,
                   installs, faults>>

\* The credentials cannot be saved: the daemon is revoked again.
PairFails ==
    /\ u.pc = "none"
    /\ paired < MaxPairings
    /\ faults < MaxFaults
    /\ faults' = faults + 1
    /\ paired' = paired + 1
    /\ revoked' = revoked \union {paired + 1}
    /\ UNCHANGED <<bot, srv, files, w, u, history, installs>>

\* The browser, or the reconciler of the owned agents: one open enrollment for
\* an agent and a daemon.
Enrolls(e) ==
    /\ srv[e].state = "none"
    /\ \A f \in Enrollments : f < e => srv[f].state # "none"
    /\ auth # None
    /\ auth \notin revoked
    /\ \A f \in Listed(auth) : srv[f].state \notin Open
    /\ srv' = [srv EXCEPT ![e] = [state |-> "pending", daemon |-> auth, minted |-> 0]]
    /\ UNCHANGED <<bot, revoked, files, w, u, history, counts>>

\* Cancelled, expired, or given up by the server's sweep.
Closes(e) ==
    /\ srv[e].state \in Open
    /\ srv' = [srv EXCEPT ![e].state = IF @ = "pending" THEN "gone" ELSE "closed"]
    /\ UNCHANGED <<bot, revoked, files, w, u, history, counts>>

Revokes(daemon) ==
    /\ daemon <= paired
    /\ daemon \notin revoked
    /\ revoked' = revoked \union {daemon}
    /\ UNCHANGED <<bot, srv, files, w, u, history, counts>>

\* An install by hand. It is owed to the user when nothing is under way and no
\* backup of another is unresolved.
UserInstalls ==
    /\ installs < MaxInstalls
    /\ installs' = installs + 1
    /\ profile' = Credential(User, installs + 1)
    /\ registry' = IF bot THEN User ELSE registry
    /\ owed' = IF w.pc \in {"idle", "next"} /\ u.pc = "none" /\ backup = None
               THEN installs + 1 ELSE 0
    /\ excused' = IF w.e = None /\ u.pc = "none" THEN excused ELSE excused \union {User}
    /\ UNCHANGED <<bot, cloud, auth, backup, journal, w, u, paired, faults>>

\* The daemon dies, maybe in the middle of the backup or between the entry and
\* the profile of a bot, and is started again.
Restarts ==
    /\ Fault
    /\ w # Rested
    /\ w' = Rested
    /\ registry' \in {registry} \union (IF w.pc = "write" /\ bot THEN {w.e} ELSE {})
    /\ BackupTears \/ UNCHANGED <<backup, owed>>
    /\ UNCHANGED <<bot, cloud, auth, profile, journal, u, excused>>

-----------------------------------------------------------------------------

Works ==
    \/ Lists \/ Parks \/ EndsPass
    \/ \E e \in Enrollments : Defers(e) \/ Redeems(e) \/ RedeemFails(e)
                                 \/ CleanupLooks(e) \/ CleanupUnclear(e)
    \/ BacksUp \/ PrepareFails \/ Journals \/ JournalFails \/ Writes \/ WriteFails
    \/ Verifies \/ VerifyRefused \/ VerifyFails
    \/ AckAccepted \/ AckFails \/ AckClosed \/ Discards
    \/ Undoes \/ UndoFails \/ RemovesEntry \/ RestoresEntry
    \/ Confirms \/ ConfirmFails \/ Forgets

Unpairs ==
    \/ UnpairBegins \/ UnpairRevokes \/ UnpairUnconfirmed \/ UnpairLoads
    \/ \E e \in Enrollments : UnpairCleans(e) \/ UnpairCleanFails(e)
    \/ UnpairSaves \/ UnpairForgets \/ UnpairKilled

World ==
    \/ Pairs \/ PairFails \/ UserInstalls \/ Restarts
    \/ \E e \in Enrollments : Enrolls(e) \/ Closes(e) \/ WindowElapses(e)
    \/ \E daemon \in Daemons : Revokes(daemon)

EnNext == Works \/ Unpairs \/ World

EnSpec == EnInit /\ [][EnNext]_vars

-----------------------------------------------------------------------------
(* Properties.                                                              *)

\* An install by hand is on disk, in its place or as the backup, until an
\* enrollment that took its place is acknowledged as installed ("cleanup must
\* only ever remove a file this enrollment created").  Excepted, in `owed`, are
\* installs made in the middle of a pass or over an unresolved backup, an
\* unpair in the middle of a pass, and a backup that was cut short: the next
\* pass takes it for "the oldest known-good install", writes over the install,
\* and an undoing puts the piece back in its place.
UsersInstallKept ==
    owed # 0 => Credential(User, owed) \in {profile, backup}

\* enrollJournalProfileNeedsDaemonRefresh
NeedsRefresh ==
    \E e \in Journaled : journal[e].daemon # auth /\ Matches(journal[e], e)

\* agentLocallyInstalled: what the reconciler takes for a complete install.
Installed == profile # None /\ ~NeedsRefresh /\ (bot => registry # None)

\* A revoked credential does not stay on disk unnoticed ("a dead profile never
\* lingers on disk"): while the daemon is paired and at rest, it is replaced by
\* the reconciler, or its enrollment is redeemed again, or it is still to be
\* cleaned up and the journal knows it.  Excepted, in `excused`, are
\* enrollments that could not be journaled, that an unpair met under way, whose
\* credential another enrollment has backed up, and whose record was confirmed
\* away after a try that failed before it wrote, with what an earlier try wrote.
NoDeadInstall ==
    (/\ w.pc = "idle"
     /\ u.pc = "none"
     /\ auth # None
     /\ auth \notin revoked
     /\ profile # None /\ ~Alive(profile)) =>
        LET e == profile.of
        IN  \/ ~Installed
            \/ srv[e].daemon = auth /\ srv[e].state = "redeemed"
            \/ srv[e].state = "closed" /\ profile.n \in journal[e].wrote
            \/ e \in excused

\* While the registry lists a bot whose profile was removed, the journal has a
\* record of it ("the only record of the stale registry row").
NoOrphanEntry ==
    (/\ w.pc \in {"idle", "next"}
     /\ u.pc = "none"
     /\ registry # None
     /\ profile = None) => Journaled # {} \/ registry \in excused

\* A list is only answered "unchanged" when nothing in it is left to do: after
\* a failure, a deferral or a lost answer the worker asks for the whole list
\* again ("the ETag would otherwise 304 the next poll forever").
UnchangedMeansDone ==
    (w.pc = "idle" /\ auth # None /\ w.etag = {Fingerprint(auth)}) => Fingerprint(auth) = {}
=============================================================================
