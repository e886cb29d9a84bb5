----------------------------- MODULE AutoProofs -----------------------------
(***************************************************************************)
(* Theorems of what the daemon does by itself: the auto-updater's safety   *)
(* for any releases, caps and bounds, and the auto-start's for any         *)
(* mentions, runtimes and time. The two share nothing.                     *)
(***************************************************************************)
EXTENDS AutoUpdate, AutoStart, FiniteSetTheorems, TLAPS

-----------------------------------------------------------------------------
(* The auto-update of the daemon.                                            *)

\* What an update in memory is, at each place of the process that uses it:
\* a rollback and a surrender begin with the journal they read,
JobHeld ==
    /\ pc \in RollingBack \union {"giveUp", "forget", "npmNew", "busNew"}
         => job \in Update
    /\ pc \in {"record", "delete", "giveUp", "forget"} => journal = job

\* and what they have recorded stays recorded.
LockHeld == pc \in {"delete", "npm", "bus", "forget"} => locked = job.to

\* The lock is on the release whose journal was removed last.
FailedLocked == failed # None => locked = failed

IInv ==
    /\ AUTypeOK
    /\ JobHeld
    /\ LockHeld
    /\ FailedLocked
    /\ StartsAreCounted
    /\ NoThrash

LEMMA InitInductive == AUInit => IInv
<1> SUFFICES ASSUME AUInit PROVE IInv
    OBVIOUS
<1> USE VersionAssumption, CapAssumption, NoneAssumption, BoundAssumption
        DEF AUInit, Versions, NoUpdate, Update
<1>1. AUTypeOK
    <2>1. disk \in Versions /\ run \in Versions
        OBVIOUS
    <2>2. pc \in Places /\ service \in {"up", "stopped"} /\ back \in {"starting", "idle"}
        BY DEF Places
    <2>3. 0 \in 0 .. Cap /\ 0 \in 0 .. MaxKills /\ 0 \in 0 .. MaxUpgrades
        OBVIOUS
    <2> QED
        BY <2>1, <2>2, <2>3 DEF AUTypeOK
<1>2. JobHeld /\ LockHeld /\ FailedLocked
    BY DEF JobHeld, LockHeld, FailedLocked, RollingBack
<1>3. StartsAreCounted /\ NoThrash
    BY DEF StartsAreCounted, NoThrash, Pending
<1> QED
    BY <1>1, <1>2, <1>3 DEF IInv

LEMMA StepInductive == IInv /\ [AUNext]_vars => IInv'
<1> SUFFICES ASSUME IInv, [AUNext]_vars PROVE IInv'
    OBVIOUS
<1> USE VersionAssumption, CapAssumption, NoneAssumption, BoundAssumption
<1>0. CASE UNCHANGED vars
    BY <1>0 DEF vars, files, history, IInv, AUTypeOK, JobHeld, LockHeld,
        FailedLocked, StartsAreCounted, NoThrash, Pending
<1>1. ASSUME Boot PROVE IInv'
    <2> USE <1>1 DEF Boot, IInv, AUTypeOK, Places, Serving, RollingBack, Versions,
            Update, NoUpdate, Pending, Applied, files, history
    <2>1. AUTypeOK'
        OBVIOUS
    <2>2. JobHeld' /\ LockHeld'
        BY DEF JobHeld, LockHeld
    <2>3. FailedLocked' /\ NoThrash'
        BY DEF JobHeld, LockHeld, FailedLocked, NoThrash
    <2>4. StartsAreCounted'
        BY DEF StartsAreCounted
    <2> QED
        BY <2>1, <2>2, <2>3, <2>4
<1>2. ASSUME CountAttempt PROVE IInv'
    <2> USE <1>2 DEF CountAttempt, IInv, AUTypeOK, Places, Serving, RollingBack, Versions,
            Update, NoUpdate, Pending, Applied, files, history
    <2>1. AUTypeOK'
        OBVIOUS
    <2>2. JobHeld' /\ LockHeld'
        BY DEF JobHeld, LockHeld
    <2>3. FailedLocked' /\ NoThrash'
        BY DEF JobHeld, LockHeld, FailedLocked, NoThrash
    <2>4. StartsAreCounted'
        BY DEF StartsAreCounted
    <2> QED
        BY <2>1, <2>2, <2>3, <2>4
<1>3. ASSUME ReachCap PROVE IInv'
    <2> USE <1>3 DEF ReachCap, IInv, AUTypeOK, Places, Serving, RollingBack, Versions,
            Update, NoUpdate, Pending, Applied, files, history
    <2>1. AUTypeOK'
        OBVIOUS
    <2>2. JobHeld' /\ LockHeld'
        BY DEF JobHeld, LockHeld
    <2>3. FailedLocked' /\ NoThrash'
        BY DEF JobHeld, LockHeld, FailedLocked, NoThrash
    <2>4. StartsAreCounted'
        BY DEF StartsAreCounted
    <2> QED
        BY <2>1, <2>2, <2>3, <2>4
<1>4. ASSUME GiveUp PROVE IInv'
    <2> USE <1>4 DEF GiveUp, IInv, AUTypeOK, Places, Serving, RollingBack, Versions,
            Update, NoUpdate, Pending, Applied, files, history
    <2>1. AUTypeOK'
        OBVIOUS
    <2>2. JobHeld' /\ LockHeld'
        BY DEF JobHeld, LockHeld
    <2>3. FailedLocked' /\ NoThrash'
        BY DEF JobHeld, LockHeld, FailedLocked, NoThrash
    <2>4. StartsAreCounted'
        BY DEF StartsAreCounted
    <2> QED
        BY <2>1, <2>2, <2>3, <2>4
<1>5. ASSUME Forget PROVE IInv'
    <2> USE <1>5 DEF Forget, IInv, AUTypeOK, Places, Serving, RollingBack, Versions,
            Update, NoUpdate, Pending, Applied, files, history
    <2>1. AUTypeOK'
        OBVIOUS
    <2>2. JobHeld' /\ LockHeld'
        BY DEF JobHeld, LockHeld
    <2>3. FailedLocked' /\ NoThrash'
        BY DEF JobHeld, LockHeld, FailedLocked, NoThrash
    <2>4. StartsAreCounted'
        BY DEF StartsAreCounted
    <2> QED
        BY <2>1, <2>2, <2>3, <2>4
<1>6. ASSUME StartDaemon PROVE IInv'
    <2> USE <1>6 DEF StartDaemon, IInv, AUTypeOK, Places, Serving, RollingBack, Versions,
            Update, NoUpdate, Pending, Applied, files, history
    <2>1. AUTypeOK'
        OBVIOUS
    <2>2. JobHeld' /\ LockHeld'
        BY DEF JobHeld, LockHeld
    <2>3. FailedLocked' /\ NoThrash'
        BY DEF JobHeld, LockHeld, FailedLocked, NoThrash
    <2>4. StartsAreCounted'
        BY DEF StartsAreCounted
    <2> QED
        BY <2>1, <2>2, <2>3, <2>4
<1>7. ASSUME StartFails PROVE IInv'
    <2> USE <1>7 DEF StartFails, IInv, AUTypeOK, Places, Serving, RollingBack, Versions,
            Update, NoUpdate, Pending, Applied, files, history
    <2>1. AUTypeOK'
        OBVIOUS
    <2>2. JobHeld' /\ LockHeld'
        BY DEF JobHeld, LockHeld
    <2>3. FailedLocked' /\ NoThrash'
        BY DEF JobHeld, LockHeld, FailedLocked, NoThrash
    <2>4. StartsAreCounted'
        BY DEF StartsAreCounted
    <2> QED
        BY <2>1, <2>2, <2>3, <2>4
<1>8. ASSUME NothingToCommit PROVE IInv'
    <2> USE <1>8 DEF NothingToCommit, IInv, AUTypeOK, Places, Serving, RollingBack, Versions,
            Update, NoUpdate, Pending, Applied, files, history
    <2>1. AUTypeOK'
        OBVIOUS
    <2>2. JobHeld' /\ LockHeld'
        BY DEF JobHeld, LockHeld
    <2>3. FailedLocked' /\ NoThrash'
        BY DEF JobHeld, LockHeld, FailedLocked, NoThrash
    <2>4. StartsAreCounted'
        BY DEF StartsAreCounted
    <2> QED
        BY <2>1, <2>2, <2>3, <2>4
<1>9. ASSUME Healthy PROVE IInv'
    <2> USE <1>9 DEF Healthy, IInv, AUTypeOK, Places, Serving, RollingBack, Versions,
            Update, NoUpdate, Pending, Applied, files, history
    <2>1. AUTypeOK'
        OBVIOUS
    <2>2. JobHeld' /\ LockHeld'
        BY DEF JobHeld, LockHeld
    <2>3. FailedLocked' /\ NoThrash'
        BY DEF JobHeld, LockHeld, FailedLocked, NoThrash
    <2>4. StartsAreCounted'
        BY DEF StartsAreCounted
    <2> QED
        BY <2>1, <2>2, <2>3, <2>4
<1>10. ASSUME Commit PROVE IInv'
    <2> USE <1>10 DEF Commit, IInv, AUTypeOK, Places, Serving, RollingBack, Versions,
            Update, NoUpdate, Pending, Applied, files, history
    <2>1. AUTypeOK'
        OBVIOUS
    <2>2. JobHeld' /\ LockHeld'
        BY DEF JobHeld, LockHeld
    <2>3. FailedLocked' /\ NoThrash'
        BY DEF JobHeld, LockHeld, FailedLocked, NoThrash
    <2>4. StartsAreCounted'
        BY DEF StartsAreCounted
    <2> QED
        BY <2>1, <2>2, <2>3, <2>4
<1>11. ASSUME Unhealthy PROVE IInv'
    <2> USE <1>11 DEF Unhealthy, IInv, AUTypeOK, Places, Serving, RollingBack, Versions,
            Update, NoUpdate, Pending, Applied, files, history
    <2>1. AUTypeOK'
        OBVIOUS
    <2>2. JobHeld' /\ LockHeld'
        BY DEF JobHeld, LockHeld
    <2>3. FailedLocked' /\ NoThrash'
        BY DEF JobHeld, LockHeld, FailedLocked, NoThrash
    <2>4. StartsAreCounted'
        BY DEF StartsAreCounted
    <2> QED
        BY <2>1, <2>2, <2>3, <2>4
<1>12. ASSUME RecordRolledBack PROVE IInv'
    <2> USE <1>12 DEF RecordRolledBack, IInv, AUTypeOK, Places, Serving, RollingBack, Versions,
            Update, NoUpdate, Pending, Applied, files, history
    <2>1. AUTypeOK'
        OBVIOUS
    <2>2. JobHeld' /\ LockHeld'
        BY DEF JobHeld, LockHeld
    <2>3. FailedLocked' /\ NoThrash'
        BY DEF JobHeld, LockHeld, FailedLocked, NoThrash
    <2>4. StartsAreCounted'
        BY DEF StartsAreCounted
    <2> QED
        BY <2>1, <2>2, <2>3, <2>4
<1>13. ASSUME DeleteJournal PROVE IInv'
    <2> USE <1>13 DEF DeleteJournal, IInv, AUTypeOK, Places, Serving, RollingBack, Versions,
            Update, NoUpdate, Pending, Applied, files, history
    <2>1. AUTypeOK'
        OBVIOUS
    <2>2. JobHeld' /\ LockHeld'
        BY DEF JobHeld, LockHeld
    <2>3. FailedLocked' /\ NoThrash'
        BY DEF JobHeld, LockHeld, FailedLocked, NoThrash
    <2>4. StartsAreCounted'
        BY DEF StartsAreCounted
    <2> QED
        BY <2>1, <2>2, <2>3, <2>4
<1>14. ASSUME InstallOld PROVE IInv'
    <2> USE <1>14 DEF InstallOld, IInv, AUTypeOK, Places, Serving, RollingBack, Versions,
            Update, NoUpdate, Pending, Applied, files, history
    <2>1. AUTypeOK'
        BY DEF JobHeld
    <2>2. JobHeld' /\ LockHeld'
        BY DEF JobHeld, LockHeld
    <2>3. FailedLocked' /\ NoThrash'
        BY DEF JobHeld, LockHeld, FailedLocked, NoThrash
    <2>4. StartsAreCounted'
        BY DEF StartsAreCounted
    <2> QED
        BY <2>1, <2>2, <2>3, <2>4
<1>15. ASSUME InstallOldFails PROVE IInv'
    <2> USE <1>15 DEF InstallOldFails, IInv, AUTypeOK, Places, Serving, RollingBack, Versions,
            Update, NoUpdate, Pending, Applied, files, history
    <2>1. AUTypeOK'
        OBVIOUS
    <2>2. JobHeld' /\ LockHeld'
        BY DEF JobHeld, LockHeld
    <2>3. FailedLocked' /\ NoThrash'
        BY DEF JobHeld, LockHeld, FailedLocked, NoThrash
    <2>4. StartsAreCounted'
        BY DEF StartsAreCounted
    <2> QED
        BY <2>1, <2>2, <2>3, <2>4
<1>16. ASSUME NEW latest \in Versions, NEW minimum \in Versions, Tick(latest, minimum) PROVE IInv'
    <2> USE <1>16 DEF Tick, IInv, AUTypeOK, Places, Serving, RollingBack, Versions,
            Update, NoUpdate, Pending, Applied, files, history, Target, Outdated
    <2>1. AUTypeOK'
        OBVIOUS
    <2>2. JobHeld' /\ LockHeld'
        BY DEF JobHeld, LockHeld
    <2>3. FailedLocked' /\ NoThrash'
        BY DEF JobHeld, LockHeld, FailedLocked, NoThrash
    <2>4. StartsAreCounted'
        BY DEF StartsAreCounted
    <2> QED
        BY <2>1, <2>2, <2>3, <2>4
<1>17. ASSUME InstallNew PROVE IInv'
    <2> USE <1>17 DEF InstallNew, IInv, AUTypeOK, Places, Serving, RollingBack, Versions,
            Update, NoUpdate, Pending, Applied, files, history
    <2>1. AUTypeOK'
        BY DEF JobHeld
    <2>2. JobHeld' /\ LockHeld'
        BY DEF JobHeld, LockHeld
    <2>3. FailedLocked' /\ NoThrash'
        BY DEF JobHeld, LockHeld, FailedLocked, NoThrash
    <2>4. StartsAreCounted'
        BY DEF StartsAreCounted
    <2> QED
        BY <2>1, <2>2, <2>3, <2>4
<1>18. ASSUME InstallNewFails PROVE IInv'
    <2> USE <1>18 DEF InstallNewFails, IInv, AUTypeOK, Places, Serving, RollingBack, Versions,
            Update, NoUpdate, Pending, Applied, files, history
    <2>1. AUTypeOK'
        OBVIOUS
    <2>2. JobHeld' /\ LockHeld'
        BY DEF JobHeld, LockHeld
    <2>3. FailedLocked' /\ NoThrash'
        BY DEF JobHeld, LockHeld, FailedLocked, NoThrash
    <2>4. StartsAreCounted'
        BY DEF StartsAreCounted
    <2> QED
        BY <2>1, <2>2, <2>3, <2>4
<1>19. ASSUME RestartFails PROVE IInv'
    <2> USE <1>19 DEF RestartFails, IInv, AUTypeOK, Places, Serving, RollingBack, Versions,
            Update, NoUpdate, Pending, Applied, files, history
    <2>1. AUTypeOK'
        OBVIOUS
    <2>2. JobHeld' /\ LockHeld'
        BY DEF JobHeld, LockHeld
    <2>3. FailedLocked' /\ NoThrash'
        BY DEF JobHeld, LockHeld, FailedLocked, NoThrash
    <2>4. StartsAreCounted'
        BY DEF StartsAreCounted
    <2> QED
        BY <2>1, <2>2, <2>3, <2>4
<1>20. ASSUME Restarts PROVE IInv'
    <2> USE <1>20 DEF Restarts, IInv, AUTypeOK, Places, Serving, RollingBack, Versions,
            Update, NoUpdate, Pending, Applied, files, history
    <2>1. AUTypeOK'
        OBVIOUS
    <2>2. JobHeld' /\ LockHeld'
        BY DEF JobHeld, LockHeld
    <2>3. FailedLocked' /\ NoThrash'
        BY DEF JobHeld, LockHeld, FailedLocked, NoThrash
    <2>4. StartsAreCounted'
        BY DEF StartsAreCounted
    <2> QED
        BY <2>1, <2>2, <2>3, <2>4
<1>21. ASSUME Killed PROVE IInv'
    <2> USE <1>21 DEF Killed, Ends, IInv, AUTypeOK, Places, Serving, RollingBack, Versions,
            Update, NoUpdate, Pending, Applied, files, history
    <2>1. AUTypeOK'
        OBVIOUS
    <2>2. JobHeld' /\ LockHeld'
        BY DEF JobHeld, LockHeld
    <2>3. FailedLocked' /\ NoThrash'
        BY DEF JobHeld, LockHeld, FailedLocked, NoThrash
    <2>4. StartsAreCounted'
        BY DEF StartsAreCounted
    <2> QED
        BY <2>1, <2>2, <2>3, <2>4
<1>22. ASSUME UserStops PROVE IInv'
    <2> USE <1>22 DEF UserStops, Ends, IInv, AUTypeOK, Places, Serving, RollingBack, Versions,
            Update, NoUpdate, Pending, Applied, files, history
    <2>1. AUTypeOK'
        OBVIOUS
    <2>2. JobHeld' /\ LockHeld'
        BY DEF JobHeld, LockHeld
    <2>3. FailedLocked' /\ NoThrash'
        BY DEF JobHeld, LockHeld, FailedLocked, NoThrash
    <2>4. StartsAreCounted'
        BY DEF StartsAreCounted
    <2> QED
        BY <2>1, <2>2, <2>3, <2>4
<1>23. ASSUME ServiceStarts PROVE IInv'
    <2> USE <1>23 DEF ServiceStarts, IInv, AUTypeOK, Places, Serving, RollingBack, Versions,
            Update, NoUpdate, Pending, Applied, files, history
    <2>1. AUTypeOK'
        OBVIOUS
    <2>2. JobHeld' /\ LockHeld'
        BY DEF JobHeld, LockHeld
    <2>3. FailedLocked' /\ NoThrash'
        BY DEF JobHeld, LockHeld, FailedLocked, NoThrash
    <2>4. StartsAreCounted'
        BY DEF StartsAreCounted
    <2> QED
        BY <2>1, <2>2, <2>3, <2>4
<1>24. ASSUME NEW version \in Versions, UserInstalls(version) PROVE IInv'
    <2> USE <1>24 DEF UserInstalls, IInv, AUTypeOK, Places, Serving, RollingBack, Versions,
            Update, NoUpdate, Pending, Applied, files, history
    <2>1. AUTypeOK'
        OBVIOUS
    <2>2. JobHeld' /\ LockHeld'
        BY DEF JobHeld, LockHeld
    <2>3. FailedLocked' /\ NoThrash'
        BY DEF JobHeld, LockHeld, FailedLocked, NoThrash
    <2>4. StartsAreCounted'
        BY DEF StartsAreCounted
    <2> QED
        BY <2>1, <2>2, <2>3, <2>4
<1>25. ASSUME UserReinstalls PROVE IInv'
    <2> USE <1>25 DEF UserReinstalls, Ends, IInv, AUTypeOK, Places, Serving, RollingBack, Versions,
            Update, NoUpdate, Pending, Applied, files, history
    <2>0. kills' \in 0 .. MaxKills
        OBVIOUS
    <2>1. AUTypeOK'
        BY <2>0
    <2>2. JobHeld' /\ LockHeld'
        BY DEF JobHeld, LockHeld
    <2>3. FailedLocked' /\ NoThrash'
        BY DEF JobHeld, LockHeld, FailedLocked, NoThrash
    <2>4. StartsAreCounted'
        BY DEF StartsAreCounted
    <2> QED
        BY <2>1, <2>2, <2>3, <2>4
<1> QED
    BY <1>0, <1>1, <1>2, <1>3, <1>4, <1>5, <1>6, <1>7, <1>8, <1>9, <1>10, <1>11, <1>12, <1>13, <1>14, <1>15, <1>16, <1>17, <1>18, <1>19, <1>20, <1>21, <1>22, <1>23, <1>24, <1>25
        DEF AUNext, Reconciles, Works, World

LEMMA Invariant == AUSpec => []IInv
    BY InitInductive, StepInductive, PTL DEF AUSpec

(* The files, the process and the histories keep their types. *)
THEOREM TypeCorrect == AUSpec => []AUTypeOK
<1>1. IInv => AUTypeOK
    BY DEF IInv
<1> QED
    BY <1>1, Invariant, PTL

(* The journal has counted every start of the release it names, and the cap  *)
(* is never passed, whatever kills the process at whatever point.            *)
THEOREM EveryStartCounted == AUSpec => []StartsAreCounted
<1>1. IInv => StartsAreCounted
    BY DEF IInv
<1> QED
    BY <1>1, Invariant, PTL

(* A rollback that is cut short has left its journal or its lock on disk.    *)
THEOREM RollbackDurable == AUSpec => []RollbackRecorded
<1>1. IInv => RollbackRecorded
    BY DEF IInv, JobHeld, LockHeld, RollbackRecorded, RollingBack
<1> QED
    BY <1>1, Invariant, PTL

(* The worker never installs the release that failed last.                   *)
THEOREM NeverThrashes == AUSpec => []NoThrash
<1>1. IInv => NoThrash
    BY DEF IInv
<1> QED
    BY <1>1, Invariant, PTL

-----------------------------------------------------------------------------
(* The auto-start of runtimes by mentions.                                   *)

\* The mentions are ingested one after the other, and the goroutine that ingests
\* one does nothing else; a launch that is under way is the one that was reserved.
Launching == {m \in Mentions : mention[m].phase \in {"launching", "launched"}}
OneIngested == \A m, n \in Ingested : m = n
IngestedBy == \A m \in Ingested : mention[m].by # 0 => goroutine[mention[m].by] = "ingesting"
LaunchReserved == \A m, n \in Launching : m = n /\ inFlight

MentionPhases == {"new", "storing", "looking", "forgetting", "waiting", "reserving",
                  "launching", "launched", "over"}
GoroutinePhases == {"none", "idle", "locking", "nudging", "ingesting", "done"}

StartInv == ASTypeOK /\ OneIngested /\ IngestedBy /\ LaunchReserved

LEMMA StartInit == Init => StartInv
  <1> SUFFICES ASSUME Init PROVE StartInv
    OBVIOUS
  <1>1. ASTypeOK
    <2>1. 0 \in 0..MaxClock /\ 0 \in 0..4
      BY AutoStartAssumption
    <2>2. mention \in [Mentions -> [phase : MentionPhases, sees : Runtimes \cup {0},
                                    by : Runtimes \cup {0}]]
      BY DEF Init, MentionPhases
    <2>3. goroutine \in [Runtimes -> GoroutinePhases]
      BY DEF Init, GoroutinePhases
    <2>4. QED BY <2>1, <2>2, <2>3 DEF Init, ASTypeOK, MentionPhases, GoroutinePhases
  <1>2. OneIngested /\ IngestedBy /\ LaunchReserved
    BY DEF Init, OneIngested, IngestedBy, LaunchReserved, Ingested, Launching
  <1>3. QED BY <1>1, <1>2 DEF StartInv

\* A step of a mention m leaves the others alone.
LEMMA MentionSteps ==
    ASSUME ASTypeOK, NEW m \in Mentions, NEW phase \in MentionPhases, Goes(m, phase)
    PROVE  /\ mention' \in [Mentions -> [phase : MentionPhases, sees : Runtimes \cup {0},
                                         by : Runtimes \cup {0}]]
           /\ mention'[m].phase = phase /\ mention'[m].by = mention[m].by
           /\ \A n \in Mentions \ {m} : mention'[n] = mention[n]
  BY DEF ASTypeOK, Goes, MentionPhases

\* A mention whose ingest goes on, or is over, leaves the others as they are.
LEMMA IngestGoesOn ==
    ASSUME StartInv, NEW m \in Ingested, NEW phase \in MentionPhases, mention'[m].phase = phase,
           mention'[m].by = mention[m].by,
           \A n \in Mentions \ {m} : mention'[n] = mention[n],
           phase \in {"over", "launching"} \/ UNCHANGED goroutine
    PROVE  OneIngested' /\ IngestedBy' /\ (phase = "over" => Launching' = Launching)
  <1>1. \A n \in Ingested : n = m
    BY DEF StartInv, OneIngested
  <1>2. m \in Mentions /\ m \notin Launching
    BY DEF Ingested, Launching
  <1>3. Ingested' \subseteq {m} /\ (phase \in {"over", "launching"} => Ingested' = {})
    BY <1>1, <1>2 DEF Ingested
  <1>4. OneIngested' /\ IngestedBy'
    BY <1>3 DEF OneIngested, IngestedBy, StartInv
  <1>5. phase = "over" => Launching' = Launching
    BY <1>2 DEF Launching
  <1>6. QED BY <1>4, <1>5

\* The ingest returns to its caller, whom no lock belongs to.
LEMMA ReturnsTyped ==
    ASSUME StartInv, NEW m \in Ingested, Returns(m)
    PROVE  /\ goroutine' \in [Runtimes -> GoroutinePhases]
           /\ \A g \in Runtimes : goroutine[g] = "nudging" => goroutine'[g] = "nudging"
  <1>1. 0 \notin Runtimes
    BY AutoStartAssumption DEF Runtimes
  <1>2. \A g \in Runtimes : g = mention[m].by => goroutine[g] = "ingesting"
    BY <1>1 DEF StartInv, IngestedBy
  <1>3. QED BY <1>2 DEF Returns, StartInv, ASTypeOK, GoroutinePhases

\* A runtime is started under a number that has no goroutine yet.
LEMMA StartsTyped ==
    ASSUME StartInv, Starts
    PROVE  /\ record' \in Runtimes /\ panes' \subseteq Runtimes
           /\ goroutine' \in [Runtimes -> GoroutinePhases]
           /\ \A g \in Runtimes : goroutine[g] # "none" => goroutine'[g] = goroutine[g]
  BY DEF StartInv, ASTypeOK, Starts, Started, GoroutinePhases

LEMMA StartStep == StartInv /\ [Next]_startVars => StartInv'
  <1> SUFFICES ASSUME StartInv, [Next]_startVars PROVE StartInv'
    OBVIOUS
  <1>a. ASTypeOK /\ OneIngested /\ IngestedBy /\ LaunchReserved
    BY DEF StartInv
  <1>b. MaxRuntimes \in Nat /\ MaxClock \in Nat /\ 0 \notin Runtimes
    BY AutoStartAssumption DEF Runtimes
  \* Steps that leave the mentions, and what is reserved, alone.
  <1>c. ASSUME UNCHANGED <<mention, inFlight>>, ASTypeOK',
               \A g \in Runtimes : goroutine[g] = "ingesting" => goroutine'[g] = "ingesting"
        PROVE  StartInv'
    <2>1. OneIngested' /\ LaunchReserved'
      BY <1>a, <1>c DEF OneIngested, LaunchReserved, Ingested, Launching
    <2>2. IngestedBy'
      BY <1>a, <1>c DEF IngestedBy, Ingested, ASTypeOK
    <2>3. QED BY <1>c, <2>1, <2>2 DEF StartInv
  <1>1. CASE TimePasses
    <2>1. ASTypeOK'
      BY <1>a, <1>b, <1>1 DEF TimePasses, ASTypeOK, backoff
    <2>2. QED BY <1>1, <1>c, <2>1 DEF TimePasses, backoff
  <1>2. CASE UserRuns
    <2>1. ASTypeOK'
      BY <1>a, <1>2, StartsTyped DEF UserRuns, ASTypeOK, backoff, GoroutinePhases
    <2>2. QED BY <1>2, <1>c, <2>1, StartsTyped DEF UserRuns, backoff
  <1>3. ASSUME NEW g \in Runtimes,
               PaneDies(g) \/ Nudges(g) \/ NudgeLocks(g) \/ NudgeUnlocks(g) \/ GoroutineEnds(g)
        PROVE  StartInv'
    <2>1. CASE PaneDies(g)
      BY <1>a, <1>c, <2>1 DEF PaneDies, ASTypeOK, backoff
    <2>2. CASE Nudges(g)
      BY <1>a, <1>c, <2>2 DEF Nudges, ASTypeOK, backoff
    <2>3. CASE NudgeLocks(g)
      BY <1>a, <1>c, <2>3 DEF NudgeLocks, ASTypeOK, backoff
    <2>4. CASE NudgeUnlocks(g)
      BY <1>a, <1>c, <2>4 DEF NudgeUnlocks, ASTypeOK, backoff
    <2>5. CASE GoroutineEnds(g)
      BY <1>a, <1>c, <2>5 DEF GoroutineEnds, ASTypeOK, backoff
    <2>6. QED BY <1>3, <2>1, <2>2, <2>3, <2>4, <2>5
  <1>4. ASSUME NEW m \in Mentions, NEW g \in Runtimes \cup {0}, Ingests(m, g)
        PROVE  StartInv'
    <2>1. /\ mention' = [mention EXCEPT ![m] = [phase |-> "storing", sees |-> 0, by |-> g]]
          /\ busMu' = m /\ Ingested = {} /\ mention[m].phase = "new"
          /\ UNCHANGED <<clock, record, panes, inFlight, lastAttempt, failures>>
      BY <1>4 DEF Ingests, backoff
    <2>2. /\ mention'[m] = [phase |-> "storing", sees |-> 0, by |-> g]
          /\ \A n \in Mentions \ {m} : mention'[n] = mention[n]
      BY <1>a, <2>1 DEF ASTypeOK
    <2>3. /\ goroutine' \in [Runtimes -> GoroutinePhases]
          /\ g # 0 => goroutine'[g] = "ingesting"
      BY <1>a, <1>4 DEF Ingests, ASTypeOK, GoroutinePhases
    <2>4. ASTypeOK'
      BY <1>a, <2>1, <2>2, <2>3 DEF ASTypeOK, GoroutinePhases
    <2>5. Ingested' = {m}
      BY <2>1, <2>2 DEF Ingested
    <2>6. OneIngested' /\ IngestedBy'
      BY <2>2, <2>3, <2>5 DEF OneIngested, IngestedBy
    <2>7. LaunchReserved'
      BY <1>a, <2>1, <2>2 DEF LaunchReserved, Launching
    <2>8. QED BY <2>4, <2>6, <2>7 DEF StartInv
  <1>5. ASSUME NEW m \in Mentions, MentionGoesOn(m) PROVE StartInv'
    <2>1. CASE Stored(m)
      <3>1. m \in Ingested /\ Goes(m, "looking") /\ "looking" \in MentionPhases
        BY <2>1 DEF Stored, Ingested, MentionPhases
      <3>2. OneIngested' /\ IngestedBy'
        BY <1>a, <2>1, <3>1, MentionSteps, IngestGoesOn DEF Stored
      <3>3. ASTypeOK' /\ LaunchReserved'
        BY <1>a, <2>1, <3>1, MentionSteps DEF Stored, ASTypeOK, MentionPhases, LaunchReserved, Launching,
                                              backoff
      <3>4. QED BY <3>2, <3>3 DEF StartInv
    <2>2. CASE LooksAt(m) \/ Forgets(m) \/ Forgotten(m)
      <3>1. /\ m \in Ingested /\ mention[m].phase \notin {"storing", "launching", "launched"}
            /\ UNCHANGED <<clock, busMu, panes, inFlight, lastAttempt, failures>>
        BY <2>2 DEF LooksAt, Forgets, Forgotten, Ingested, backoff
      <3>2. record' \in {record, 0}
        BY <2>2 DEF LooksAt, Forgets, Forgotten
      <3>3. PICK phase \in {"forgetting", "waiting", "reserving", "over"} :
              /\ Goes(m, phase) \/ (phase = "forgetting"
                   /\ mention' = [mention EXCEPT ![m].phase = phase, ![m].sees = record])
              /\ IF phase = "over" THEN Returns(m) ELSE UNCHANGED goroutine
        BY <2>2 DEF LooksAt, Forgets, Forgotten
      <3>4. /\ mention' \in [Mentions -> [phase : MentionPhases, sees : Runtimes \cup {0},
                                          by : Runtimes \cup {0}]]
            /\ mention'[m].phase = phase /\ mention'[m].by = mention[m].by
            /\ \A n \in Mentions \ {m} : mention'[n] = mention[n]
        BY <1>a, <3>3 DEF ASTypeOK, Goes, MentionPhases
      <3>5. OneIngested' /\ IngestedBy'
        BY <3>1, <3>3, <3>4, IngestGoesOn DEF MentionPhases
      <3>6. LaunchReserved'
        BY <1>a, <3>1, <3>3, <3>4 DEF LaunchReserved, Launching
      <3>7. /\ goroutine' \in [Runtimes -> GoroutinePhases]
            /\ \A g \in Runtimes : goroutine[g] = "nudging" => goroutine'[g] = "nudging"
        BY <1>a, <3>1, <3>3, ReturnsTyped DEF ASTypeOK, GoroutinePhases
      <3>8. ASTypeOK'
        BY <1>a, <3>1, <3>2, <3>4, <3>7 DEF ASTypeOK, MentionPhases, GoroutinePhases
      <3>9. QED BY <3>5, <3>6, <3>8 DEF StartInv
    <2>3. CASE Reserves(m)
      <3>1. /\ m \in Ingested /\ mention[m].phase = "reserving" /\ Returns(m)
            /\ UNCHANGED <<clock, busMu, record, panes, failures>>
        BY <2>3 DEF Reserves, Ingested
      <3>2. PICK phase \in {"launching", "over"} :
              /\ Goes(m, phase)
              /\ phase = "launching" => ~inFlight /\ inFlight' /\ lastAttempt' = clock
              /\ phase = "over" => UNCHANGED <<inFlight, lastAttempt>>
              /\ inFlight' \in BOOLEAN
        BY <1>a, <2>3 DEF Reserves, ASTypeOK
      <3>3. /\ mention' \in [Mentions -> [phase : MentionPhases, sees : Runtimes \cup {0},
                                          by : Runtimes \cup {0}]]
            /\ mention'[m].phase = phase /\ mention'[m].by = mention[m].by
            /\ \A n \in Mentions \ {m} : mention'[n] = mention[n]
        BY <1>a, <3>2, MentionSteps DEF MentionPhases
      <3>4. OneIngested' /\ IngestedBy' /\ (phase = "over" => Launching' = Launching)
        BY <3>1, <3>2, <3>3, IngestGoesOn DEF MentionPhases
      <3>5. LaunchReserved'
        <4>1. CASE phase = "over"
          BY <1>a, <3>2, <3>4, <4>1 DEF LaunchReserved
        <4>2. CASE phase = "launching"
          <5>1. Launching = {}
            BY <1>a, <3>2, <4>2 DEF LaunchReserved
          <5>2. Launching' = {m}
            BY <3>3, <4>2, <5>1 DEF Launching
          <5>3. QED BY <3>2, <4>2, <5>2 DEF LaunchReserved
        <4>3. QED BY <3>2, <4>1, <4>2
      <3>6. lastAttempt' \in 0..MaxClock \cup {Unset}
        BY <1>a, <3>2 DEF ASTypeOK
      <3>7. ASTypeOK'
        BY <1>a, <3>1, <3>2, <3>3, <3>6, ReturnsTyped DEF ASTypeOK, MentionPhases, GoroutinePhases
      <3>8. QED BY <3>4, <3>5, <3>7 DEF StartInv
    <2>4. CASE LaunchStarts(m)
      <3>1. /\ m \in Launching /\ m \notin Ingested /\ Goes(m, "launched")
            /\ UNCHANGED <<clock, busMu, inFlight, lastAttempt, failures>>
            /\ mention[m].phase # "storing"
        BY <2>4 DEF LaunchStarts, Launching, Ingested, backoff
      <3>2. /\ mention' \in [Mentions -> [phase : MentionPhases, sees : Runtimes \cup {0},
                                          by : Runtimes \cup {0}]]
            /\ mention'[m].phase = "launched"
            /\ \A n \in Mentions \ {m} : mention'[n] = mention[n]
        BY <1>a, <3>1, MentionSteps DEF MentionPhases
      <3>3. /\ record' \in Runtimes \cup {0} /\ panes' \subseteq Runtimes
            /\ goroutine' \in [Runtimes -> GoroutinePhases]
            /\ \A g \in Runtimes : goroutine[g] # "none" => goroutine'[g] = goroutine[g]
        <4>1. CASE Starts
          BY <4>1, StartsTyped
        <4>2. CASE UNCHANGED <<record, panes, goroutine>>
          BY <1>a, <4>2 DEF ASTypeOK, GoroutinePhases
        <4>3. QED BY <2>4, <4>1, <4>2 DEF LaunchStarts
      <3>4. ASTypeOK'
        BY <1>a, <3>1, <3>2, <3>3 DEF ASTypeOK, MentionPhases, GoroutinePhases
      <3>5. Ingested' = Ingested /\ Launching' = Launching
        BY <3>1, <3>2 DEF Ingested, Launching
      <3>6. OneIngested' /\ LaunchReserved'
        BY <1>a, <3>1, <3>5 DEF OneIngested, LaunchReserved
      <3>7. IngestedBy'
        BY <1>a, <3>1, <3>2, <3>3, <3>5 DEF IngestedBy, Ingested, ASTypeOK
      <3>8. QED BY <3>4, <3>6, <3>7 DEF StartInv
    <2>5. CASE LaunchSucceeds(m) \/ LaunchFails(m)
      <3>1. /\ m \in Launching /\ m \notin Ingested /\ Goes(m, "over") /\ inFlight' = FALSE
            /\ UNCHANGED <<clock, busMu, record, panes, goroutine, lastAttempt>>
            /\ mention[m].phase # "storing"
        BY <2>5 DEF LaunchSucceeds, LaunchFails, Finishes, Launching, Ingested
      <3>2. /\ mention' \in [Mentions -> [phase : MentionPhases, sees : Runtimes \cup {0},
                                          by : Runtimes \cup {0}]]
            /\ mention'[m].phase = "over"
            /\ \A n \in Mentions \ {m} : mention'[n] = mention[n]
        BY <1>a, <3>1, MentionSteps DEF MentionPhases
      <3>3. failures' \in 0..4
        BY <1>a, <2>5 DEF LaunchSucceeds, LaunchFails, Finishes, ASTypeOK
      <3>4. ASTypeOK'
        BY <1>a, <3>1, <3>2, <3>3 DEF ASTypeOK, MentionPhases
      <3>5. Ingested' = Ingested /\ Launching' = {}
        BY <1>a, <3>1, <3>2 DEF Ingested, Launching, LaunchReserved
      <3>6. OneIngested' /\ LaunchReserved' /\ IngestedBy'
        BY <1>a, <3>1, <3>2, <3>5 DEF OneIngested, LaunchReserved, IngestedBy, Ingested
      <3>7. QED BY <3>4, <3>6 DEF StartInv
    <2>6. QED BY <1>5, <2>1, <2>2, <2>3, <2>4, <2>5 DEF MentionGoesOn
  <1>6. CASE UNCHANGED startVars
    BY <1>6, <1>a, <1>c DEF startVars, backoff, ASTypeOK
  <1>7. QED BY <1>1, <1>2, <1>3, <1>4, <1>5, <1>6 DEF Next

LEMMA StartInvariant == Spec => []StartInv
  BY StartInit, StartStep, PTL DEF Spec

\* The locks and the goroutines of the auto-start: whoever holds busMu is storing a
\* mention, or is nudging.
THEOREM StartTypeCorrect == Spec => []ASTypeOK
  <1>1. StartInv => ASTypeOK
    BY DEF StartInv
  <1>2. QED BY <1>1, StartInvariant, PTL

\* A flurry of mentions makes one launch (reserveMentionAutoStart).
THEOREM MentionsLaunchOnce == Spec => []OneLaunchAtATime
  <1>1. ASSUME StartInv PROVE Cardinality(Launching) <= 1
    <2>1. CASE Launching = {}
      BY <2>1, FS_EmptySet
    <2>2. ASSUME NEW m \in Launching PROVE Cardinality(Launching) <= 1
      <3>1. Launching = {m}
        BY <1>1, <2>2 DEF StartInv, LaunchReserved
      <3>2. Cardinality({m}) = 1
        BY FS_Singleton
      <3>3. QED BY <3>1, <3>2
    <2>3. QED BY <2>1, <2>2
  <1>2. StartInv => OneLaunchAtATime
    BY <1>1 DEF OneLaunchAtATime, Launching
  <1>3. QED BY <1>2, StartInvariant, PTL
=============================================================================
