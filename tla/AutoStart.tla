------------------------------ MODULE AutoStart ------------------------------
(***************************************************************************)
(* A mention launches the runtime of its bot (mention_autostart.go, and    *)
(* its call in ingestCloudNotification): once the message is stored and    *)
(* the ingest locks are given up, the daemon looks whether a runtime is    *)
(* alive, forgets one that is not, reserves the launch and runs it in a    *)
(* goroutine of its own.                                                   *)
(*                                                                         *)
(* One bot that responds to mentions is modelled, with the goroutine of    *)
(* its runtime, which takes busMu to nudge it, and which also ingests the  *)
(* notifications of the bot, as the daemon's poller and waiting requests   *)
(* do. Of the three ingest locks only busMu is shared with that goroutine, *)
(* and stands for them; the lock of lockCloudNotificationWait is kept      *)
(* until the ingest returns. Time is counted in base cooldowns.            *)
(***************************************************************************)
EXTENDS Integers, FiniteSets

CONSTANTS Mentions,    \* notifications that mention the bot
          Unset,
          MaxRuntimes, \* bound: runtimes started
          MaxClock     \* bound: the time

ASSUME AutoStartAssumption ==
    /\ Unset \notin Mentions
    /\ MaxRuntimes \in Nat /\ MaxClock \in Nat

VARIABLES clock,
          busMu,       \* who holds it: a mention being stored, a goroutine, or Unset
          mention,     \* how far each mention is, the runtime it looks at, and the
                       \* runtime whose goroutine ingests it, if one does
          record,      \* the main runtime in the daemon's maps, or 0
          panes,       \* external: runtimes whose terminal is alive
          goroutine,   \* the nudging goroutine of each runtime
          inFlight, lastAttempt, failures   \* mentionAutoStartRecord

backoff == <<inFlight, lastAttempt, failures>>
startVars == <<clock, busMu, mention, record, panes, goroutine, backoff>>

Runtimes == 1..MaxRuntimes
Started == {g \in Runtimes : goroutine[g] # "none"}
Goes(m, phase) == mention' = [mention EXCEPT ![m].phase = phase]

\* The mention being ingested, which has the lock of lockCloudNotificationWait.
Ingested == {m \in Mentions :
    mention[m].phase \in {"storing", "looking", "forgetting", "waiting", "reserving"}}

Init ==
    /\ clock = 0 /\ busMu = Unset
    /\ mention = [m \in Mentions |-> [phase |-> "new", sees |-> 0, by |-> 0]]
    /\ record = 0 /\ panes = {} /\ goroutine = [g \in Runtimes |-> "none"]
    /\ inFlight = FALSE /\ lastAttempt = Unset /\ failures = 0

-----------------------------------------------------------------------------
(* The mention. *)

\* ingestCloudNotification stores the message under the ingest locks, ...
Ingests(m, g) ==
    /\ mention[m].phase = "new" /\ Ingested = {} /\ busMu = Unset
    /\ busMu' = m
    /\ mention' = [mention EXCEPT ![m] = [phase |-> "storing", sees |-> 0, by |-> g]]
    /\ \/ g = 0 /\ UNCHANGED goroutine
       \/ g # 0 /\ goroutine[g] = "idle" /\ goroutine' = [goroutine EXCEPT ![g] = "ingesting"]
    /\ UNCHANGED <<clock, record, panes, backoff>>

\* Mutant: the auto-start runs before the locks are given up.
StoredStillLocked(m) ==
    /\ mention[m].phase = "storing"
    /\ Goes(m, "looking")
    /\ UNCHANGED <<clock, busMu, record, panes, goroutine, backoff>>

\* ... and gives them up before the auto-start runs.
Stored(m) ==
    /\ mention[m].phase = "storing"
    /\ busMu' = Unset
    /\ Goes(m, "looking")
    /\ UNCHANGED <<clock, record, panes, goroutine, backoff>>

\* The ingest returns to its caller.
Returns(m) ==
    goroutine' = [g \in Runtimes |-> IF g = mention[m].by THEN "idle" ELSE goroutine[g]]

\* mentionAutoStartTargetIsLive: a runtime that is alive, or may be, is enough.
LooksAt(m) ==
    /\ mention[m].phase = "looking"
    /\ \/ record = 0 /\ Goes(m, "reserving") /\ UNCHANGED goroutine
       \/ record # 0 /\ Goes(m, "over") /\ Returns(m)
       \/ /\ record \in Runtimes \ panes
          /\ mention' = [mention EXCEPT ![m].phase = "forgetting", ![m].sees = record]
          /\ UNCHANGED goroutine
    /\ UNCHANGED <<clock, busMu, record, panes, backoff>>

\* The runtime is gone: it is forgotten, unless somebody else was first.
Forgets(m) ==
    /\ mention[m].phase = "forgetting"
    /\ \/ /\ record = mention[m].sees
          /\ record' = 0 /\ Goes(m, "waiting") /\ UNCHANGED goroutine
       \/ /\ record \notin {0, mention[m].sees}
          /\ Goes(m, "over") /\ Returns(m) /\ UNCHANGED record
       \/ record = 0 /\ Goes(m, "reserving") /\ UNCHANGED <<record, goroutine>>
    /\ UNCHANGED <<clock, busMu, panes, backoff>>

\* The goroutine of the forgotten runtime has ended.
Forgotten(m) ==
    /\ mention[m].phase = "waiting" /\ goroutine[mention[m].sees] = "done"
    /\ Goes(m, "reserving")
    /\ UNCHANGED <<clock, busMu, record, panes, goroutine, backoff>>

\* The cooldown doubles with every failure in a row, from 30 seconds to 5 minutes.
CooldownFor(n) == IF n >= 4 THEN 10 ELSE 2 ^ n

Cooled == lastAttempt = Unset \/ clock - lastAttempt >= CooldownFor(failures)

\* Mutant: only the cooldown is looked at.
ReservesByClock(m) ==
    /\ mention[m].phase = "reserving"
    /\ IF Cooled
       THEN inFlight' = TRUE /\ lastAttempt' = clock /\ Goes(m, "launching")
       ELSE Goes(m, "over") /\ UNCHANGED <<inFlight, lastAttempt>>
    /\ Returns(m)
    /\ UNCHANGED <<clock, busMu, record, panes, failures>>

\* reserveMentionAutoStart, under mentionAutoStartMu.
Reserves(m) ==
    /\ mention[m].phase = "reserving"
    /\ IF ~inFlight /\ Cooled
       THEN inFlight' = TRUE /\ lastAttempt' = clock /\ Goes(m, "launching")
       ELSE Goes(m, "over") /\ UNCHANGED <<inFlight, lastAttempt>>
    /\ Returns(m)
    /\ UNCHANGED <<clock, busMu, record, panes, failures>>

\* `comment run` starts a runtime where none is alive.
Starts ==
    \E g \in Runtimes \ Started :
        /\ record \notin panes /\ Started = 1..(g - 1)
        /\ record' = g /\ panes' = panes \cup {g}
        /\ goroutine' = [goroutine EXCEPT ![g] = "idle"]

LaunchStarts(m) ==
    /\ mention[m].phase = "launching"
    /\ Goes(m, "launched")
    /\ \/ record \in panes /\ UNCHANGED <<record, panes, goroutine>>
       \/ Starts
    /\ UNCHANGED <<clock, busMu, backoff>>

\* The user runs it.
UserRuns ==
    /\ Starts
    /\ UNCHANGED <<clock, busMu, mention, backoff>>

\* finishMentionAutoStart. Failures beyond the fourth make no difference.
Finishes(m, failed) ==
    /\ Goes(m, "over")
    /\ inFlight' = FALSE
    /\ failures' = IF ~failed THEN 0 ELSE IF failures < 4 THEN failures + 1 ELSE 4
    /\ UNCHANGED <<clock, busMu, record, panes, goroutine, lastAttempt>>

LaunchSucceeds(m) == mention[m].phase = "launched" /\ Finishes(m, FALSE)

\* It may also fail, or run into its time limit, when the runtime has started.
LaunchFails(m) ==
    /\ mention[m].phase \in {"launching", "launched"}
    /\ Finishes(m, TRUE)

-----------------------------------------------------------------------------
(* The runtime and its goroutine. *)

PaneDies(g) ==
    /\ g \in panes /\ panes' = panes \ {g}
    /\ UNCHANGED <<clock, busMu, mention, record, goroutine, backoff>>

\* nudgeTransientReadyQueueHead takes busMu, which it cannot give up waiting for.
Nudges(g) ==
    /\ goroutine[g] = "idle"
    /\ goroutine' = [goroutine EXCEPT ![g] = "locking"]
    /\ UNCHANGED <<clock, busMu, mention, record, panes, backoff>>

NudgeLocks(g) ==
    /\ goroutine[g] = "locking" /\ busMu = Unset
    /\ busMu' = g /\ goroutine' = [goroutine EXCEPT ![g] = "nudging"]
    /\ UNCHANGED <<clock, mention, record, panes, backoff>>

NudgeUnlocks(g) ==
    /\ goroutine[g] = "nudging"
    /\ busMu' = Unset /\ goroutine' = [goroutine EXCEPT ![g] = "idle"]
    /\ UNCHANGED <<clock, mention, record, panes, backoff>>

\* Forgotten, or with its terminal gone, it ends, and forgets its own runtime.
GoroutineEnds(g) ==
    /\ goroutine[g] = "idle" /\ (g \notin panes \/ record # g)
    /\ goroutine' = [goroutine EXCEPT ![g] = "done"]
    /\ record' = IF record = g THEN 0 ELSE record
    /\ UNCHANGED <<clock, busMu, mention, panes, backoff>>

TimePasses ==
    /\ clock < MaxClock /\ clock' = clock + 1
    /\ UNCHANGED <<busMu, mention, record, panes, goroutine, backoff>>

-----------------------------------------------------------------------------

MentionGoesOn(m) ==
    \/ Stored(m) \/ LooksAt(m) \/ Forgets(m) \/ Forgotten(m) \/ Reserves(m)
    \/ LaunchStarts(m) \/ LaunchSucceeds(m) \/ LaunchFails(m)

Next ==
    \/ TimePasses \/ UserRuns
    \/ \E m \in Mentions : MentionGoesOn(m) \/ \E g \in Runtimes \cup {0} : Ingests(m, g)
    \/ \E g \in Runtimes : PaneDies(g) \/ Nudges(g) \/ NudgeLocks(g)
                           \/ NudgeUnlocks(g) \/ GoroutineEnds(g)

\* Goroutines go on when they can; a contended mutex goes to who has waited.
Fairness ==
    /\ \A m \in Mentions : SF_startVars(Ingests(m, 0)) /\ WF_startVars(MentionGoesOn(m))
    /\ \A g \in Runtimes : SF_startVars(NudgeLocks(g)) /\ WF_startVars(NudgeUnlocks(g))
                           /\ SF_startVars(GoroutineEnds(g))

Spec == Init /\ [][Next]_startVars
FairSpec == Spec /\ Fairness

-----------------------------------------------------------------------------
(* Properties. *)

ASTypeOK ==
    /\ clock \in 0..MaxClock
    /\ busMu \in {m \in Mentions : mention[m].phase = "storing"}
                \cup {g \in Runtimes : goroutine[g] = "nudging"} \cup {Unset}
    /\ mention \in [Mentions -> [phase : {"new", "storing", "looking", "forgetting",
                                          "waiting", "reserving", "launching",
                                          "launched", "over"},
                                 sees : Runtimes \cup {0}, by : Runtimes \cup {0}]]
    /\ record \in Runtimes \cup {0} /\ panes \subseteq Runtimes
    /\ goroutine \in [Runtimes -> {"none", "idle", "locking", "nudging", "ingesting", "done"}]
    /\ inFlight \in BOOLEAN /\ lastAttempt \in 0..MaxClock \cup {Unset}
    /\ failures \in 0..4

\* A flurry of mentions makes one launch: never two at a time, also when a launch
\* takes longer than the cooldown.
OneLaunchAtATime ==
    Cardinality({m \in Mentions : mention[m].phase \in {"launching", "launched"}}) <= 1

\* A goroutine that waits for its own end.
WaitsForItself(m) == mention[m].phase = "waiting" /\ mention[m].by = mention[m].sees

\* No mention hangs the daemon: each is stored, and whatever it waits for, a lock,
\* the goroutine of a runtime that it forgets, or a launch, comes. (Unless the
\* goroutine is the one that ingests the mention.)
EveryMentionEnds ==
    \A m \in Mentions : <>(mention[m].phase = "over" \/ \E n \in Mentions : WaitsForItself(n))

\* The auto-start never blocks its caller, as its comment says
\* (mention_autostart.go:89): whoever ingested the mention gets on.
CallerGoesOn ==
    \A m \in Mentions : mention[m].phase = "looking" ~> m \notin Ingested
=============================================================================
