------------------------------ MODULE Sessions ------------------------------
(***************************************************************************)
(* The managed sessions of one bot: their records, their terminals, the    *)
(* daily reset and the nudges (daemon.go, sessions.go, repair.go).  Every  *)
(* operation holds sessionMu; it is taken through its writes one at a      *)
(* time, so that the daemon may die, and a terminal end, between any two.  *)
(* A nudge that meets a task for a target that is gone releases sessionMu  *)
(* and takes it again: it is parked, with its record in memory.  Owners    *)
(* and the cloud move the bot's message without sessionMu.                 *)
(***************************************************************************)
EXTENDS Naturals

CONSTANTS
    MaxSessions,    \* bound: sessions, numbered in the order of creation
    Legacy,         \* those that are there at the start
    Renamed,        \* those of them that carry labels of before a rename
    Bmux,           \* those on the bmux host, the others are on tmux
    Cap,            \* automaticNudgeMaxAttempts
    None,
    MaxDay,         \* bound: days, each beginning at the hour of the reset
    MaxEvents       \* bound: crashes, ended terminals, failures, stops

Sessions == 1 .. MaxSessions

ASSUME SessionsAssumption ==
    /\ MaxSessions \in Nat
    /\ Legacy \subseteq Sessions
    /\ Renamed \subseteq Legacy
    /\ Bmux \subseteq Sessions
ASSUME CapAssumption == Cap \in Nat \ {0}
ASSUME NoneAssumption == None \notin Nat
ASSUME BoundAssumption == MaxDay \in Nat /\ MaxEvents \in Nat

VARIABLES
    rec,        \* the records on disk
    pane,       \* does the terminal of a session run its agent?
    message,    \* the bot's message: none, ready or claimed
    holder,     \* the session that claims it
    logs,       \* days whose handoff log exists
    waiting,    \* sessions whose NextEligibleAt lies ahead
    overdue,    \* the deadline of the requested reset has passed
    day,
    up,         \* the daemon runs
    op,         \* the operation that holds sessionMu
    parked,     \* a nudge that has released it
    events

world == <<message, holder, logs, waiting, overdue, day>>
vars == <<rec, pane, world, up, op, parked, events>>

Blank == [state |-> "none", born |-> 0, reset |-> "none", date |-> 0,
          prompted |-> FALSE, nudges |-> 0]
Record == [state : {"none", "starting", "alive", "stale", "dead"},
           born : 0 .. MaxDay,
           reset : {"none", "requested", "replacing", "completed"},
           date : 0 .. MaxDay, prompted : BOOLEAN, nudges : 0 .. Cap]

NoOp == [kind |-> "none", at |-> "idle", cur |-> None, todo |-> {},
         live |-> {}, old |-> None, next |-> "end", was |-> "none",
         mem |-> Blank, first |-> None]
Kinds == {"none", "dispatch", "reset", "complete", "stop", "status", "receive",
          "repair", "next", "manual", "reuse"}
Places == {"idle", "sweep", "mark", "clean", "free", "fenceKill", "relaunch",
           "relaunchUp", "relaunchAlive", "register", "launch", "activate",
           "pending", "request", "prompt", "prompted", "log", "die", "dieKill",
           "dieFree", "record", "stop", "stopKill", "sync", "head", "send",
           "type", "count"}
Operation == [kind : Kinds, at : Places, cur : Sessions \union {None},
              todo : SUBSET Sessions, live : SUBSET Sessions,
              old : Sessions \union {None},
              next : {"end", "sweep", "pending", "send", "sync"},
              was : {"none", "starting", "alive", "stale", "dead"},
              mem : Record, first : Record \union {None}]

SSTypeOK ==
    /\ rec \in [Sessions -> Record]
    /\ pane \in [Sessions -> BOOLEAN]
    /\ message \in {"none", "ready", "claimed"}
    /\ holder \in Sessions \union {None}
    /\ holder # None <=> message = "claimed"
    /\ logs \subseteq 0 .. MaxDay
    /\ waiting \subseteq Sessions
    /\ overdue \in BOOLEAN
    /\ day \in 0 .. MaxDay
    /\ up \in BOOLEAN
    /\ op \in Operation
    /\ parked \in Operation \union {None}
    /\ events \in 0 .. MaxEvents

\* Sessions of before a rename answer for the same bot, whose scope matches
\* them by its stable identity; what asks for the bot's labels misses them.
SSInit ==
    /\ rec = [s \in Sessions |->
                IF s \in Legacy THEN [Blank EXCEPT !.state = "alive"] ELSE Blank]
    /\ pane = [s \in Sessions |-> s \in Legacy]
    /\ message = "none"
    /\ holder = None
    /\ logs = {}
    /\ waiting = {}
    /\ overdue = FALSE
    /\ day = 0
    /\ up = TRUE
    /\ op = NoOp
    /\ parked = None
    /\ events = 0

-----------------------------------------------------------------------------
(* The machinery of an operation.                                           *)

IsNewest(s, set) == s \in set /\ \A r \in set : r <= s
Known == {s \in Sessions : rec[s].state \in {"starting", "alive", "stale"}}
Running(s) == rec[s].state \in {"starting", "alive"}
Resetting(r) == r.reset = "requested"
Exhausted == \A s \in Sessions : rec[s].state # "none"

Event == events < MaxEvents /\ events' = events + 1
Begin(operation) == up /\ op = NoOp /\ op' = operation
Does(kind, place, s) == [NoOp EXCEPT !.kind = kind, !.at = place, !.cur = s]
Sweeps(operation) ==
    [operation EXCEPT !.at = "sweep", !.todo = Known, !.live = {}]
At(place) == op.at = place
Go(place) == op' = [op EXCEPT !.at = place]
End == op' = NoOp

\* A record is written whole: the second nudge of a dispatch writes the one
\* that was in memory before the first gave sessionMu up.
Held(s) == IF op.kind = "reuse" /\ s = op.cur THEN op.mem ELSE rec[s]
Writes(s, state) == rec' = [rec EXCEPT ![s] = [Held(s) EXCEPT !.state = state]]
Kills(s) == pane' = [pane EXCEPT ![s] = FALSE]

\* An inspection, a write or a request of the operation fails, and it answers
\* with an error.
Fails ==
    /\ op.at \notin {"idle", "launch", "activate", "relaunchUp", "relaunchAlive"}
    /\ Event
    /\ End
    /\ UNCHANGED <<rec, pane, world, up, parked>>

\* releaseSessionClaimsLocked: the message is free here, or with the cloud if its
\* lease is over; one that an ack or a release is on its way for is left alone.
Frees(s) ==
    \/ /\ holder = s
       /\ message' \in {"ready", "none"}
       /\ holder' = None
       /\ UNCHANGED <<logs, waiting, overdue, day>>
    \/ UNCHANGED world

\* markSessionStaleLocked: the record, the terminal of a bmux session, the
\* claims.
Mark ==
    /\ At("mark")
    /\ Writes(op.cur, "stale")
    /\ Go("clean")
    /\ UNCHANGED <<pane, world, up, parked, events>>

Clean ==
    /\ At("clean")
    /\ IF op.cur \in Bmux THEN Kills(op.cur) ELSE UNCHANGED pane
    /\ Go("free")
    /\ UNCHANGED <<rec, world, up, parked, events>>

\* A dispatch remembers that the sweep has released a message.
Free ==
    /\ At("free")
    /\ Frees(op.cur)
    /\ IF op.next = "sweep"
       THEN op' = [op EXCEPT !.at = "sweep", !.next = "end", !.was = "none",
                     !.cur = None,
                     !.first = IF op.kind = "dispatch" /\ holder' # holder
                               THEN Blank ELSE @]
       ELSE End
    /\ UNCHANGED <<rec, pane, up, parked, events>>

\* The lease of its claim is over and the cloud refuses the release for good: the
\* session is marked stale as by the repair, also one that was just stopped.
FreeRefused ==
    /\ op.at \in {"free", "dieFree"}
    /\ holder = op.cur
    /\ rec[op.cur].state # "stale"
    /\ Event
    /\ rec' = [rec EXCEPT ![op.cur].state = "stale"]
    /\ IF op.cur \in Bmux THEN Kills(op.cur) ELSE UNCHANGED pane
    /\ UNCHANGED <<world, up, op, parked>>

-----------------------------------------------------------------------------
(* recoverLiveBmuxSessionLocked: a bmux session whose agent has ended is     *)
(* launched again under its own record.                                     *)

Relaunchable(s) == s \in Bmux /\ s \notin Renamed
Gone(next) ==
    IF Relaunchable(op.cur)
    THEN op' = [op EXCEPT !.at = "relaunch", !.next = next]
    ELSE op' = [op EXCEPT !.at = "mark", !.next = "end"]

Relaunch ==
    /\ At("relaunch")
    /\ Writes(op.cur, "starting")
    /\ Go("relaunchUp")
    /\ UNCHANGED <<pane, world, up, parked, events>>

RelaunchUp ==
    /\ At("relaunchUp")
    /\ pane' = [pane EXCEPT ![op.cur] = TRUE]
    /\ Go("relaunchAlive")
    /\ UNCHANGED <<rec, world, up, parked, events>>

RelaunchAlive ==
    /\ At("relaunchAlive")
    /\ pane[op.cur]
    /\ Writes(op.cur, "alive")
    /\ op' = [op EXCEPT !.at = op.next, !.next = "end", !.mem.state = "alive"]
    /\ UNCHANGED <<pane, world, up, parked, events>>

\* The failure ends the operation, once the session is stale.
RelaunchFails ==
    /\ op.at \in {"relaunchUp", "relaunchAlive"}
    /\ IF At("relaunchAlive") /\ ~pane[op.cur] THEN UNCHANGED events ELSE Event
    /\ Kills(op.cur)
    /\ op' = [op EXCEPT !.at = "mark", !.next = "end"]
    /\ UNCHANGED <<rec, world, up, parked>>

-----------------------------------------------------------------------------
(* reconcileLiveSessionForScopeLocked, one record after the other.          *)

SweepStale(s) ==
    /\ At("sweep")
    /\ s \in op.todo
    /\ rec[s].state = "stale"
    /\ op' = [op EXCEPT !.at = "clean", !.cur = s, !.todo = @ \ {s},
                        !.next = "sweep"]
    /\ UNCHANGED <<rec, pane, world, up, parked, events>>

SweepLive(s) ==
    /\ At("sweep")
    /\ s \in op.todo
    /\ Running(s)
    /\ pane[s]
    /\ Writes(s, "alive")
    /\ op' = [op EXCEPT !.todo = @ \ {s}, !.live = @ \union {s}]
    /\ UNCHANGED <<pane, world, up, parked, events>>

\* The bot's runtime or model was changed, or the terminal runs something else.
SweepUnfit(s) ==
    /\ At("sweep")
    /\ s \in op.todo
    /\ Running(s)
    /\ pane[s]
    /\ Event
    /\ op' = [op EXCEPT !.at = "mark", !.cur = s, !.todo = @ \ {s},
                        !.next = "sweep"]
    /\ UNCHANGED <<rec, pane, world, up, parked>>

\* One that is launched again stays on the list, and is looked at again.
SweepGone(s) ==
    /\ At("sweep")
    /\ s \in op.todo
    /\ Running(s)
    /\ ~pane[s]
    /\ op' = [op EXCEPT !.at = IF Relaunchable(s) THEN "relaunch" ELSE "mark",
                        !.cur = s, !.next = "sweep",
                        !.todo = IF Relaunchable(s) THEN @ ELSE @ \ {s}]
    /\ UNCHANGED <<rec, pane, world, up, parked, events>>

\* fenceDuplicateLiveSessionsLocked keeps the newest.
Fence ==
    /\ At("sweep")
    /\ op.todo = {}
    /\ \E s, kept \in op.live :
         /\ IsNewest(kept, op.live)
         /\ IsNewest(s, op.live \ {kept})
         /\ Writes(s, "stale")
         /\ op' = [op EXCEPT !.at = "fenceKill", !.cur = s, !.was = rec[s].state,
                             !.live = @ \ {s}, !.next = "sweep"]
    /\ UNCHANGED <<pane, world, up, parked, events>>

FenceKill ==
    /\ At("fenceKill")
    /\ Kills(op.cur)
    /\ Go("free")
    /\ UNCHANGED <<rec, world, up, parked, events>>

\* The kill fails: what the record was is written back, if that succeeds.
KillFails ==
    /\ op.at \in {"fenceKill", "dieKill", "stopKill"}
    /\ pane[op.cur] \/ op.cur \in Bmux
    /\ Event
    /\ \/ UNCHANGED rec
       \/ rec' = [rec EXCEPT ![op.cur].state = op.was,
                             ![op.cur].reset = IF At("dieKill")
                                               THEN "requested" ELSE @]
    /\ End
    /\ UNCHANGED <<pane, world, up, parked>>

Swept == At("sweep") /\ op.todo = {}
Kept(s) == op.live = {s}

\* No session is left: one is created.
SweptBare ==
    /\ Swept
    /\ op.live = {}
    /\ op.kind = "dispatch" \/ op.old # None
    /\ IF Exhausted THEN End ELSE Go("register")
    /\ UNCHANGED <<rec, pane, world, up, parked, events>>

\* A dispatch nudges the queue's head, twice if the sweep released a message
\* and the first nudge comes to nothing; a start nudges once, if at all.
SweptForDispatch ==
    /\ Swept
    /\ op.kind = "dispatch"
    /\ \E s \in Sessions :
         /\ Kept(s)
         /\ \/ End
            \/ \E again \in {None} \union (IF op.first = None THEN {} ELSE {rec[s]}) :
                 /\ ~Resetting(rec[s])
                 /\ op' = [op EXCEPT !.at = "head", !.cur = s, !.mem = rec[s],
                                     !.first = again, !.live = {}]
    /\ UNCHANGED <<rec, pane, world, up, parked, events>>

SweptForReset ==
    /\ Swept
    /\ op.kind = "reset"
    /\ op.old = None
    /\ \/ op.live = {} /\ End
       \/ \E s \in Sessions :
            /\ Kept(s)
            /\ IF rec[s].born >= day THEN End
               ELSE op' = [op EXCEPT !.at = "request", !.cur = s, !.live = {}]
    /\ UNCHANGED <<rec, pane, world, up, parked, events>>

SweptForReplacement ==
    /\ Swept
    /\ op.old # None
    /\ \E s \in Sessions :
         Kept(s) /\ op' = [op EXCEPT !.at = "record", !.cur = s, !.live = {}]
    /\ UNCHANGED <<rec, pane, world, up, parked, events>>

-----------------------------------------------------------------------------
(* createAndLaunchSessionLocked.                                            *)

Register ==
    /\ At("register")
    /\ \E s \in Sessions :
         /\ rec[s].state = "none"
         /\ \A older \in 1 .. (s - 1) : rec[older].state # "none"
         /\ rec' = [rec EXCEPT ![s] = [Blank EXCEPT !.state = "starting",
                                                   !.born = day]]
         /\ op' = [op EXCEPT !.at = "launch", !.cur = s]
    /\ UNCHANGED <<pane, world, up, parked, events>>

Launch ==
    /\ At("launch")
    /\ pane' = [pane EXCEPT ![op.cur] = TRUE]
    /\ Go("activate")
    /\ UNCHANGED <<rec, world, up, parked, events>>

Activate ==
    /\ At("activate")
    /\ pane[op.cur]
    /\ Writes(op.cur, "alive")
    /\ IF op.old # None
       THEN Go("record")
       ELSE \E again \in {None, rec'[op.cur]} :
              op' = [op EXCEPT !.at = "head", !.mem = rec'[op.cur],
                               !.first = again]
    /\ UNCHANGED <<pane, world, up, parked, events>>

\* The terminal is killed and the record dead, whatever step fails; it is left
\* as it is when its own write is the step that fails.
LaunchFails ==
    /\ op.at \in {"launch", "activate"}
    /\ Kills(op.cur)
    /\ \/ /\ IF At("activate") /\ ~pane[op.cur] THEN UNCHANGED events ELSE Event
          /\ Writes(op.cur, "dead")
       \/ /\ At("activate")
          /\ Event
          /\ UNCHANGED rec
    /\ End
    /\ UNCHANGED <<world, up, parked>>

-----------------------------------------------------------------------------
(* The daily reset: the loop, which polls, and the agent's own command.      *)

Labelled == Sessions \ Renamed
OfToday(phases) == {s \in Labelled : rec[s].reset \in phases /\ rec[s].date = day}
Pending == OfToday({"requested", "replacing"})

StartReset ==
    /\ OfToday({"completed"}) = {}
    /\ \/ Pending = {} /\ Begin(Sweeps(Does("reset", "sweep", None)))
       \/ \E s \in Sessions :
            IsNewest(s, Pending) /\ Begin(Does("reset", "pending", s))
    /\ UNCHANGED <<rec, pane, world, up, parked, events>>

PendingReplacing ==
    /\ At("pending")
    /\ rec[op.cur].reset = "replacing"
    /\ Go("dieFree")
    /\ UNCHANGED <<rec, pane, world, up, parked, events>>

PendingGone ==
    /\ At("pending")
    /\ Resetting(rec[op.cur])
    /\ Running(op.cur)
    /\ ~pane[op.cur]
    /\ IF Relaunchable(op.cur) THEN Gone("pending") ELSE Go("log")
    /\ UNCHANGED <<rec, pane, world, up, parked, events>>

\* Mutant: the agent has no handoff to write any more.
PendingOverUnlogged ==
    /\ At("pending")
    /\ Resetting(rec[op.cur])
    /\ ~Running(op.cur) \/ (pane[op.cur] /\ overdue)
    /\ Go("die")
    /\ UNCHANGED <<rec, pane, world, up, parked, events>>

\* Mutant: an agent that runs is waited for.
PendingOverEnded ==
    /\ At("pending")
    /\ Resetting(rec[op.cur])
    /\ ~Running(op.cur)
    /\ Go("log")
    /\ UNCHANGED <<rec, pane, world, up, parked, events>>

PendingOver ==
    /\ At("pending")
    /\ Resetting(rec[op.cur])
    /\ ~Running(op.cur) \/ (pane[op.cur] /\ overdue)
    /\ Go("log")
    /\ UNCHANGED <<rec, pane, world, up, parked, events>>

PendingLive ==
    /\ At("pending")
    /\ Resetting(rec[op.cur])
    /\ Running(op.cur)
    /\ pane[op.cur]
    /\ ~overdue
    /\ IF rec[op.cur].prompted THEN End ELSE Go("prompt")
    /\ UNCHANGED <<rec, pane, world, up, parked, events>>

Request ==
    /\ At("request")
    /\ rec' = [rec EXCEPT ![op.cur].reset = "requested", ![op.cur].date = day,
                          ![op.cur].prompted = FALSE]
    /\ overdue' = FALSE
    /\ Go("prompt")
    /\ UNCHANGED <<pane, message, holder, logs, waiting, day, up, parked, events>>

PromptMissing ==
    /\ At("prompt")
    /\ ~pane[op.cur]
    /\ Go("log")
    /\ UNCHANGED <<rec, pane, world, up, parked, events>>

\* A busy agent is asked at a later poll.
PromptBusy ==
    /\ At("prompt")
    /\ pane[op.cur]
    /\ End
    /\ UNCHANGED <<rec, pane, world, up, parked, events>>

PromptTyped ==
    /\ At("prompt")
    /\ pane[op.cur]
    /\ Go("prompted")
    /\ UNCHANGED <<rec, pane, world, up, parked, events>>

Prompted ==
    /\ At("prompted")
    /\ rec' = [rec EXCEPT ![op.cur].prompted = TRUE]
    /\ End
    /\ UNCHANGED <<pane, world, up, parked, events>>

\* The fallback log, unless the agent has written its own.
Log ==
    /\ At("log")
    /\ logs' = logs \union {rec[op.cur].date}
    /\ Go("die")
    /\ UNCHANGED <<rec, pane, message, holder, waiting, overdue, day, up, parked,
                   events>>

Die ==
    /\ At("die")
    /\ rec' = [rec EXCEPT ![op.cur].state = "dead", ![op.cur].reset = "replacing"]
    /\ op' = [op EXCEPT !.at = "dieKill", !.was = rec[op.cur].state]
    /\ UNCHANGED <<pane, world, up, parked, events>>

DieKill ==
    /\ At("dieKill")
    /\ Kills(op.cur)
    /\ Go("dieFree")
    /\ UNCHANGED <<rec, world, up, parked, events>>

DieFree ==
    /\ At("dieFree")
    /\ Frees(op.cur)
    /\ op' = Sweeps([op EXCEPT !.old = op.cur])
    /\ UNCHANGED <<rec, pane, up, parked, events>>

Replaced ==
    /\ At("record")
    /\ rec' = [rec EXCEPT ![op.old].state = "dead", ![op.old].reset = "completed"]
    /\ op' = [op EXCEPT !.at = "head", !.old = None, !.mem = rec[op.cur]]
    /\ UNCHANGED <<pane, world, up, parked, events>>

\* The agent of a session, dead or alive, says that its log is written.
Complete(s) ==
    /\ s \in Labelled
    /\ rec[s].state \in {"starting", "alive", "dead"}
    /\ \/ /\ Resetting(rec[s])
          /\ rec[s].date \in logs
          /\ Begin(Does("complete", "die", s))
       \/ /\ rec[s].reset = "replacing"
          /\ Begin(Does("complete", "dieFree", s))
    /\ UNCHANGED <<rec, pane, world, up, parked, events>>

AgentLogs(s) ==
    /\ pane[s]
    /\ Resetting(rec[s])
    /\ rec[s].prompted
    /\ rec[s].date \notin logs
    /\ logs' = logs \union {rec[s].date}
    /\ UNCHANGED <<rec, pane, message, holder, waiting, overdue, day, up, op, parked,
                   events>>

-----------------------------------------------------------------------------
(* The owner stops a session.                                               *)

StopSession(s) ==
    /\ rec[s].state # "none"
    /\ Event
    /\ Begin(Does("stop", "stop", s))
    /\ UNCHANGED <<rec, pane, world, up, parked>>

Stop ==
    /\ At("stop")
    /\ Writes(op.cur, "dead")
    /\ op' = [op EXCEPT !.at = "stopKill", !.was = rec[op.cur].state]
    /\ UNCHANGED <<pane, world, up, parked, events>>

StopKill ==
    /\ At("stopKill")
    /\ Kills(op.cur)
    /\ Go("free")
    /\ UNCHANGED <<rec, world, up, parked, events>>

-----------------------------------------------------------------------------
(* What looks at one session: its status, a receive by its agent, the        *)
(* repair of its claim when the daemon starts.                               *)

LookAt(s) ==
    /\ Running(s)
    /\ \E kind \in {"status", "receive"} : Begin(Does(kind, "sync", s))
    /\ UNCHANGED <<rec, pane, world, up, parked, events>>

\* A receive claims the message, if the session is not being reset.
SyncLive ==
    /\ At("sync")
    /\ pane[op.cur]
    /\ Writes(op.cur, "alive")
    /\ IF op.kind = "receive" /\ ~Resetting(rec[op.cur]) /\ message = "ready"
       THEN /\ message' = "claimed"
            /\ holder' = op.cur
            /\ UNCHANGED <<logs, waiting, overdue, day>>
       ELSE UNCHANGED world
    /\ End
    /\ UNCHANGED <<pane, up, parked, events>>

\* Only a receive and the repair launch a bmux session again.
SyncGone ==
    /\ At("sync")
    /\ ~pane[op.cur]
    /\ IF op.kind = "status" THEN Go("mark") ELSE Gone("sync")
    /\ UNCHANGED <<rec, pane, world, up, parked, events>>

SyncUnfit ==
    /\ At("sync")
    /\ pane[op.cur]
    /\ Event
    /\ Go("mark")
    /\ UNCHANGED <<rec, pane, world, up, parked>>

\* Mutant: a session whose claim is repaired is taken for alive.
RepairsAny ==
    /\ holder # None
    /\ op' = Does("repair", "sync", holder)
    /\ UNCHANGED <<message, holder, events>>

\* reconcileLocked, of the one claim: whether that of a live session is
\* abandoned is looked into, that of a stale one is free here.  A claim of one
\* that is not alive, one whose lease is over and one with a pending ack go to
\* the cloud; where it refuses for good, the holder is marked stale, whatever
\* it was, also when it was dead.
Repairs ==
    /\ holder # None
    /\ \/ /\ rec[holder].state = "alive"
          /\ op' = Does("repair", "sync", holder)
          /\ UNCHANGED <<message, holder, events>>
       \/ /\ rec[holder].state = "stale"
          /\ op' = Does("repair", "clean", holder)
          /\ UNCHANGED <<message, holder, events>>
       \/ /\ message' = "none"
          /\ holder' = None
          /\ UNCHANGED <<op, events>>
       \/ /\ Event
          /\ op' = Does("repair", "mark", holder)
          /\ UNCHANGED <<message, holder>>

\* A daemon that starts repairs before it serves; an operation the cloud does
\* not answer is left for the next time.
Restart ==
    /\ ~up
    /\ up' = TRUE
    /\ \/ Repairs
       \/ holder = None /\ UNCHANGED <<message, holder, op, events>>
       \/ Event /\ UNCHANGED <<message, holder, op>>
    /\ UNCHANGED <<rec, pane, logs, waiting, overdue, day, parked>>

\* repairBus: the same on demand.
Repair ==
    /\ up
    /\ op = NoOp
    /\ Repairs
    /\ UNCHANGED <<rec, pane, logs, waiting, overdue, day, up, parked>>

\* The session has done with its message; the ack it asked for while it ran may
\* land later, without sessionMu.
Acknowledge(s) ==
    /\ up
    /\ holder = s
    /\ message' = "none"
    /\ holder' = None
    /\ UNCHANGED <<rec, pane, logs, waiting, overdue, day, up, op, parked, events>>

-----------------------------------------------------------------------------
(* Nudges: the automatic ones of the queue's head, and the owner's.          *)

Dispatch ==
    /\ message = "ready"
    /\ Begin(Sweeps(Does("dispatch", "sweep", None)))
    /\ UNCHANGED <<rec, pane, world, up, parked, events>>

\* A session that has done with a message is nudged about the next.
NudgeNext(s) ==
    /\ rec[s].state = "alive"
    /\ ~Resetting(rec[s])
    /\ Begin([Does("next", "head", s) EXCEPT !.mem = rec[s]])
    /\ UNCHANGED <<rec, pane, world, up, parked, events>>

NudgeSession(s) ==
    /\ s \in Labelled
    /\ rec[s].state = "alive"
    /\ ~Resetting(rec[s])
    /\ message = "ready"
    /\ Begin([Does("manual", "send", s) EXCEPT !.mem = rec[s]])
    /\ UNCHANGED <<rec, pane, world, up, parked, events>>

\* cloudMessageAutoNudgeBlocked: an alive session has been nudged often
\* enough, or not long ago.
Blocked ==
    \E s \in Labelled :
        rec[s].state = "alive" /\ (rec[s].nudges >= Cap \/ s \in waiting)

\* Nothing to send: a dispatch that has a first record tries a second time,
\* with that record.
NothingSent(operation) ==
    IF operation.first = None THEN NoOp
    ELSE [operation EXCEPT !.at = "head", !.kind = "reuse",
                           !.mem = operation.first, !.first = None]

\* The head is for a target that is gone: its message goes back to the cloud,
\* without sessionMu.
HeadStale ==
    /\ At("head")
    /\ parked = None
    /\ ~Resetting(op.mem)
    /\ op.cur \in Labelled
    /\ Event
    /\ parked' = op
    /\ End
    /\ UNCHANGED <<rec, pane, world, up>>

Welcomes(r) == r.state = "alive" /\ ~Resetting(r)

\* Mutant: the record of before is as good.
RefreshNothing ==
    /\ up
    /\ op = NoOp
    /\ parked # None
    /\ op' = parked
    /\ parked' = None
    /\ UNCHANGED <<rec, pane, world, up, events>>

Refresh ==
    /\ up
    /\ op = NoOp
    /\ parked # None
    /\ op' = IF Welcomes(rec[parked.cur])
             THEN [parked EXCEPT !.mem = rec[parked.cur]]
             ELSE NothingSent(parked)
    /\ parked' = None
    /\ UNCHANGED <<rec, pane, world, up, events>>

HeadNothing ==
    /\ At("head")
    /\ \/ Resetting(op.mem)
       \/ op.cur \in Renamed
       \/ message # "ready"
       \/ Blocked
    /\ op' = IF holder = op.cur THEN NoOp ELSE NothingSent(op)
    /\ UNCHANGED <<rec, pane, world, up, parked, events>>

HeadReady ==
    /\ At("head")
    /\ ~Resetting(op.mem)
    /\ op.cur \in Labelled
    /\ message = "ready"
    /\ ~Blocked
    /\ Go("send")
    /\ UNCHANGED <<rec, pane, world, up, parked, events>>

\* sendSessionNudgeLocked looks at the record in memory, and at the message
\* again.
SendRefused ==
    /\ At("send")
    /\ ~Welcomes(op.mem) \/ message # "ready"
    /\ End
    /\ UNCHANGED <<rec, pane, world, up, parked, events>>

MaySend == At("send") /\ Welcomes(op.mem) /\ message = "ready"

SendGone ==
    /\ MaySend
    /\ ~pane[op.cur]
    /\ Gone("send")
    /\ UNCHANGED <<rec, pane, world, up, parked, events>>

\* The agent is at work, or its terminal shows something else.
SendBusy ==
    /\ MaySend
    /\ pane[op.cur]
    /\ op' = NothingSent(op)
    /\ UNCHANGED <<rec, pane, world, up, parked, events>>

\* An agent that waits for its messages is not typed to.
SendSkip ==
    /\ MaySend
    /\ pane[op.cur]
    /\ rec' = [rec EXCEPT ![op.cur] = [op.mem EXCEPT !.nudges = 0]]
    /\ waiting' = waiting \ {op.cur}
    /\ End
    /\ UNCHANGED <<pane, message, holder, logs, overdue, day, up, parked, events>>

\* The attempt is recorded before the text is typed.
Send ==
    /\ MaySend
    /\ pane[op.cur]
    /\ rec' = [rec EXCEPT ![op.cur] = op.mem]
    /\ Go("type")
    /\ UNCHANGED <<pane, world, up, parked, events>>

Type ==
    /\ At("type")
    /\ Go(IF pane[op.cur] THEN "count" ELSE "mark")
    /\ UNCHANGED <<rec, pane, world, up, parked, events>>

Count ==
    /\ At("count")
    /\ IF op.kind = "manual"
       THEN /\ rec' = [rec EXCEPT ![op.cur] = [op.mem EXCEPT !.nudges = 0]]
            /\ waiting' = waiting \ {op.cur}
       ELSE /\ rec' = [rec EXCEPT ![op.cur] =
                         [op.mem EXCEPT !.nudges = IF @ < Cap THEN @ + 1 ELSE @]]
            /\ waiting' = waiting \union {op.cur}
    /\ End
    /\ UNCHANGED <<pane, message, holder, logs, overdue, day, up, parked, events>>

-----------------------------------------------------------------------------
(* The rest of the world.                                                   *)

PaneEnds(s) ==
    /\ pane[s]
    /\ Event
    /\ Kills(s)
    /\ UNCHANGED <<rec, world, up, op, parked>>

Crash ==
    /\ up
    /\ Event
    /\ up' = FALSE
    /\ End
    /\ parked' = None
    /\ UNCHANGED <<rec, pane, world>>

\* Minutes pass: back-offs end, and the grace of a reset.
TimePasses ==
    /\ waiting # {} \/ (~overdue /\ \E s \in Sessions : Resetting(rec[s]))
    /\ waiting' = {}
    /\ overdue' = (overdue \/ \E s \in Sessions : Resetting(rec[s]))
    /\ UNCHANGED <<rec, pane, message, holder, logs, day, up, op, parked, events>>

DayPasses ==
    /\ day < MaxDay
    /\ day' = day + 1
    /\ UNCHANGED <<rec, pane, message, holder, logs, waiting, overdue, up, op,
                   parked, events>>

\* A new delivery: no session has been nudged about it.
Anew(r) == [r EXCEPT !.nudges = 0]
Arrive ==
    /\ message = "none"
    /\ op = NoOp
    /\ message' = "ready"
    /\ rec' = [s \in Sessions |-> Anew(rec[s])]
    /\ parked' = IF parked = None \/ parked.first = None THEN parked
                 ELSE [parked EXCEPT !.first = Anew(@)]
    /\ waiting' = {}
    /\ UNCHANGED <<pane, holder, logs, overdue, day, up, op, events>>

OwnerTakes ==
    /\ message = "ready"
    /\ message' = "none"
    /\ UNCHANGED <<rec, pane, holder, logs, waiting, overdue, day, up, op, parked,
                   events>>

-----------------------------------------------------------------------------

\* What the operation under way does when nothing fails.
Steps ==
    \/ Mark \/ Clean \/ Free \/ Relaunch \/ RelaunchUp \/ RelaunchAlive
    \/ RelaunchFails
    \/ \E s \in Sessions : SweepStale(s) \/ SweepLive(s) \/ SweepGone(s)
    \/ Fence \/ FenceKill \/ SweptBare \/ SweptForDispatch \/ SweptForReset
    \/ SweptForReplacement
    \/ Register \/ Launch \/ Activate \/ LaunchFails
    \/ PendingReplacing \/ PendingGone \/ PendingOver \/ PendingLive
    \/ Request \/ PromptMissing \/ PromptBusy \/ PromptTyped \/ Prompted
    \/ Log \/ Die \/ DieKill \/ DieFree \/ Replaced
    \/ Stop \/ StopKill \/ SyncLive \/ SyncGone
    \/ HeadNothing \/ HeadReady \/ SendRefused \/ SendGone \/ SendBusy
    \/ SendSkip \/ Send \/ Type \/ Count

Failures ==
    \/ Fails \/ KillFails \/ FreeRefused \/ SyncUnfit \/ HeadStale
    \/ \E s \in Sessions : SweepUnfit(s)

Requests ==
    \/ Dispatch \/ StartReset \/ Refresh \/ Repair
    \/ \E s \in Sessions :
          \/ Complete(s) \/ StopSession(s) \/ LookAt(s) \/ Acknowledge(s)
          \/ NudgeNext(s) \/ NudgeSession(s)

World ==
    \/ Crash \/ Restart \/ TimePasses \/ DayPasses \/ Arrive \/ OwnerTakes
    \/ \E s \in Sessions : AgentLogs(s) \/ PaneEnds(s)

SSNext == Steps \/ Failures \/ Requests \/ World

SSSpec == SSInit /\ [][SSNext]_vars

\* An operation goes on, the service manager starts the daemon again, the
\* minutes pass; the loop polls every minute, and whoever waits for sessionMu
\* gets it in the end.
SSFairSpec ==
    /\ SSSpec
    /\ WF_vars(Steps)
    /\ WF_vars(Restart)
    /\ WF_vars(TimePasses)
    /\ SF_vars(StartReset)

-----------------------------------------------------------------------------
(* Properties.                                                              *)

\* A session that is asked to write its handoff, or that was stopped, fenced
\* or replaced, gets no nudge (sendSessionNudgeLocked, daemon.go:4466), and an
\* automatic one stops at the cap: judged by the record on disk as the nudge
\* overwrites it, also after the nudge had given up sessionMu.  The second
\* nudge of a dispatch (daemon.go:6090) is left out: it trusts its own record.
PromptsWelcome ==
    [][Send /\ op.kind # "reuse" =>
         /\ Welcomes(rec[op.cur])
         /\ op.kind # "manual" => rec[op.cur].nudges < Cap]_vars

\* A session that was stopped, fenced, replaced or given up never runs again,
\* whatever is under way, except that a kill that fails puts back what the
\* record was (fenceDuplicateLiveSessionLocked, finishDailyResetLocked,
\* stopSession); and what is dead stays dead, unless the cloud refuses to take
\* its claim back (markDeliverySessionRecordStaleLocked).
Restored(s) == KillFails /\ s = op.cur
Marked(s) == ((Mark /\ op.kind = "repair") \/ FreeRefused) /\ s = op.cur
FencedStays ==
    [][\A s \in Sessions :
         \/ op.kind = "reuse" /\ s = op.cur
         \/ Restored(s)
         \/ /\ rec[s].state \in {"stale", "dead"} => rec'[s].state \in {"stale", "dead"}
            /\ rec[s].state = "dead" => rec'[s].state = "dead" \/ Marked(s)]_vars

\* Nobody is killed for the daily reset, through crashes and failed kills,
\* before the log of that day is on disk (finishDailyResetLocked).
ResetHasHandoff ==
    \A s \in Sessions :
        rec[s].reset \in {"replacing", "completed"} => rec[s].date \in logs

\* A reset that is under way ends in a replacement, through crashes, ended
\* terminals and failures, while its day lasts; unless the second nudge of a
\* dispatch wipes it (daemon.go:6090), or the model has no session left.
\* Sessions under old labels are left out: their reset is never found again
\* (dailyResetStateForTargetLocked).
Spent == (\A s \in Sessions : rec[s].state # "none") /\ (\A s \in Sessions : ~Running(s))
ResetEnds == Pending # {} ~> Pending = {} \/ Spent
=============================================================================
