----------------------------- MODULE DaemonSocket -----------------------------
(***************************************************************************)
(* How daemons of one home share its socket path and its lock (StartDaemon *)
(* and Close in daemon.go, daemon_lock_unix.go, daemon_socket_watchdog.go).*)
(* A start looks at the path, clears a stale socket, takes the lock, binds *)
(* and serves; a watchdog binds again when the file is lost; a shutdown    *)
(* removes the file and releases the lock last.  Every look at the path    *)
(* and the removal that follows it are two steps.  The PID file, TCP and   *)
(* what is done between the lock and the bind are left out.                *)
(***************************************************************************)
EXTENDS Naturals

CONSTANTS
    Daemons,        \* processes that may run `comment bus run`
    Service,        \* the one the service manager keeps running
    None,
    MaxFiles,       \* bound: socket files that are made
    MaxEvents       \* bound: signals, kills, lost files, failed binds

ASSUME DaemonsAssumption == Service \in Daemons /\ None \notin Daemons
ASSUME FilesAssumption == MaxFiles \in Nat /\ MaxEvents \in Nat /\ None \notin Nat

VARIABLES
    socket,     \* the file at paths.Socket
    open,       \* files a listener is open on
    lock,       \* the process that holds daemon.lock
    phase,      \* where each process is in StartDaemon or Close
    seen,       \* the file prepareSocketPath has looked at
    mine,       \* socketFileInfo: the file of the installed listener
    watchdog,   \* its watchdog
    fresh,      \* the file of a bind that is not installed
    late,       \* the goroutine of a bind that timed out
    cancelled,  \* shutdownCancel was called
    leaving,    \* the process exits after Close
    made, events

paths == <<socket, open, lock>>
counts == <<made, events>>
process == <<phase, seen, mine, watchdog, fresh, late, cancelled, leaving>>
vars == <<paths, process, counts>>

Files == 1 .. MaxFiles
Starting == {"look", "probe", "compare", "remove", "lock"}
Running == {"bind", "bound", "serve"}
Closing == {"compareOwn", "unlock"}

DSTypeOK ==
    /\ socket \in Files \union {None}
    /\ open \subseteq Files
    /\ lock \in Daemons \union {None}
    /\ \A p \in Daemons : lock = p <=> phase[p] \in Running \union Closing
    /\ phase \in [Daemons -> {"off", "gone"} \union Starting
                                \union Running \union Closing]
    /\ seen \in [Daemons -> Files \union {None}]
    /\ mine \in [Daemons -> Files \union {None}]
    /\ watchdog \in [Daemons -> {"off", "idle", "binding", "bound",
                                 "orphan", "removing"}]
    /\ fresh \in [Daemons -> Files \union {None}]
    /\ late \in [Daemons -> {"no", "hung", "bound"}]
    /\ cancelled \in [Daemons -> BOOLEAN]
    /\ leaving \in [Daemons -> BOOLEAN]
    /\ made \in 0 .. MaxFiles
    /\ events \in 0 .. MaxEvents

DSInit ==
    /\ socket = None
    /\ open = {}
    /\ lock = None
    /\ phase = [p \in Daemons |-> "off"]
    /\ seen = [p \in Daemons |-> None]
    /\ mine = [p \in Daemons |-> None]
    /\ watchdog = [p \in Daemons |-> "off"]
    /\ fresh = [p \in Daemons |-> None]
    /\ late = [p \in Daemons |-> "no"]
    /\ cancelled = [p \in Daemons |-> FALSE]
    /\ leaving = [p \in Daemons |-> FALSE]
    /\ made = 0
    /\ events = 0

Event == events < MaxEvents /\ events' = events + 1

Reachable(p) ==
    phase[p] \in {"bound", "serve"} /\ mine[p] # None /\ socket = mine[p]

\* The process ends: its lock and its listeners go with it.
Ends(p) ==
    /\ phase' = [phase EXCEPT ![p] = "off"]
    /\ lock' = IF lock = p THEN None ELSE lock
    /\ open' = open \ {mine[p], fresh[p]}
    /\ seen' = [seen EXCEPT ![p] = None]
    /\ mine' = [mine EXCEPT ![p] = None]
    /\ watchdog' = [watchdog EXCEPT ![p] = "off"]
    /\ fresh' = [fresh EXCEPT ![p] = None]
    /\ late' = [late EXCEPT ![p] = "no"]
    /\ cancelled' = [cancelled EXCEPT ![p] = FALSE]
    /\ leaving' = [leaving EXCEPT ![p] = FALSE]

Goes(p, next) ==
    /\ phase' = [phase EXCEPT ![p] = next]
    /\ UNCHANGED <<seen, mine, watchdog, fresh, late, cancelled, leaving>>

\* net.ListenUnix makes a file that no path had before, or fails on one that
\* is there.
Makes(file) ==
    /\ socket = None
    /\ file = made + 1
    /\ file \in Files
    /\ made' = file
    /\ socket' = file
    /\ open' = open \union {file}

\* Chmod or Lstat fails on the file just made: it stays, with no listener.
Strays ==
    /\ Event
    /\ socket = None
    /\ made' = made + 1
    /\ made' \in Files
    /\ socket' = made'

-----------------------------------------------------------------------------
(* prepareSocketPath, acquireDaemonLock, bindUnixSocket.                    *)

Start(p) ==
    /\ phase[p] = "off"
    /\ Goes(p, "look")
    /\ UNCHANGED <<paths, counts>>

Look(p) ==
    /\ phase[p] = "look"
    /\ seen' = [seen EXCEPT ![p] = socket]
    /\ phase' = [phase EXCEPT ![p] = IF socket = None THEN "lock" ELSE "probe"]
    /\ UNCHANGED <<paths, mine, watchdog, fresh, late, cancelled, leaving, counts>>

\* Mutant: what is at the path is taken for stale.
ProbeNothing(p) ==
    /\ phase[p] = "probe"
    /\ Goes(p, "compare")
    /\ UNCHANGED <<paths, counts>>

\* A file nobody listens on, or none at all, refuses the connection.
ProbeStale(p) ==
    /\ phase[p] = "probe"
    /\ socket \notin open
    /\ Goes(p, "compare")
    /\ UNCHANGED <<paths, counts>>

ProbeLive(p) ==
    /\ phase[p] = "probe"
    /\ socket \in open
    /\ Ends(p)
    /\ UNCHANGED <<socket, counts>>

\* removeIfSameFileStatus: a look,
SameFile(p) ==
    /\ phase[p] = "compare"
    /\ socket = seen[p]
    /\ Goes(p, "remove")
    /\ UNCHANGED <<paths, counts>>

OtherFile(p) ==
    /\ phase[p] = "compare"
    /\ socket # seen[p]
    /\ Ends(p)
    /\ UNCHANGED <<socket, counts>>

\* and a removal of whatever is at the path by then.
RemoveStale(p) ==
    /\ phase[p] = "remove"
    /\ socket' = None
    /\ Goes(p, "lock")
    /\ UNCHANGED <<open, lock, counts>>

Lock(p) ==
    /\ phase[p] = "lock"
    /\ lock = None
    /\ lock' = p
    /\ Goes(p, "bind")
    /\ UNCHANGED <<socket, open, counts>>

LockTaken(p) ==
    /\ phase[p] = "lock"
    /\ lock # None
    /\ Ends(p)
    /\ UNCHANGED <<socket, counts>>

Bind(p) ==
    /\ phase[p] = "bind"
    /\ \E file \in Files :
          /\ Makes(file)
          /\ mine' = [mine EXCEPT ![p] = file]
    /\ phase' = [phase EXCEPT ![p] = "bound"]
    /\ UNCHANGED <<lock, seen, watchdog, fresh, late, cancelled, leaving, events>>

\* The path is taken again, or the init between lock and bind fails or is
\* given up after its timeout.
BindFails(p) ==
    /\ phase[p] = "bind"
    /\ \/ socket # None /\ UNCHANGED <<socket, counts>>
       \/ Event /\ UNCHANGED <<socket, made>>
       \/ Strays
    /\ Ends(p)

Serve(p) ==
    /\ phase[p] = "bound"
    /\ ~cancelled[p]
    /\ phase' = [phase EXCEPT ![p] = "serve"]
    /\ watchdog' = [watchdog EXCEPT ![p] = "idle"]
    /\ UNCHANGED <<paths, seen, mine, fresh, late, cancelled, leaving, counts>>

\* A later step of StartDaemon fails: daemon.Close, and the error ends the
\* process.
StartFails(p) ==
    /\ phase[p] = "bound"
    /\ ~cancelled[p]
    /\ Event
    /\ cancelled' = [cancelled EXCEPT ![p] = TRUE]
    /\ leaving' = [leaving EXCEPT ![p] = TRUE]
    /\ UNCHANGED <<paths, phase, seen, mine, watchdog, fresh, late, made>>

-----------------------------------------------------------------------------
(* runSocketWatchdog and recoverLostSocket.                                 *)

Watches(p, next) ==
    /\ watchdog' = [watchdog EXCEPT ![p] = next]
    /\ UNCHANGED <<phase, seen, late, leaving>>

WatchdogStops(p) ==
    /\ watchdog[p] = "idle"
    /\ cancelled[p]
    /\ Watches(p, "off")
    /\ UNCHANGED <<paths, mine, fresh, cancelled, counts>>

\* Mutant: a socket that was replaced is not noticed.
NoticeAbsence(p) ==
    /\ watchdog[p] = "idle"
    /\ ~cancelled[p]
    /\ socket = None
    /\ Watches(p, "binding")
    /\ UNCHANGED <<paths, mine, fresh, cancelled, counts>>

NoticeLoss(p) ==
    /\ watchdog[p] = "idle"
    /\ ~cancelled[p]
    /\ socket # mine[p]
    /\ Watches(p, "binding")
    /\ UNCHANGED <<paths, mine, fresh, cancelled, counts>>

Rebind(p) ==
    /\ watchdog[p] = "binding"
    /\ \E file \in Files :
          /\ Makes(file)
          /\ fresh' = [fresh EXCEPT ![p] = file]
    /\ Watches(p, "bound")
    /\ UNCHANGED <<lock, mine, cancelled, events>>

\* The bind fails: the daemon is cancelled so that the lock is released.
RebindFails(p) ==
    /\ watchdog[p] = "binding"
    /\ \/ socket # None /\ UNCHANGED <<socket, counts>>
       \/ Strays
    /\ cancelled' = [cancelled EXCEPT ![p] = TRUE]
    /\ Watches(p, "off")
    /\ UNCHANGED <<open, lock, mine, fresh>>

\* Mutant: a shutdown that has begun is trusted to end the bind.
TimesOutServing(p) ==
    /\ watchdog[p] = "binding"
    /\ ~cancelled[p]
    /\ cancelled' = [cancelled EXCEPT ![p] = TRUE]
    /\ late' = [late EXCEPT ![p] = "hung"]
    /\ watchdog' = [watchdog EXCEPT ![p] = "off"]
    /\ UNCHANGED <<paths, phase, seen, mine, fresh, leaving, counts>>

\* The same when it takes too long; its goroutine goes on.
RebindTimesOut(p) ==
    /\ watchdog[p] = "binding"
    /\ cancelled' = [cancelled EXCEPT ![p] = TRUE]
    /\ late' = [late EXCEPT ![p] = "hung"]
    /\ watchdog' = [watchdog EXCEPT ![p] = "off"]
    /\ UNCHANGED <<paths, phase, seen, mine, fresh, leaving, counts>>

LateBind(p) ==
    /\ late[p] = "hung"
    /\ \E file \in Files :
          /\ Makes(file)
          /\ fresh' = [fresh EXCEPT ![p] = file]
    /\ late' = [late EXCEPT ![p] = "bound"]
    /\ UNCHANGED <<lock, phase, seen, mine, watchdog, cancelled, leaving, events>>

LateFails(p) ==
    /\ late[p] = "hung"
    /\ socket # None
    /\ late' = [late EXCEPT ![p] = "no"]
    /\ UNCHANGED <<paths, phase, seen, mine, watchdog, fresh, cancelled, leaving,
                   counts>>

LateStrays(p) ==
    /\ late[p] = "hung"
    /\ Strays
    /\ late' = [late EXCEPT ![p] = "no"]
    /\ UNCHANGED <<open, lock, phase, seen, mine, watchdog, fresh, cancelled,
                   leaving>>

\* closeOrphanListener(removeFile = false): the file stays.
LateClose(p) ==
    /\ late[p] = "bound"
    /\ late' = [late EXCEPT ![p] = "no"]
    /\ open' = open \ {fresh[p]}
    /\ fresh' = [fresh EXCEPT ![p] = None]
    /\ UNCHANGED <<socket, lock, phase, seen, mine, watchdog, cancelled, leaving,
                   counts>>

Install(p) ==
    /\ watchdog[p] = "bound"
    /\ ~cancelled[p]
    /\ open' = open \ {mine[p]}
    /\ mine' = [mine EXCEPT ![p] = fresh[p]]
    /\ fresh' = [fresh EXCEPT ![p] = None]
    /\ Watches(p, "idle")
    /\ UNCHANGED <<socket, lock, cancelled, counts>>

\* A shutdown began meanwhile: closeOrphanListener(removeFile = true).
Discard(p) ==
    /\ watchdog[p] = "bound"
    /\ cancelled[p]
    /\ open' = open \ {fresh[p]}
    /\ Watches(p, "orphan")
    /\ UNCHANGED <<socket, lock, mine, fresh, cancelled, counts>>

DiscardLooks(p) ==
    /\ watchdog[p] = "orphan"
    /\ Watches(p, IF socket = fresh[p] THEN "removing" ELSE "off")
    /\ UNCHANGED <<paths, mine, fresh, cancelled, counts>>

DiscardRemoves(p) ==
    /\ watchdog[p] = "removing"
    /\ socket' = None
    /\ fresh' = [fresh EXCEPT ![p] = None]
    /\ Watches(p, "off")
    /\ UNCHANGED <<open, lock, mine, cancelled, counts>>

-----------------------------------------------------------------------------
(* Close.                                                                   *)

\* Mutant: the watchdog is not joined.
CloseUnjoined(p) ==
    /\ phase[p] \in {"bound", "serve"}
    /\ cancelled[p]
    /\ socket' = None
    /\ open' = open \ {mine[p]}
    /\ Goes(p, "compareOwn")
    /\ UNCHANGED <<lock, counts>>

\* The watchdog is joined, then the listener is closed, which unlinks the
\* path whatever is there.  The runtimes and pollers joined in between are
\* taken to end.
CloseListener(p) ==
    /\ phase[p] \in {"bound", "serve"}
    /\ cancelled[p]
    /\ watchdog[p] = "off"
    /\ socket' = None
    /\ open' = open \ {mine[p]}
    /\ Goes(p, "compareOwn")
    /\ UNCHANGED <<lock, counts>>

\* removeIfSameFile: the close has unlinked the daemon's own file, and another
\* one stays.
LookAtOwn(p) ==
    /\ phase[p] = "compareOwn"
    /\ socket # mine[p]
    /\ Goes(p, "unlock")
    /\ UNCHANGED <<paths, counts>>

\* The lock is the last to go.
Unlock(p) ==
    /\ phase[p] = "unlock"
    /\ lock' = None
    /\ Goes(p, "gone")
    /\ UNCHANGED <<socket, open, counts>>

\* runDaemonWithContext waits for a signal, not for the daemon: a process that
\* has given up stays until it gets one.
Exit(p) ==
    /\ phase[p] = "gone"
    /\ leaving[p]
    /\ Ends(p)
    /\ UNCHANGED <<socket, counts>>

-----------------------------------------------------------------------------
(* The world.                                                               *)

\* SIGTERM: the context of runDaemonWithContext ends.
Signal(p) ==
    /\ phase[p] \in {"bound", "serve", "gone"} \union Closing
    /\ ~leaving[p]
    /\ Event
    /\ cancelled' = [cancelled EXCEPT ![p] = TRUE]
    /\ leaving' = [leaving EXCEPT ![p] = TRUE]
    /\ UNCHANGED <<paths, phase, seen, mine, watchdog, fresh, late, made>>

Kill(p) ==
    /\ phase[p] # "off"
    /\ Event
    /\ Ends(p)
    /\ UNCHANGED <<socket, made>>

\* Somebody cleans up the directory.
LoseSocket ==
    /\ socket # None
    /\ Event
    /\ socket' = None
    /\ UNCHANGED <<open, lock, process, made>>

Starts(p) ==
    \/ Look(p) \/ ProbeStale(p) \/ ProbeLive(p) \/ SameFile(p) \/ OtherFile(p)
    \/ RemoveStale(p) \/ Lock(p) \/ LockTaken(p) \/ Bind(p) \/ BindFails(p)
    \/ Serve(p) \/ StartFails(p)

Guards(p) ==
    \/ WatchdogStops(p) \/ NoticeLoss(p) \/ RebindFails(p)
    \/ RebindTimesOut(p) \/ Install(p)
    \/ Discard(p) \/ DiscardLooks(p) \/ DiscardRemoves(p)

\* A bind may hang, that of the watchdog until it is given up.
Binds(p) == Rebind(p) \/ LateBind(p) \/ LateStrays(p)

Lates(p) == LateFails(p) \/ LateClose(p)

Closes(p) ==
    CloseListener(p) \/ LookAtOwn(p) \/ Unlock(p) \/ Exit(p)

DSNext ==
    \/ \E p \in Daemons :
          \/ Start(p) \/ Starts(p) \/ Guards(p) \/ Binds(p) \/ Lates(p)
          \/ Closes(p) \/ Signal(p) \/ Kill(p)
    \/ LoseSocket

DSSpec == DSInit /\ [][DSNext]_vars

\* Goroutines run, the watchdog gives up a bind that hangs, and the service
\* manager starts a process that has ended.
DSFairSpec ==
    /\ DSSpec
    /\ WF_vars(Start(Service))
    /\ \A p \in Daemons :
          /\ WF_vars(Starts(p)) /\ WF_vars(Guards(p))
          /\ WF_vars(Lates(p)) /\ WF_vars(Closes(p))

-----------------------------------------------------------------------------
(* Properties.                                                              *)

\* No daemon takes the socket of a serving daemon off the path, whatever it
\* has looked at before: not at its start, not in its shutdown, not with a
\* bind that succeeds late.  One window is excepted by name: a start that is
\* past its comparison removes what has come to the path since.
InTheWindow(p, file) == phase[p] = "remove" /\ seen[p] # file

LiveSocketKept ==
    [][\A p \in Daemons :
          Reachable(p) /\ ~Reachable(p)' =>
              \/ phase'[p] # phase[p]
              \/ events' # events
              \/ \E q \in Daemons \ {p} : InTheWindow(q, mine[p])]_vars

\* Whatever answers on a socket of the home holds its lock, except a bind that
\* succeeded after its watchdog had given it up.
AnswersLocked ==
    \A file \in open :
        \/ \E p \in Daemons : late[p] = "bound" /\ fresh[p] = file
        \/ lock # None /\ file \in {mine[lock], fresh[lock]}

\* A socket file that was lost comes back, or its daemon gives up.
SocketBack ==
    \A p \in Daemons :
        (phase[p] = "serve" /\ ~Reachable(p)) ~> (Reachable(p) \/ cancelled[p]
                                                   \/ phase[p] = "off")

\* A daemon that gives up or is told to stop releases the lock: no bind that
\* hangs can keep Close waiting.
LockReleased == \A p \in Daemons : cancelled[p] ~> lock # p

\* "release the singleton lock so a fresh daemon (with a clean socket) can
\* take over instead of wedging": a computer that is not served is served
\* again, the service manager being there to start the daemon.
ServedAgain ==
    (\A p \in Daemons : ~Reachable(p)) ~> (\E p \in Daemons : Reachable(p))
=============================================================================
