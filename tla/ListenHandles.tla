---------------------------- MODULE ListenHandles ----------------------------
(***************************************************************************)
(* Who listens for the messages of a handle (daemon.go, listeners.go,      *)
(* runtime_transient.go): an impromptu listen claim, a main runtime of     *)
(* `comment run`, or the daemon, when the handle is that of a managed bot. *)
(* Claims and markers live in memory; a runtime has a row in the store and *)
(* is taken up again when the daemon restarts.                             *)
(*                                                                         *)
(* A listen.claim holds listenEstablishMu from its first check to its      *)
(* last; a reload holds profileMu, which the claim takes for each look at  *)
(* the profiles. A launch takes listenEstablishMu only to put up its       *)
(* marker and to take it down. Runtimes with the task role reserve nothing *)
(* and are left out, as are the messages.                                  *)
(***************************************************************************)
EXTENDS Integers, FiniteSets

CONSTANTS Handles, Bots,
          BotOf,        \* the stable identity of the bot behind a handle
          Listeners,    \* listen sessions
          Anonymous,    \* a claim made without a session
          Runs,         \* `comment run` requests, and their run ids
          None,
          MaxRestarts   \* bound: restarts of the daemon

ASSUME HandlesAssumption ==
    /\ BotOf \in [Handles -> Bots]
    /\ None \notin Handles \cup Listeners \cup {Anonymous} \cup Runs
    /\ MaxRestarts \in Nat

VARIABLES profiles,      \* what the loaded profiles say of a handle
          reloading,     \* a reload holds profileMu: profiles set, claims not yet dropped
          claims,        \* listenerRegistry.claims
          claiming,      \* the listen.claim that holds listenEstablishMu
          establishing,  \* establishingMain
          mains,         \* transientRuntimeMainProfiles
          ids,           \* transientRuntimeMainIDs
          runtimes,      \* transientRuntimes
          rows,          \* runtimes in the store
          launch,        \* how far each launch is
          poller,        \* the goroutine of each runtime
          panes,         \* external: runs whose terminal session is alive
          stopping,      \* stop requests that wait for the goroutine
          stopped,       \* runtimes whose stop was answered with success
          restarts

profileVars == <<profiles, reloading>>
claimVars == <<claims, claiming>>
runtimeVars == <<mains, ids, runtimes>>
vars == <<profileVars, claimVars, establishing, runtimeVars, rows, launch, poller,
          panes, stopping, stopped, restarts>>

Owners == Listeners \cup {Anonymous}

NoClaiming == [phase |-> "idle", handle |-> None, owner |-> None]
EstablishFree == claiming = NoClaiming   \* listenEstablishMu
ProfilesFree == ~reloading               \* profileMu

NotAsked == [phase |-> "new", handle |-> None, waits |-> None]

Init ==
    /\ profiles \in [Handles -> {"absent", "free", "managed"}] /\ reloading = FALSE
    /\ claims = [h \in Handles |-> None] /\ claiming = NoClaiming
    /\ establishing = [h \in Handles |-> 0]
    /\ mains = [h \in Handles |-> None] /\ ids = [b \in Bots |-> None]
    /\ runtimes = {} /\ rows = {}
    /\ launch = [r \in Runs |-> NotAsked]
    /\ poller = [r \in Runs |-> "none"] /\ panes = {}
    /\ stopping = {} /\ stopped = {} /\ restarts = 0

-----------------------------------------------------------------------------
(* Profiles. *)

\* reloadProfiles, under profileMu: the new state is there at once, ...
ReloadSets ==
    /\ ProfilesFree /\ reloading' = TRUE
    /\ profiles' \in [Handles -> {"absent", "free", "managed"}]
    /\ UNCHANGED <<claimVars, establishing, runtimeVars, rows, launch, poller,
                   panes, stopping, stopped, restarts>>

\* ... then dropClaimsForManaged.
ReloadDrops ==
    /\ reloading /\ reloading' = FALSE
    /\ claims' = [h \in Handles |-> IF profiles[h] = "managed" THEN None ELSE claims[h]]
    /\ UNCHANGED <<profiles, claiming, establishing, runtimeVars, rows, launch,
                   poller, panes, stopping, stopped, restarts>>

-----------------------------------------------------------------------------
(* listen.claim and listen.release. *)

\* The handle is configured and not managed, as the profiles are now.
ClaimReads(o, h) ==
    /\ EstablishFree /\ ProfilesFree
    /\ profiles[h] = "free"
    /\ claiming' = [phase |-> "read", handle |-> h, owner |-> o]
    /\ UNCHANGED <<profileVars, claims, establishing, runtimeVars, rows, launch,
                   poller, panes, stopping, stopped, restarts>>

\* Mutant: a launch that has no reservation yet is not seen.
ClaimIgnoresMarker ==
    LET h == claiming.handle
    IN  /\ claiming.phase = "read" /\ mains[h] = None /\ claims[h] = None
        /\ claims' = [claims EXCEPT ![h] = claiming.owner]
        /\ claiming' = [claiming EXCEPT !.phase = "committed"]
        /\ UNCHANGED <<profileVars, establishing, runtimeVars, rows, launch, poller,
                       panes, stopping, stopped, restarts>>

\* No runtime drives the handle or is being started, and nobody else listens: the
\* claim is recorded. A session may claim again what it has.
ClaimCommits ==
    LET h == claiming.handle
        o == claiming.owner
    IN  /\ claiming.phase = "read"
        /\ IF /\ mains[h] = None /\ establishing[h] = 0
              /\ claims[h] = None \/ (claims[h] = o /\ o # Anonymous)
           THEN /\ claims' = [claims EXCEPT ![h] = o]
                /\ claiming' = [claiming EXCEPT !.phase = "committed"]
           ELSE claiming' = NoClaiming /\ UNCHANGED claims
        /\ UNCHANGED <<profileVars, establishing, runtimeVars, rows, launch, poller,
                       panes, stopping, stopped, restarts>>

\* Mutant: the claim is answered without a second look.
ClaimAnswersAtOnce ==
    /\ claiming.phase = "committed" /\ claiming' = NoClaiming
    /\ UNCHANGED <<profileVars, claims, establishing, runtimeVars, rows, launch,
                   poller, panes, stopping, stopped, restarts>>

\* A reload may have made the handle managed meanwhile: the claim is dropped.
ClaimRechecks ==
    LET h == claiming.handle
    IN  /\ claiming.phase = "committed" /\ ProfilesFree
        /\ claims' = IF profiles[h] = "managed" \/ mains[h] # None
                     THEN [claims EXCEPT ![h] = None] ELSE claims
        /\ claiming' = NoClaiming
        /\ UNCHANGED <<profileVars, establishing, runtimeVars, rows, launch, poller,
                       panes, stopping, stopped, restarts>>

\* Only the session of the claim may release it, or anyone an anonymous one.
Releases(o, h) ==
    /\ claims[h] \in {Anonymous, o}
    /\ claims' = [claims EXCEPT ![h] = None]
    /\ UNCHANGED <<profileVars, claiming, establishing, runtimeVars, rows, launch,
                   poller, panes, stopping, stopped, restarts>>

ForcesRelease(h) ==
    /\ claims[h] # None
    /\ claims' = [claims EXCEPT ![h] = None]
    /\ UNCHANGED <<profileVars, claiming, establishing, runtimeVars, rows, launch,
                   poller, panes, stopping, stopped, restarts>>

-----------------------------------------------------------------------------
(* Main runtimes. A launch runs in the goroutine of its request. *)

Handle(r) == launch[r].handle
Goes(r, phase) == launch' = [launch EXCEPT ![r].phase = phase]

\* The launches of a handle whose marker is up.
Marking == {"establishing", "waiting", "reserved", "opened", "persisted", "returning"}
Marked(h) == {r \in Runs : launch[r].handle = h /\ launch[r].phase \in Marking}

\* The idempotent release of a marker.
TakesDown(h) ==
    establishing' = [establishing EXCEPT ![h] = IF @ <= 1 THEN 0 ELSE @ - 1]

\* Runs reserved for the handle of r, or for its bot.
Rivals(r) ==
    {q \in Runs \ {r} : q \in {mains[Handle(r)], ids[BotOf[Handle(r)]]}}

Reserves(r) ==
    /\ mains' = [mains EXCEPT ![Handle(r)] = r]
    /\ ids' = [ids EXCEPT ![BotOf[Handle(r)]] = r]

\* removeTransientRuntimeMainReservationsLocked: only what r reserved.
Frees(r) ==
    /\ mains' = [h \in Handles |-> IF mains[h] = r THEN None ELSE mains[h]]
    /\ ids' = [b \in Bots |-> IF ids[b] = r THEN None ELSE ids[b]]

\* The request arrives, its handle is configured.
RunAsks(r, h) ==
    /\ launch[r] = NotAsked /\ ProfilesFree /\ profiles[h] # "absent"
    /\ launch' = [launch EXCEPT ![r] = [phase |-> "asked", handle |-> h, waits |-> None]]
    /\ UNCHANGED <<profileVars, claimVars, establishing, runtimeVars, rows, poller,
                   panes, stopping, stopped, restarts>>

\* reserveMainEstablish: the launch puts up its marker, unless a claim is held.
RunEstablishes(r) ==
    /\ launch[r].phase = "asked" /\ EstablishFree
    /\ IF claims[Handle(r)] = None
       THEN /\ establishing' = [establishing EXCEPT ![Handle(r)] = @ + 1]
            /\ Goes(r, "establishing")
       ELSE Goes(r, "over") /\ UNCHANGED establishing
    /\ UNCHANGED <<profileVars, claimVars, runtimeVars, rows, poller, panes,
                   stopping, stopped, restarts>>

\* A runtime of the handle, or of the bot, is there: it is the answer, also when
\* its terminal cannot be inspected, ...
RunFindsActive(r) ==
    /\ launch[r].phase = "establishing"
    /\ Rivals(r) \cap runtimes # {}
    /\ Goes(r, "returning")
    /\ UNCHANGED <<profileVars, claimVars, establishing, runtimeVars, rows, poller,
                   panes, stopping, stopped, restarts>>

\* ... unless its terminal is known to be gone: then it is forgotten, and the launch waits for
\* its goroutine (forgetInactiveTransientRuntime).
RunForgetsInactive(r) ==
    /\ launch[r].phase = "establishing"
    /\ \E q \in Rivals(r) :
         /\ q \in runtimes \ panes
         /\ runtimes' = runtimes \ {q} /\ Frees(q)
         /\ launch' = [launch EXCEPT ![r].phase = "waiting", ![r].waits = q]
    /\ UNCHANGED <<profileVars, claimVars, establishing, rows, poller, panes,
                   stopping, stopped, restarts>>

RunHasForgotten(r) ==
    /\ launch[r].phase = "waiting" /\ poller[launch[r].waits] = "done"
    /\ rows' \in {rows, rows \ {launch[r].waits}}
    /\ launch' = [launch EXCEPT ![r].phase = "establishing", ![r].waits = None]
    /\ UNCHANGED <<profileVars, claimVars, establishing, runtimeVars, poller,
                   panes, stopping, stopped, restarts>>

\* reserveTransientRuntimeRecord
RunReserves(r) ==
    /\ launch[r].phase = "establishing" /\ Rivals(r) = {}
    /\ Reserves(r)
    /\ Goes(r, "reserved")
    /\ UNCHANGED <<profileVars, claimVars, establishing, runtimes, rows, poller,
                   panes, stopping, stopped, restarts>>

\* Another launch has the reservation.
RunConflicts(r) ==
    /\ launch[r].phase = "establishing" /\ Rivals(r) \ runtimes # {}
    /\ Goes(r, "returning")
    /\ UNCHANGED <<profileVars, claimVars, establishing, runtimeVars, rows, poller,
                   panes, stopping, stopped, restarts>>

\* The terminal session is created, ...
RunOpensPane(r) ==
    /\ launch[r].phase = "reserved"
    /\ panes' = panes \cup {r}
    /\ Goes(r, "opened")
    /\ UNCHANGED <<profileVars, claimVars, establishing, runtimeVars, rows, poller,
                   stopping, stopped, restarts>>

\* ... and the row written once the agent runs in it, ...
RunPersists(r) ==
    /\ launch[r].phase = "opened"
    /\ rows' = rows \cup {r}
    /\ Goes(r, "persisted")
    /\ UNCHANGED <<profileVars, claimVars, establishing, runtimeVars, poller, panes,
                   stopping, stopped, restarts>>

\* ... or the launch fails: the session is killed, the reservation given up.
RunFails(r) ==
    /\ launch[r].phase \in {"reserved", "opened"}
    /\ Frees(r) /\ panes' = panes \ {r}
    /\ Goes(r, "returning")
    /\ UNCHANGED <<profileVars, claimVars, establishing, runtimes, rows, poller,
                   stopping, stopped, restarts>>

\* activateTransientRuntime, and the goroutine starts.
RunActivates(r) ==
    /\ launch[r].phase = "persisted"
    /\ Reserves(r) /\ runtimes' = runtimes \cup {r}
    /\ poller' = [poller EXCEPT ![r] = "running"]
    /\ Goes(r, "returning")
    /\ UNCHANGED <<profileVars, claimVars, establishing, rows, panes, stopping,
                   stopped, restarts>>

\* Mutant: the marker of every launch of the handle is taken down.
RunTakesAllMarkers(r) ==
    /\ launch[r].phase = "returning" /\ EstablishFree
    /\ establishing' = [establishing EXCEPT ![Handle(r)] = 0]
    /\ Goes(r, "over")
    /\ UNCHANGED <<profileVars, claimVars, runtimeVars, rows, poller, panes,
                   stopping, stopped, restarts>>

\* Whatever came of it, the launch takes its marker down.
RunReturns(r) ==
    /\ launch[r].phase = "returning" /\ EstablishFree
    /\ TakesDown(Handle(r))
    /\ Goes(r, "over")
    /\ UNCHANGED <<profileVars, claimVars, runtimeVars, rows, poller, panes,
                   stopping, stopped, restarts>>

PaneDies(r) ==
    /\ r \in panes /\ panes' = panes \ {r}
    /\ UNCHANGED <<profileVars, claimVars, establishing, runtimeVars, rows, launch,
                   poller, stopping, stopped, restarts>>

\* A stop request takes the runtime out of the maps, and waits for its goroutine.
StopRemoves(r) ==
    /\ r \in runtimes
    /\ runtimes' = runtimes \ {r} /\ Frees(r)
    /\ stopping' = stopping \cup {r}
    /\ UNCHANGED <<profileVars, claimVars, establishing, rows, launch, poller,
                   panes, stopped, restarts>>

\* Mutant: the row stays in the store.
StopForgetsRow(r) ==
    /\ r \in stopping /\ poller[r] = "done"
    /\ stopping' = stopping \ {r} /\ stopped' = stopped \cup {r}
    /\ UNCHANGED <<profileVars, claimVars, establishing, runtimeVars, rows, launch,
                   poller, panes, restarts>>

\* Then the row is deleted; if it cannot be, the request fails.
StopEnds(r) ==
    /\ r \in stopping /\ poller[r] = "done"
    /\ stopping' = stopping \ {r}
    /\ \/ rows' = rows \ {r} /\ stopped' = stopped \cup {r}
       \/ UNCHANGED <<rows, stopped>>
    /\ UNCHANGED <<profileVars, claimVars, establishing, runtimeVars, launch,
                   poller, panes, restarts>>

\* The goroutine finds its terminal gone, has an error that is not retryable, or
\* was cancelled by who removed the runtime. If nobody has, it removes it itself,
\* and then deletes the row.
PollerLeaves(r) ==
    /\ poller[r] = "running"
    /\ IF r \in runtimes
       THEN /\ runtimes' = runtimes \ {r} /\ Frees(r)
            /\ poller' = [poller EXCEPT ![r] = "removed"]
       ELSE poller' = [poller EXCEPT ![r] = "done"] /\ UNCHANGED runtimeVars
    /\ UNCHANGED <<profileVars, claimVars, establishing, rows, launch, panes,
                   stopping, stopped, restarts>>

PollerEnds(r) ==
    /\ poller[r] = "removed"
    /\ rows' \in {rows, rows \ {r}}
    /\ poller' = [poller EXCEPT ![r] = "done"]
    /\ UNCHANGED <<profileVars, claimVars, establishing, runtimeVars, launch,
                   panes, stopping, stopped, restarts>>

\* Mutant: two runtimes of one handle are both taken up.
RevivesAll(kept) == kept = rows \cap panes

\* reconcileTransientRuntimes: of the rows whose terminal is alive, or cannot be
\* inspected, the first of each handle and of each bot is kept, in the order the
\* runtimes were started.
Revives(kept) ==
    /\ kept \subseteq rows
    /\ \A q, r \in kept : BotOf[Handle(q)] = BotOf[Handle(r)] => q = r
    /\ \A q \in (rows \cap panes) \ kept :
         \E r \in kept : BotOf[Handle(q)] = BotOf[Handle(r)]

\* The daemon ends, by a crash or not, and is started again. What is served
\* waits until the rows have been taken up.
Restart ==
    /\ restarts < MaxRestarts /\ restarts' = restarts + 1
    /\ reloading' = FALSE /\ profiles' \in [Handles -> {"absent", "free", "managed"}]
    /\ claims' = [h \in Handles |-> None] /\ claiming' = NoClaiming
    /\ establishing' = [h \in Handles |-> 0]
    /\ launch' = [r \in Runs |-> IF launch[r] = NotAsked THEN NotAsked
                                 ELSE [launch[r] EXCEPT !.phase = "over", !.waits = None]]
    /\ stopping' = {}
    /\ \E kept \in SUBSET Runs :
         /\ Revives(kept)
         /\ runtimes' = kept /\ rows' = kept
         /\ mains' = [h \in Handles |->
                        IF \E r \in kept : Handle(r) = h
                        THEN CHOOSE r \in kept : Handle(r) = h ELSE None]
         /\ ids' = [b \in Bots |->
                      IF \E r \in kept : BotOf[Handle(r)] = b
                      THEN CHOOSE r \in kept : BotOf[Handle(r)] = b ELSE None]
         /\ poller' = [r \in Runs |-> IF r \in kept THEN "running" ELSE "none"]
    /\ UNCHANGED <<panes, stopped>>

-----------------------------------------------------------------------------

RunGoesOn(r) ==
    \/ RunEstablishes(r) \/ RunFindsActive(r) \/ RunForgetsInactive(r)
    \/ RunHasForgotten(r) \/ RunReserves(r) \/ RunConflicts(r) \/ RunOpensPane(r)
    \/ RunPersists(r) \/ RunFails(r) \/ RunActivates(r)

PollerGoesOn(r) == PollerLeaves(r) \/ PollerEnds(r)

Next ==
    \/ ReloadSets \/ ReloadDrops \/ ClaimCommits \/ ClaimRechecks \/ Restart
    \/ \E h \in Handles :
         \/ ForcesRelease(h)
         \/ \E o \in Owners : ClaimReads(o, h) \/ Releases(o, h)
         \/ \E r \in Runs : RunAsks(r, h)
    \/ \E r \in Runs :
         \/ RunGoesOn(r) \/ RunReturns(r) \/ PaneDies(r)
         \/ StopRemoves(r) \/ StopEnds(r) \/ PollerGoesOn(r)

Spec == Init /\ [][Next]_vars

-----------------------------------------------------------------------------
(* Properties. *)

\* establishingMain counts the launches that are under way, no more and no fewer.
TypeOK ==
    /\ profiles \in [Handles -> {"absent", "free", "managed"}] /\ reloading \in BOOLEAN
    /\ claims \in [Handles -> Owners \cup {None}]
    /\ claiming \in [phase : {"read", "committed"}, handle : Handles, owner : Owners]
                    \cup {NoClaiming}
    /\ establishing = [h \in Handles |-> Cardinality(Marked(h))]
    /\ mains \in [Handles -> Runs \cup {None}] /\ ids \in [Bots -> Runs \cup {None}]
    /\ runtimes \subseteq Runs /\ rows \subseteq Runs /\ panes \subseteq Runs
    /\ launch \in [Runs -> [phase : {"asked", "establishing", "waiting", "reserved",
                                     "opened", "persisted", "returning", "over"},
                            handle : Handles, waits : Runs \cup {None}] \cup {NotAsked}]
    /\ poller \in [Runs -> {"none", "running", "removed", "done"}]
    /\ stopping \subseteq Runs /\ stopped \subseteq Runs
    /\ restarts \in 0..MaxRestarts

\* A handle has one listener: while a claim is held on it, no main runtime drives
\* the handle and none is being started, in whatever order claims and launches
\* look and commit.
ClaimExcludesRuntime ==
    \A h \in Handles : claims[h] # None => mains[h] = None /\ establishing[h] = 0

\* A claim does not survive on a handle that became managed: it is there only as
\* long as the reload, or the claim request itself, has not finished.
ClaimExcludesManaged ==
    \A h \in Handles :
        claims[h] # None /\ profiles[h] = "managed" =>
            reloading \/ (claiming.phase = "committed" /\ claiming.handle = h)

\* A handle and a bot have one main runtime: what the daemon tracks is what is
\* reserved, whatever failed, was forgotten, stopped or taken up by a restart.
OneMainRuntime ==
    \A r \in runtimes : mains[Handle(r)] = r /\ ids[BotOf[Handle(r)]] = r

\* A runtime that was stopped does not come back with a restart.
StoppedStaysStopped == stopped \cap (runtimes \cup rows) = {}
=============================================================================
