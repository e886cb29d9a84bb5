------------------------- MODULE ListenHandlesProofs -------------------------
(* Who listens, for any handles, bots, sessions, runs and restarts. A step   *)
(* moves at most one launch (Moved); the markers count the launches under    *)
(* way because each of them puts up and takes down one of its own.           *)
EXTENDS ListenHandles, FiniteSetTheorems, TLAPS

Phases == {"asked", "establishing", "waiting", "reserved", "opened", "persisted",
           "returning", "over"}
Asked == [phase : Phases, handle : Handles, waits : Runs \cup {None}]

\* A row is written late in a launch, a runtime is tracked at its end, and only
\* then can it be stopped. A launch that has reserved keeps its reservations.
PhasesOK ==
    /\ \A r \in rows : launch[r].phase \in {"persisted", "returning", "over"}
    /\ \A r \in runtimes \cup stopping \cup stopped : launch[r].phase \in {"returning", "over"}
    /\ stopping \cap runtimes = {}
    /\ \A r \in Runs :
         launch[r].phase \in {"reserved", "opened", "persisted"} =>
             mains[Handle(r)] = r /\ ids[BotOf[Handle(r)]] = r

\* Only finitely many launches of a handle are under way, however many are asked for.
MarkersFinite == \A h \in Handles : IsFiniteSet(Marked(h))

IInv ==
    /\ TypeOK /\ MarkersFinite /\ PhasesOK
    /\ OneMainRuntime /\ StoppedStaysStopped
    /\ ClaimExcludesRuntime /\ ClaimExcludesManaged

-----------------------------------------------------------------------------
(* Launches and their markers. *)

\* Launch r, which is under way, gets to phase p, and no other moves.
Moved(r, p) ==
    /\ launch' \in [Runs -> Asked \cup {NotAsked}]
    /\ launch'[r].phase = p /\ launch'[r].handle = launch[r].handle
    /\ \A q \in Runs \ {r} : launch'[q] = launch[q]

LEMMA LaunchType == TypeOK => launch \in [Runs -> Asked \cup {NotAsked}]
BY DEF TypeOK, Asked, Phases

LEMMA NotAskedFacts ==
    /\ NotAsked.phase = "new" /\ NotAsked.handle = None
    /\ \A l \in Asked : l.phase \in Phases /\ l.handle \in Handles /\ l # NotAsked
BY DEF NotAsked, Asked, Phases

LEMMA HandleType ==
    ASSUME TypeOK, NEW r \in Runs, launch[r].phase # "new"
    PROVE  /\ launch[r] \in Asked /\ Handle(r) \in Handles
           /\ BotOf[Handle(r)] \in Bots /\ launch[r].phase \in Phases
<1>1. launch[r] \in Asked
    BY LaunchType, NotAskedFacts
<1> QED
    BY <1>1, NotAskedFacts, HandlesAssumption DEF Handle

LEMMA GoesMoves ==
    ASSUME TypeOK, NEW r \in Runs, launch[r].phase # "new", NEW p \in Phases
    PROVE  /\ Goes(r, p) => Moved(r, p)
           /\ \A w \in Runs \cup {None} :
                launch' = [launch EXCEPT ![r].phase = p, ![r].waits = w] => Moved(r, p)
<1>0. launch \in [Runs -> Asked \cup {NotAsked}] /\ launch[r] \in Asked
    BY LaunchType, HandleType
<1>1. ASSUME NEW l \in Asked, NEW w \in Runs \cup {None}
      PROVE  /\ [l EXCEPT !.phase = p] \in Asked
             /\ [l EXCEPT !.phase = p].phase = p
             /\ [l EXCEPT !.phase = p].handle = l.handle
             /\ [l EXCEPT !.phase = p, !.waits = w] \in Asked
             /\ [l EXCEPT !.phase = p, !.waits = w].phase = p
             /\ [l EXCEPT !.phase = p, !.waits = w].handle = l.handle
    BY DEF Asked
<1>2. ASSUME Goes(r, p)
      PROVE  Moved(r, p)
    <2>1. launch' = [launch EXCEPT ![r] = [launch[r] EXCEPT !.phase = p]]
        BY <1>2 DEF Goes
    <2> DEFINE l == [launch[r] EXCEPT !.phase = p]
    <2>2. l \in Asked /\ l.phase = p /\ l.handle = launch[r].handle
        BY <1>0, <1>1
    <2> HIDE DEF l
    <2> QED
        BY <1>0, <2>1, <2>2 DEF Moved, l
<1>3. ASSUME NEW w \in Runs \cup {None},
             launch' = [launch EXCEPT ![r].phase = p, ![r].waits = w]
      PROVE  Moved(r, p)
    <2> DEFINE l == [launch[r] EXCEPT !.phase = p, !.waits = w]
    <2>1. launch' = [launch EXCEPT ![r] = l]
        BY <1>0, <1>3
    <2>2. l \in Asked /\ l.phase = p /\ l.handle = launch[r].handle
        BY <1>0, <1>1
    <2> HIDE DEF l
    <2> QED
        BY <1>0, <2>1, <2>2 DEF Moved
<1> QED
    BY <1>2, <1>3

\* What becomes of the markers of the handles.
LEMMA MarkedAfter ==
    ASSUME TypeOK, NEW r \in Runs, launch[r].phase # "new", NEW p \in Phases, Moved(r, p),
           NEW h
    PROVE  Marked(h)' = IF h = Handle(r)
                        THEN IF p \in Marking THEN Marked(h) \cup {r} ELSE Marked(h) \ {r}
                        ELSE Marked(h)
BY DEF Moved, Marked, Handle

LEMMA Counts ==
    ASSUME TypeOK, MarkersFinite, NEW h \in Handles
    PROVE  /\ establishing[h] \in Nat
           /\ \A r \in Runs : launch[r].handle = h /\ launch[r].phase \in Marking =>
                establishing[h] # 0
           /\ IsFiniteSet(Marked(h)) /\ establishing[h] = Cardinality(Marked(h))
<1>1. IsFiniteSet(Marked(h)) /\ establishing[h] = Cardinality(Marked(h))
    BY DEF TypeOK, MarkersFinite
<1>2. Cardinality(Marked(h)) \in Nat
    BY <1>1, FS_CardinalityType
<1>3. Cardinality(Marked(h)) = 0 => Marked(h) = {}
    BY <1>1, FS_EmptySet
<1> QED
    BY <1>1, <1>2, <1>3 DEF Marked

\* A marker is up for every launch under way, and for nothing else.
LEMMA MarkersNext ==
    ASSUME IInv, [Next]_vars
    PROVE  /\ launch' \in [Runs -> Asked \cup {NotAsked}]
           /\ establishing' = [h \in Handles |-> Cardinality(Marked(h)')]
           /\ MarkersFinite'
<1> USE DEF IInv, profileVars, claimVars, runtimeVars
<1> DEFINE Goal == /\ launch' \in [Runs -> Asked \cup {NotAsked}]
                   /\ establishing' = [h \in Handles |-> Cardinality(Marked(h)')]
                   /\ \A h \in Handles : IsFiniteSet(Marked(h)')
<1> SUFFICES Goal
    BY DEF MarkersFinite
<1>0. /\ launch \in [Runs -> Asked \cup {NotAsked}]
      /\ establishing = [h \in Handles |-> Cardinality(Marked(h))]
      /\ \A h \in Handles : IsFiniteSet(Marked(h))
    BY LaunchType DEF TypeOK, MarkersFinite
<1>a. ASSUME UNCHANGED <<launch, establishing>>
      PROVE  Goal
    BY <1>0, <1>a DEF Marked
<1>b. ASSUME NEW r \in Runs, NEW p \in Phases, launch[r].phase # "new", Moved(r, p),
             UNCHANGED establishing, launch[r].phase \in Marking <=> p \in Marking
      PROVE  Goal
    <2>1. ASSUME NEW h \in Handles PROVE Marked(h)' = Marked(h)
        BY <1>b, MarkedAfter DEF Marked, Handle
    <2> QED
        BY <1>0, <1>b, <2>1 DEF Moved
<1>1. ASSUME NEW r \in Runs, NEW h \in Handles, RunAsks(r, h)
      PROVE  Goal
    <2> DEFINE l == [phase |-> "asked", handle |-> h, waits |-> None]
    <2>1. l \in Asked /\ l.phase = "asked"
        BY DEF Asked, Phases
    <2>2. launch' = [launch EXCEPT ![r] = l] /\ launch[r].phase = "new" /\ UNCHANGED establishing
        BY <1>1, NotAskedFacts DEF RunAsks
    <2> HIDE DEF l
    <2>3. ASSUME NEW g \in Handles PROVE Marked(g)' = Marked(g)
        BY <1>0, <2>1, <2>2 DEF Marked, Marking
    <2> QED
        BY <1>0, <2>1, <2>2, <2>3
<1>2. ASSUME NEW r \in Runs, RunEstablishes(r)
      PROVE  Goal
    <2>0. launch[r].phase = "asked" /\ Handle(r) \in Handles
        BY <1>2, HandleType DEF RunEstablishes
    <2>1. CASE Goes(r, "over") /\ UNCHANGED establishing
        <3>1. Moved(r, "over")
            BY <2>0, <2>1, GoesMoves DEF Phases
        <3> QED
            BY <1>b, <2>0, <2>1, <3>1 DEF Phases, Marking
    <2>2. CASE /\ Goes(r, "establishing")
               /\ establishing' = [establishing EXCEPT ![Handle(r)] = @ + 1]
        <3>1. Moved(r, "establishing")
            BY <2>0, <2>2, GoesMoves DEF Phases
        <3> PICK g \in Handles : g = Handle(r)
            BY <2>0
        <3>2. ASSUME NEW h \in Handles
              PROVE  Marked(h)' = IF h = g THEN Marked(h) \cup {r} ELSE Marked(h)
            BY <2>0, <3>1, MarkedAfter DEF Phases, Marking
        <3>3. r \notin Marked(g) /\ IsFiniteSet(Marked(g))
            BY <1>0, <2>0 DEF Marked, Marking
        <3>4. /\ IsFiniteSet(Marked(g) \cup {r})
              /\ Cardinality(Marked(g) \cup {r}) = Cardinality(Marked(g)) + 1
            BY <3>3, FS_AddElement
        <3>5. /\ IsFiniteSet(Marked(g)')
              /\ Cardinality(Marked(g)') = Cardinality(Marked(g)) + 1
            BY <3>2, <3>4
        <3>6. establishing' = [h \in Handles |-> Cardinality(Marked(h)')]
            BY <1>0, <2>2, <3>2, <3>5
        <3> QED
            BY <1>0, <3>1, <3>2, <3>5, <3>6 DEF Moved
    <2> QED
        BY <1>2, <2>1, <2>2 DEF RunEstablishes
<1>3. ASSUME NEW r \in Runs, RunReturns(r)
      PROVE  Goal
    <2>0. launch[r].phase = "returning" /\ Handle(r) \in Handles /\ TakesDown(Handle(r))
        BY <1>3, HandleType DEF RunReturns
    <2>1. Moved(r, "over")
        BY <1>3, <2>0, GoesMoves DEF Phases, RunReturns
    <2> PICK g \in Handles : g = Handle(r)
        BY <2>0
    <2>2. ASSUME NEW h \in Handles
          PROVE  Marked(h)' = IF h = g THEN Marked(h) \ {r} ELSE Marked(h)
        BY <2>0, <2>1, MarkedAfter DEF Phases, Marking
    <2>3. r \in Marked(g) /\ IsFiniteSet(Marked(g))
        BY <1>0, <2>0 DEF Marked, Marking, Handle
    <2>4. /\ IsFiniteSet(Marked(g) \ {r})
          /\ Cardinality(Marked(g) \ {r}) = Cardinality(Marked(g)) - 1
        BY <2>3, FS_RemoveElement
    <2>5. IsFiniteSet(Marked(g)') /\ Cardinality(Marked(g)') = Cardinality(Marked(g)) - 1
        BY <2>2, <2>4
    <2>6. /\ establishing[g] = Cardinality(Marked(g)) /\ establishing[g] \in Nat
          /\ establishing[g] # 0
        BY <2>0, <2>3, Counts DEF Marked
    <2>a. (IF establishing[g] <= 1 THEN 0 ELSE establishing[g] - 1) = Cardinality(Marked(g)')
        BY <2>5, <2>6
    <2>7. establishing' = [establishing EXCEPT ![g] = Cardinality(Marked(g)')]
        BY <2>0, <2>a DEF TakesDown
    <2> QED
        BY <1>0, <2>1, <2>2, <2>5, <2>7 DEF Moved
<1>4. ASSUME Restart
      PROVE  Goal
    <2>1. ASSUME NEW l \in Asked
          PROVE  LET k == [l EXCEPT !.phase = "over", !.waits = None]
                 IN  k \in Asked /\ k.phase = "over"
        BY <2>1 DEF Asked, Phases
    <2>2. launch' \in [Runs -> Asked \cup {NotAsked}]
        BY <1>0, <1>4, <2>1 DEF Restart
    <2>3. \A r \in Runs : launch'[r].phase \in {"new", "over"}
        BY <1>0, <1>4, <2>1, NotAskedFacts DEF Restart
    <2>4. \A h \in Handles : Marked(h)' = {}
        BY <2>3 DEF Marked, Marking
    <2>5. IsFiniteSet({}) /\ Cardinality({}) = 0
        BY FS_EmptySet
    <2> QED
        BY <1>4, <2>2, <2>4, <2>5 DEF Restart
<1>5. ASSUME NEW r \in Runs, NEW p \in {"establishing", "waiting", "reserved", "opened",
                                        "persisted", "returning"},
             launch[r].phase \in Marking, UNCHANGED establishing,
             \/ Goes(r, p)
             \/ \E w \in Runs \cup {None} :
                  launch' = [launch EXCEPT ![r].phase = p, ![r].waits = w]
      PROVE  Goal
    <2>1. p \in Phases /\ p \in Marking /\ launch[r].phase # "new"
        BY <1>5 DEF Phases, Marking
    <2>2. Moved(r, p)
        BY <1>5, <2>1, GoesMoves
    <2> QED
        BY <1>b, <1>5, <2>1, <2>2
<1>6. ASSUME NEW r \in Runs, RunGoesOn(r)
      PROVE  Goal
    <2>1. CASE RunFindsActive(r) \/ RunConflicts(r) \/ RunReserves(r)
        BY <1>5, <2>1 DEF RunFindsActive, RunConflicts, RunReserves, Marking
    <2>2. CASE RunForgetsInactive(r)
        <3>1. PICK q \in Runs : launch' = [launch EXCEPT ![r].phase = "waiting", ![r].waits = q]
            BY <2>2 DEF RunForgetsInactive, Rivals
        <3> QED
            BY <1>5, <2>2, <3>1 DEF RunForgetsInactive, Marking
    <2>3. CASE RunHasForgotten(r)
        BY <1>5, <2>3 DEF RunHasForgotten, Marking
    <2>4. CASE RunOpensPane(r) \/ RunPersists(r) \/ RunActivates(r)
        BY <1>5, <2>4 DEF RunOpensPane, RunPersists, RunActivates, Marking
    <2>5. CASE RunFails(r)
        BY <1>5, <2>5 DEF RunFails, Marking
    <2> QED
        BY <1>2, <1>6, <2>1, <2>2, <2>3, <2>4, <2>5 DEF RunGoesOn
<1>7. ASSUME \/ ReloadSets \/ ReloadDrops \/ ClaimCommits \/ ClaimRechecks
             \/ \E h \in Handles : \/ ForcesRelease(h)
                                   \/ \E o \in Owners : ClaimReads(o, h) \/ Releases(o, h)
      PROVE  Goal
    BY <1>7, <1>a DEF ReloadSets, ReloadDrops, ClaimCommits, ClaimRechecks, ForcesRelease,
                      ClaimReads, Releases
<1>8. ASSUME NEW r \in Runs, PaneDies(r) \/ StopRemoves(r) \/ StopEnds(r) \/ PollerGoesOn(r)
      PROVE  Goal
    BY <1>8, <1>a DEF PaneDies, StopRemoves, StopEnds, PollerGoesOn, PollerLeaves, PollerEnds
<1>9. CASE UNCHANGED vars
    BY <1>9, <1>a DEF vars
<1> HIDE DEF Goal
<1> QED
    BY <1>1, <1>3, <1>4, <1>6, <1>7, <1>8, <1>9 DEF Next

\* A launch keeps its handle, does not begin again and does not go back.
LaunchStep ==
    \A r \in Runs :
        /\ launch[r].phase = "new" => launch'[r].phase \in {"new", "asked"}
        /\ launch[r].phase # "new" =>
             launch'[r].handle = launch[r].handle /\ launch'[r].phase # "new"
        /\ launch[r].phase \in {"returning", "over"} => launch'[r].phase \in {"returning", "over"}
        /\ launch[r].phase = "persisted" =>
             launch'[r].phase \in {"persisted", "returning", "over"}
        /\ launch'[r].phase \in {"reserved", "opened", "persisted"} =>
             launch[r].phase \in {"reserved", "opened", "persisted"} \/ RunReserves(r)

\* Phases that may follow each other.
Follows(p, q) ==
    \/ p = "asked" /\ q \in {"establishing", "over"}
    \/ p = "establishing" /\ q \in {"returning", "waiting", "reserved"}
    \/ p = "waiting" /\ q = "establishing"
    \/ p = "reserved" /\ q \in {"opened", "returning"}
    \/ p = "opened" /\ q \in {"persisted", "returning"}
    \/ p = "persisted" /\ q = "returning"
    \/ p = "returning" /\ q = "over"

LEMMA LaunchSteps ==
    ASSUME IInv, [Next]_vars
    PROVE  LaunchStep
<1> USE DEF IInv, profileVars, claimVars, runtimeVars
<1>0. launch \in [Runs -> Asked \cup {NotAsked}]
    BY LaunchType
<1>a. ASSUME UNCHANGED launch
      PROVE  LaunchStep
    BY <1>a DEF LaunchStep
<1>b. ASSUME NEW r \in Runs, NEW p \in Phases, Follows(launch[r].phase, p), Moved(r, p),
             p = "reserved" => RunReserves(r)
      PROVE  LaunchStep
    BY <1>b DEF LaunchStep, Follows, Moved
<1>c. ASSUME NEW r \in Runs, NEW p \in Phases, Follows(launch[r].phase, p),
             \/ Goes(r, p)
             \/ \E w \in Runs \cup {None} :
                  launch' = [launch EXCEPT ![r].phase = p, ![r].waits = w],
             p = "reserved" => RunReserves(r)
      PROVE  LaunchStep
    <2>1. launch[r].phase # "new"
        BY <1>c DEF Follows
    <2>2. Moved(r, p)
        BY <1>c, <2>1, GoesMoves
    <2> QED
        BY <1>b, <1>c, <2>2
<1>1. ASSUME NEW r \in Runs, NEW h \in Handles, RunAsks(r, h)
      PROVE  LaunchStep
    <2> DEFINE l == [phase |-> "asked", handle |-> h, waits |-> None]
    <2>1. l.phase = "asked"
        OBVIOUS
    <2>2. launch' = [launch EXCEPT ![r] = l] /\ launch[r].phase = "new"
        BY <1>1, NotAskedFacts DEF RunAsks
    <2> HIDE DEF l
    <2> QED
        BY <1>0, <2>1, <2>2 DEF LaunchStep
<1>2. ASSUME NEW r \in Runs, RunEstablishes(r)
      PROVE  LaunchStep
    BY <1>2, <1>c DEF RunEstablishes, Follows, Phases
<1>3. ASSUME NEW r \in Runs, RunFindsActive(r) \/ RunConflicts(r)
      PROVE  LaunchStep
    BY <1>3, <1>c DEF RunFindsActive, RunConflicts, Follows, Phases
<1>4. ASSUME NEW r \in Runs, RunReserves(r)
      PROVE  LaunchStep
    <2>1. launch[r].phase = "establishing" /\ Goes(r, "reserved")
        BY <1>4 DEF RunReserves
    <2> QED
        BY <1>4, <1>c, <2>1 DEF Follows, Phases
<1>5. ASSUME NEW r \in Runs, RunForgetsInactive(r)
      PROVE  LaunchStep
    <2>1. launch[r].phase = "establishing"
        BY <1>5 DEF RunForgetsInactive
    <2>2. PICK q \in Runs : launch' = [launch EXCEPT ![r].phase = "waiting", ![r].waits = q]
        BY <1>5 DEF RunForgetsInactive, Rivals
    <2> QED
        BY <1>c, <2>1, <2>2 DEF Follows, Phases
<1>6. ASSUME NEW r \in Runs, RunHasForgotten(r)
      PROVE  LaunchStep
    BY <1>6, <1>c DEF RunHasForgotten, Follows, Phases
<1>7. ASSUME NEW r \in Runs, RunOpensPane(r) \/ RunPersists(r)
      PROVE  LaunchStep
    BY <1>7, <1>c DEF RunOpensPane, RunPersists, Follows, Phases
<1>8. ASSUME NEW r \in Runs, RunActivates(r) \/ RunFails(r)
      PROVE  LaunchStep
    BY <1>8, <1>c DEF RunActivates, RunFails, Follows, Phases
<1>9. ASSUME NEW r \in Runs, RunReturns(r)
      PROVE  LaunchStep
    BY <1>9, <1>c DEF RunReturns, Follows, Phases
<1>10. ASSUME Restart
       PROVE  LaunchStep
    <2>1. ASSUME NEW r \in Runs, launch[r] # NotAsked
          PROVE  launch'[r].phase = "over" /\ launch'[r].handle = launch[r].handle
        <3>1. launch[r] \in Asked /\ launch'[r] = [launch[r] EXCEPT !.phase = "over", !.waits = None]
            BY <1>0, <1>10, <2>1 DEF Restart
        <3> QED
            BY <3>1 DEF Asked
    <2>2. ASSUME NEW r \in Runs, launch[r] = NotAsked
          PROVE  launch'[r] = launch[r]
        BY <1>10, <2>2 DEF Restart
    <2>3. ASSUME NEW r \in Runs, launch[r].phase = "new"
          PROVE  launch[r] = NotAsked
        BY <1>0, <2>3, NotAskedFacts DEF Phases
    <2> QED
        BY <2>1, <2>2, <2>3, NotAskedFacts DEF LaunchStep
<1>11. ASSUME \/ ReloadSets \/ ReloadDrops \/ ClaimCommits \/ ClaimRechecks
              \/ \E h \in Handles : \/ ForcesRelease(h)
                                    \/ \E o \in Owners : ClaimReads(o, h) \/ Releases(o, h)
       PROVE  LaunchStep
    BY <1>11, <1>a DEF ReloadSets, ReloadDrops, ClaimCommits, ClaimRechecks, ForcesRelease,
                       ClaimReads, Releases
<1>12. ASSUME NEW r \in Runs, PaneDies(r) \/ StopRemoves(r) \/ StopEnds(r) \/ PollerGoesOn(r)
       PROVE  LaunchStep
    BY <1>12, <1>a DEF PaneDies, StopRemoves, StopEnds, PollerGoesOn, PollerLeaves, PollerEnds
<1>13. CASE UNCHANGED vars
    BY <1>13, <1>a DEF vars
<1> QED
    BY <1>1, <1>2, <1>3, <1>4, <1>5, <1>6, <1>7, <1>8, <1>9, <1>10, <1>11, <1>12, <1>13
    DEF Next, RunGoesOn

-----------------------------------------------------------------------------
(* Types. *)

LEMMA TypeNext ==
    ASSUME IInv, [Next]_vars
    PROVE  TypeOK'
<1> USE DEF IInv, profileVars, claimVars, runtimeVars
<1> DEFINE Records == [phase : {"read", "committed"}, handle : Handles, owner : Owners]
           Was == /\ profiles \in [Handles -> {"absent", "free", "managed"}]
                  /\ reloading \in BOOLEAN
                  /\ claims \in [Handles -> Owners \cup {None}]
                  /\ claiming \in Records \cup {NoClaiming}
                  /\ mains \in [Handles -> Runs \cup {None}]
                  /\ ids \in [Bots -> Runs \cup {None}]
                  /\ runtimes \subseteq Runs /\ rows \subseteq Runs /\ panes \subseteq Runs
                  /\ poller \in [Runs -> {"none", "running", "removed", "done"}]
                  /\ stopping \subseteq Runs /\ stopped \subseteq Runs
                  /\ restarts \in 0..MaxRestarts
           Goal == /\ profiles' \in [Handles -> {"absent", "free", "managed"}]
                   /\ reloading' \in BOOLEAN
                   /\ claims' \in [Handles -> Owners \cup {None}]
                   /\ claiming' \in Records \cup {NoClaiming}
                   /\ mains' \in [Handles -> Runs \cup {None}]
                   /\ ids' \in [Bots -> Runs \cup {None}]
                   /\ runtimes' \subseteq Runs /\ rows' \subseteq Runs /\ panes' \subseteq Runs
                   /\ poller' \in [Runs -> {"none", "running", "removed", "done"}]
                   /\ stopping' \subseteq Runs /\ stopped' \subseteq Runs
                   /\ restarts' \in 0..MaxRestarts
<1> SUFFICES Goal
    <2> SUFFICES ASSUME Goal PROVE TypeOK'
        OBVIOUS
    <2> QED
        BY MarkersNext DEF TypeOK, Asked, Phases
<1>0. Was
    BY DEF TypeOK
<1>1. ASSUME ReloadSets \/ ReloadDrops
      PROVE  Goal
    BY <1>0, <1>1 DEF ReloadSets, ReloadDrops
<1>2. ASSUME NEW o \in Owners, NEW h \in Handles, ClaimReads(o, h)
      PROVE  Goal
    BY <1>0, <1>2 DEF ClaimReads
<1>3. claiming.phase \in {"read", "committed"} =>
        claiming \in Records /\ claiming.handle \in Handles /\ claiming.owner \in Owners
    BY <1>0 DEF NoClaiming
<1>4. ASSUME ClaimCommits
      PROVE  Goal
    <2>1. [claiming EXCEPT !.phase = "committed"] \in Records
        BY <1>3, <1>4 DEF ClaimCommits
    <2>2. claims' \in [Handles -> Owners \cup {None}] /\ claiming' \in Records \cup {NoClaiming}
        BY <1>0, <1>3, <1>4, <2>1 DEF ClaimCommits
    <2> QED
        BY <1>0, <1>4, <2>2 DEF ClaimCommits
<1>5. ASSUME ClaimRechecks
      PROVE  Goal
    BY <1>0, <1>5 DEF ClaimRechecks
<1>6. ASSUME NEW h \in Handles, ForcesRelease(h) \/ \E o \in Owners : Releases(o, h)
      PROVE  Goal
    BY <1>0, <1>6 DEF ForcesRelease, Releases
<1>7. ASSUME NEW r \in Runs, \/ RunEstablishes(r) \/ RunFindsActive(r) \/ RunConflicts(r)
                             \/ RunReturns(r) \/ \E h \in Handles : RunAsks(r, h)
      PROVE  Goal
    BY <1>0, <1>7 DEF RunAsks, RunEstablishes, RunFindsActive, RunConflicts, RunReturns
<1>8. ASSUME NEW r \in Runs, Frees(r) \/ Reserves(r)
      PROVE  mains' \in [Handles -> Runs \cup {None}] /\ ids' \in [Bots -> Runs \cup {None}]
    BY <1>0, <1>8 DEF Frees, Reserves
<1>9. ASSUME NEW r \in Runs, RunForgetsInactive(r)
      PROVE  Goal
    <2>1. PICK q \in Runs : runtimes' = runtimes \ {q} /\ Frees(q)
        BY <1>9 DEF RunForgetsInactive, Rivals
    <2> QED
        BY <1>0, <1>8, <1>9, <2>1 DEF RunForgetsInactive
<1>10. ASSUME NEW r \in Runs, RunHasForgotten(r) \/ RunOpensPane(r) \/ RunPersists(r)
       PROVE  Goal
    BY <1>0, <1>10 DEF RunHasForgotten, RunOpensPane, RunPersists
<1>11. ASSUME NEW r \in Runs, RunReserves(r) \/ RunFails(r)
       PROVE  Goal
    BY <1>0, <1>8, <1>11 DEF RunReserves, RunFails
<1>12. ASSUME NEW r \in Runs, RunActivates(r)
       PROVE  Goal
    BY <1>0, <1>8, <1>12 DEF RunActivates
<1>13. ASSUME NEW r \in Runs, PaneDies(r) \/ StopRemoves(r) \/ StopEnds(r)
       PROVE  Goal
    BY <1>0, <1>8, <1>13 DEF PaneDies, StopRemoves, StopEnds
<1>14. ASSUME NEW r \in Runs, PollerGoesOn(r)
       PROVE  Goal
    BY <1>0, <1>8, <1>14 DEF PollerGoesOn, PollerLeaves, PollerEnds
<1>15. ASSUME Restart
       PROVE  Goal
    <2>1. PICK kept \in SUBSET Runs :
         /\ runtimes' = kept /\ rows' = kept
         /\ mains' = [h \in Handles |->
                        IF \E r \in kept : Handle(r) = h
                        THEN CHOOSE r \in kept : Handle(r) = h ELSE None]
         /\ ids' = [b \in Bots |->
                      IF \E r \in kept : BotOf[Handle(r)] = b
                      THEN CHOOSE r \in kept : BotOf[Handle(r)] = b ELSE None]
         /\ poller' = [r \in Runs |-> IF r \in kept THEN "running" ELSE "none"]
        BY <1>15 DEF Restart
    <2>2. mains' \in [Handles -> Runs \cup {None}] /\ ids' \in [Bots -> Runs \cup {None}]
        BY <2>1
    <2>3. restarts' \in 0..MaxRestarts
        <3>1. restarts < MaxRestarts /\ restarts' = restarts + 1
            BY <1>15 DEF Restart
        <3>2. restarts \in 0..MaxRestarts /\ MaxRestarts \in Nat
            BY <1>0, HandlesAssumption
        <3> HIDE DEF Was, Goal
        <3> QED
            BY <3>1, <3>2
    <2> QED
        BY <1>0, <1>15, <2>1, <2>2, <2>3 DEF Restart
<1>16. CASE UNCHANGED vars
    BY <1>0, <1>16 DEF vars
<1> HIDE DEF Goal
<1> QED
    BY <1>1, <1>2, <1>4, <1>5, <1>6, <1>7, <1>9, <1>10, <1>11, <1>12, <1>13, <1>14, <1>15, <1>16
    DEF Next, RunGoesOn

-----------------------------------------------------------------------------
(* What is reserved. *)

Late == {"reserved", "opened", "persisted"}
Keeps(r) == mains[Handle(r)] = r /\ ids[BotOf[Handle(r)]] = r

\* A runtime, and a launch that has reserved, keep both reservations, so that two
\* of them are neither of one handle nor of one bot.
LEMMA HoldingNext ==
    ASSUME IInv, [Next]_vars
    PROVE  \A r \in Runs : r \in runtimes' \/ launch'[r].phase \in Late => Keeps(r)'
<1> USE DEF profileVars, claimVars, runtimeVars
<1> DEFINE Holds(r) == r \in runtimes \/ launch[r].phase \in Late
           Kept(r) == mains'[launch'[r].handle] = r /\ ids'[BotOf[launch'[r].handle]] = r
           Goal == \A r \in Runs : r \in runtimes' \/ launch'[r].phase \in Late => Kept(r)
<1> SUFFICES Goal
    BY DEF Keeps, Handle
<1>0. /\ mains \in [Handles -> Runs \cup {None}] /\ ids \in [Bots -> Runs \cup {None}]
      /\ runtimes \subseteq Runs /\ rows \subseteq Runs /\ BotOf \in [Handles -> Bots]
      /\ None \notin Runs
    BY HandlesAssumption DEF IInv, TypeOK
<1>1. ASSUME NEW r \in Runs, Holds(r)
      PROVE  Keeps(r) /\ Handle(r) \in Handles /\ launch[r].phase # "new"
    <2>1. launch[r].phase # "new"
        BY <1>1 DEF IInv, PhasesOK, Late
    <2>2. Handle(r) \in Handles
        BY <2>1, HandleType DEF IInv
    <2> QED
        BY <1>1, <2>1, <2>2 DEF IInv, OneMainRuntime, PhasesOK, Keeps, Late
<1>2. ASSUME NEW r \in Runs, r \in runtimes \/ launch[r].phase \in {"returning", "over"}
      PROVE  launch[r].phase \notin Late
    BY <1>2 DEF IInv, PhasesOK, Late
<1>3. ASSUME NEW r \in Runs, launch[r].phase # "new"
      PROVE  launch'[r].handle = Handle(r)
    BY <1>3, LaunchSteps DEF LaunchStep, Handle
<1>4. ASSUME NEW r \in Runs, launch'[r].phase \in Late, ~RunReserves(r)
      PROVE  launch[r].phase \in Late
    BY <1>4, LaunchSteps DEF LaunchStep, Late
<1>5. ASSUME NEW q \in Runs, RunReserves(q)
      PROVE  Goal
    <2>1. launch[q].phase = "establishing" /\ Rivals(q) = {} /\ Reserves(q) /\ UNCHANGED runtimes
        BY <1>5 DEF RunReserves
    <2>2. Handle(q) \in Handles /\ launch'[q].handle = Handle(q)
        BY <1>3, <2>1, HandleType DEF IInv
    <2>3. Kept(q)
        BY <1>0, <2>1, <2>2 DEF Reserves
    <2>4. ASSUME NEW r \in Runs \ {q}, r \in runtimes' \/ launch'[r].phase \in Late
          PROVE  Kept(r)
        <3>1. launch'[r] = launch[r]
            BY <2>1, <2>2, GoesMoves, <1>5 DEF IInv, RunReserves, Phases, Moved
        <3>2. Keeps(r) /\ Handle(r) \in Handles /\ launch'[r].handle = Handle(r)
            BY <1>1, <2>1, <2>4, <3>1 DEF Handle
        <3>3. Handle(r) # Handle(q) /\ BotOf[Handle(r)] # BotOf[Handle(q)]
            BY <2>1, <2>4, <3>2 DEF Rivals, Keeps
        <3> QED
            BY <1>0, <2>1, <2>2, <3>2, <3>3 DEF Reserves, Keeps
    <2> QED
        BY <2>3, <2>4
<1>6. ASSUME UNCHANGED runtimeVars
      PROVE  Goal
    <2> SUFFICES ASSUME NEW r \in Runs, r \in runtimes' \/ launch'[r].phase \in Late, ~RunReserves(r)
                 PROVE  Kept(r)
        BY <1>5
    <2>1. Holds(r)
        BY <1>4, <1>6
    <2> QED
        BY <1>1, <1>3, <1>6, <2>1 DEF Keeps
<1>7. ASSUME NEW q \in Runs, Frees(q), launch'[q].phase \notin Late, runtimes' = runtimes \ {q}
      PROVE  Goal
    <2> SUFFICES ASSUME NEW r \in Runs, r \in runtimes' \/ launch'[r].phase \in Late, ~RunReserves(r)
                 PROVE  Kept(r)
        BY <1>5
    <2>1. Holds(r) /\ r # q
        BY <1>4, <1>7
    <2>2. Keeps(r) /\ Handle(r) \in Handles /\ launch'[r].handle = Handle(r)
        BY <1>1, <1>3, <2>1
    <2> QED
        BY <1>0, <1>7, <2>1, <2>2 DEF Keeps, Frees
<1>8. ASSUME NEW q \in Runs, q \in runtimes, Frees(q), runtimes' = runtimes \ {q}
      PROVE  Goal
    <2>1. launch[q].phase \in {"returning", "over"}
        BY <1>8 DEF IInv, PhasesOK
    <2>2. launch'[q].phase \in {"returning", "over"}
        BY <2>1, LaunchSteps DEF LaunchStep
    <2> QED
        BY <1>7, <1>8, <2>2 DEF Late
<1>9. ASSUME NEW r \in Runs, RunForgetsInactive(r)
      PROVE  Goal
    BY <1>8, <1>9 DEF RunForgetsInactive, Rivals
<1>10. ASSUME NEW r \in Runs, RunFails(r)
       PROVE  Goal
    <2>1. /\ launch[r].phase \in {"reserved", "opened"} /\ Frees(r) /\ Goes(r, "returning")
          /\ UNCHANGED runtimes
        BY <1>10 DEF RunFails
    <2>2. runtimes' = runtimes \ {r}
        BY <1>2, <2>1 DEF Late
    <2>3. launch'[r].phase = "returning"
        BY <2>1, GoesMoves DEF IInv, Phases, Moved
    <2> QED
        BY <1>7, <2>1, <2>2, <2>3 DEF Late
<1>11. ASSUME NEW q \in Runs, RunActivates(q)
       PROVE  Goal
    <2>1. Holds(q) /\ Reserves(q) /\ runtimes' = runtimes \cup {q}
        BY <1>11 DEF RunActivates, Late
    <2>2. Keeps(q) /\ Handle(q) \in Handles /\ BotOf[Handle(q)] \in Bots
        BY <1>0, <1>1, <2>1
    <2>3. UNCHANGED <<mains, ids>>
        BY <1>0, <2>1, <2>2 DEF Reserves, Keeps
    <2> SUFFICES ASSUME NEW r \in Runs, r \in runtimes' \/ launch'[r].phase \in Late, ~RunReserves(r)
                 PROVE  Kept(r)
        BY <1>5
    <2>4. Holds(r)
        BY <1>4, <2>1
    <2> QED
        BY <1>1, <1>3, <2>3, <2>4 DEF Keeps
<1>12. ASSUME Restart
       PROVE  Goal
    <2>1. PICK kept \in SUBSET Runs :
         /\ Revives(kept) /\ runtimes' = kept
         /\ mains' = [h \in Handles |->
                        IF \E r \in kept : Handle(r) = h
                        THEN CHOOSE r \in kept : Handle(r) = h ELSE None]
         /\ ids' = [b \in Bots |->
                      IF \E r \in kept : BotOf[Handle(r)] = b
                      THEN CHOOSE r \in kept : BotOf[Handle(r)] = b ELSE None]
        BY <1>12 DEF Restart
    <2> SUFFICES ASSUME NEW r \in Runs, r \in runtimes' \/ launch'[r].phase \in Late, ~RunReserves(r)
                 PROVE  Kept(r)
        BY <1>5
    <2>2. launch'[r].phase \notin Late
        <3>1. launch[r] \in Asked \cup {NotAsked}
            BY LaunchType DEF IInv
        <3>2. launch'[r] = IF launch[r] = NotAsked THEN NotAsked
                           ELSE [launch[r] EXCEPT !.phase = "over", !.waits = None]
            BY <1>12 DEF Restart
        <3>3. \A l \in Asked : [l EXCEPT !.phase = "over", !.waits = None].phase = "over"
            BY DEF Asked
        <3> QED
            BY <3>1, <3>2, <3>3, NotAskedFacts DEF Late
    <2>3. r \in kept /\ r \in rows
        BY <2>1, <2>2 DEF Revives
    <2>4. launch[r].phase # "new"
        BY <2>3 DEF IInv, PhasesOK
    <2>5. Handle(r) \in Handles /\ BotOf[Handle(r)] \in Bots /\ launch'[r].handle = Handle(r)
        BY <1>3, <2>4, HandleType DEF IInv
    <2>6. \A q \in kept : BotOf[Handle(q)] = BotOf[Handle(r)] => q = r
        BY <2>1, <2>3 DEF Revives
    <2>7. (CHOOSE q \in kept : Handle(q) = Handle(r)) = r
        BY <2>3, <2>6
    <2>8. (CHOOSE q \in kept : BotOf[Handle(q)] = BotOf[Handle(r)]) = r
        BY <2>3, <2>6
    <2>9. mains'[Handle(r)] = r
        BY <2>1, <2>3, <2>5, <2>7
    <2>10. ids'[BotOf[Handle(r)]] = r
        BY <2>1, <2>3, <2>5, <2>8
    <2> QED
        BY <2>5, <2>9, <2>10
<1>13. ASSUME NEW r \in Runs, StopRemoves(r) \/ PollerGoesOn(r)
       PROVE  Goal
    <2>1. CASE UNCHANGED runtimeVars
        BY <1>6, <2>1
    <2>2. CASE StopRemoves(r)
        BY <1>8, <2>2 DEF StopRemoves
    <2>3. CASE r \in runtimes /\ PollerLeaves(r)
        BY <1>8, <2>3 DEF PollerLeaves
    <2> QED
        BY <1>13, <2>1, <2>2, <2>3 DEF PollerGoesOn, PollerLeaves, PollerEnds
<1>14. ASSUME \/ ReloadSets \/ ReloadDrops \/ ClaimCommits \/ ClaimRechecks
              \/ \E h \in Handles : \/ ForcesRelease(h)
                                    \/ \E o \in Owners : ClaimReads(o, h) \/ Releases(o, h)
                                    \/ \E r \in Runs : RunAsks(r, h)
       PROVE  UNCHANGED runtimeVars
    BY <1>14 DEF ReloadSets, ReloadDrops, ClaimCommits, ClaimRechecks, ForcesRelease,
                 ClaimReads, Releases, RunAsks
<1>15. ASSUME NEW r \in Runs,
              \/ RunEstablishes(r) \/ RunFindsActive(r) \/ RunHasForgotten(r) \/ RunConflicts(r)
              \/ RunOpensPane(r) \/ RunPersists(r) \/ RunReturns(r) \/ PaneDies(r) \/ StopEnds(r)
       PROVE  UNCHANGED runtimeVars
    BY <1>15 DEF RunEstablishes, RunFindsActive, RunHasForgotten, RunConflicts, RunOpensPane,
                 RunPersists, RunReturns, PaneDies, StopEnds
<1>16. CASE UNCHANGED vars
    BY <1>6, <1>16 DEF vars
<1> HIDE DEF Goal
<1> QED
    BY <1>5, <1>6, <1>9, <1>10, <1>11, <1>12, <1>13, <1>14, <1>15, <1>16 DEF Next, RunGoesOn

-----------------------------------------------------------------------------
(* Rows, stops and claims. *)

LEMMA PhasesNext ==
    ASSUME IInv, [Next]_vars
    PROVE  PhasesOK' /\ StoppedStaysStopped'
<1> USE DEF profileVars, claimVars, runtimeVars
<1> DEFINE Begun == {r \in Runs : launch[r].phase \in {"returning", "over"}}
           Written == {r \in Runs : launch[r].phase \in {"persisted", "returning", "over"}}
           Late1 == {r \in Runs : launch'[r].phase \in {"returning", "over"}}
           Late2 == {r \in Runs : launch'[r].phase \in {"persisted", "returning", "over"}}
           Goal == /\ rows' \subseteq Late2
                   /\ runtimes' \cup stopping' \cup stopped' \subseteq Late1
                   /\ stopping' \cap runtimes' = {}
                   /\ stopped' \cap (runtimes' \cup rows') = {}
<1> SUFFICES Goal
    <2> SUFFICES ASSUME Goal PROVE PhasesOK' /\ StoppedStaysStopped'
        OBVIOUS
    <2>1. \A r \in Runs : launch'[r].phase \in {"reserved", "opened", "persisted"} => Keeps(r)'
        BY HoldingNext DEF Late
    <2> QED
        BY <2>1 DEF PhasesOK, StoppedStaysStopped, Keeps
<1>0. /\ rows \subseteq Written /\ runtimes \cup stopping \cup stopped \subseteq Begun
      /\ stopping \cap runtimes = {} /\ stopped \cap (runtimes \cup rows) = {}
    BY DEF IInv, TypeOK, PhasesOK, StoppedStaysStopped
<1>1. Begun \subseteq Late1 /\ Written \subseteq Late2
    BY LaunchSteps DEF LaunchStep
<1>2. ASSUME rows' \subseteq rows, runtimes' \subseteq runtimes, stopped' = stopped,
             stopping' \subseteq stopping
      PROVE  Goal
    BY <1>0, <1>1, <1>2
<1>3. ASSUME NEW r \in Runs, RunPersists(r)
      PROVE  Goal
    <2>1. /\ launch[r].phase = "opened" /\ rows' = rows \cup {r} /\ Goes(r, "persisted")
          /\ UNCHANGED <<runtimes, stopping, stopped>>
        BY <1>3 DEF RunPersists
    <2>2. launch'[r].phase = "persisted"
        BY <2>1, GoesMoves DEF IInv, Phases, Moved
    <2> QED
        BY <1>0, <1>1, <2>1, <2>2
<1>4. ASSUME NEW r \in Runs, RunActivates(r)
      PROVE  Goal
    <2>1. /\ launch[r].phase = "persisted" /\ runtimes' = runtimes \cup {r} /\ Goes(r, "returning")
          /\ UNCHANGED <<rows, stopping, stopped>>
        BY <1>4 DEF RunActivates
    <2>2. launch'[r].phase = "returning"
        BY <2>1, GoesMoves DEF IInv, Phases, Moved
    <2> QED
        BY <1>0, <1>1, <2>1, <2>2
<1>5. ASSUME NEW r \in Runs, StopRemoves(r)
      PROVE  Goal
    BY <1>0, <1>1, <1>5 DEF StopRemoves
<1>6. ASSUME NEW r \in Runs, StopEnds(r)
      PROVE  Goal
    BY <1>0, <1>1, <1>6 DEF StopEnds
<1>7. ASSUME Restart
      PROVE  Goal
    <2>1. PICK kept \in SUBSET Runs : Revives(kept) /\ runtimes' = kept /\ rows' = kept
        BY <1>7 DEF Restart
    <2>2. kept \subseteq rows
        BY <2>1 DEF Revives
    <2>3. ASSUME NEW r \in kept
          PROVE  r \in Late1 /\ r \in Late2
        <3>1. launch[r].phase \in {"persisted", "returning", "over"}
            BY <1>0, <2>2, <2>3
        <3>2. launch[r] \in Asked /\ launch[r] # NotAsked
            BY <2>3, <3>1, LaunchType, NotAskedFacts DEF IInv
        <3>3. launch'[r] = [launch[r] EXCEPT !.phase = "over", !.waits = None]
            BY <1>7, <2>3, <3>2 DEF Restart
        <3>4. launch'[r].phase = "over"
            BY <3>2, <3>3 DEF Asked
        <3> QED
            BY <2>3, <3>4
    <2>4. stopping' = {} /\ stopped' = stopped
        BY <1>7 DEF Restart
    <2> QED
        BY <1>0, <1>1, <2>1, <2>2, <2>3, <2>4
<1>8. ASSUME \/ ReloadSets \/ ReloadDrops \/ ClaimCommits \/ ClaimRechecks
             \/ \E h \in Handles : \/ ForcesRelease(h)
                                   \/ \E o \in Owners : ClaimReads(o, h) \/ Releases(o, h)
                                   \/ \E r \in Runs : RunAsks(r, h)
      PROVE  Goal
    BY <1>2, <1>8 DEF ReloadSets, ReloadDrops, ClaimCommits, ClaimRechecks, ForcesRelease,
                      ClaimReads, Releases, RunAsks
<1>9. ASSUME NEW r \in Runs,
             \/ RunEstablishes(r) \/ RunFindsActive(r) \/ RunHasForgotten(r) \/ RunConflicts(r)
             \/ RunOpensPane(r) \/ RunReturns(r) \/ PaneDies(r) \/ RunForgetsInactive(r)
             \/ RunReserves(r) \/ RunFails(r) \/ PollerGoesOn(r)
      PROVE  /\ rows' \subseteq rows /\ runtimes' \subseteq runtimes
             /\ UNCHANGED <<stopped, stopping>>
    BY <1>9 DEF RunEstablishes, RunFindsActive, RunHasForgotten, RunConflicts, RunOpensPane,
                RunReturns, PaneDies, RunForgetsInactive, RunReserves, RunFails, PollerGoesOn,
                PollerLeaves, PollerEnds
<1>10. CASE UNCHANGED vars
    BY <1>2, <1>10 DEF vars
<1> HIDE DEF Goal
<1> QED
    BY <1>2, <1>3, <1>4, <1>5, <1>6, <1>7, <1>8, <1>9, <1>10 DEF Next, RunGoesOn

\* A claim is recorded only where no marker is up, and a launch reserves only
\* while its own is.
LEMMA ClaimRuntimeNext ==
    ASSUME IInv, [Next]_vars
    PROVE  ClaimExcludesRuntime'
<1> USE DEF profileVars, claimVars, runtimeVars
<1> DEFINE Goal == \A h \in Handles : claims'[h] # None => mains'[h] = None /\ establishing'[h] = 0
<1> SUFFICES Goal
    BY DEF ClaimExcludesRuntime
<1>0. /\ mains \in [Handles -> Runs \cup {None}]
      /\ claims \in [Handles -> Owners \cup {None}]
      /\ establishing = [h \in Handles |-> Cardinality(Marked(h))]
      /\ \A h \in Handles : claims[h] # None => mains[h] = None /\ establishing[h] = 0
    BY DEF IInv, TypeOK, ClaimExcludesRuntime
<1>1. ASSUME \A h \in Handles : claims'[h] \in {claims[h], None},
             \A h \in Handles : mains'[h] \in {mains[h], None},
             \A h \in Handles : establishing[h] = 0 => establishing'[h] = 0
      PROVE  Goal
    BY <1>0, <1>1
<1>2. ASSUME ClaimCommits
      PROVE  Goal
    BY <1>0, <1>2 DEF ClaimCommits
<1>3. ASSUME \/ ReloadSets \/ ReloadDrops \/ ClaimRechecks
             \/ \E h \in Handles : \/ ForcesRelease(h)
                                   \/ \E o \in Owners : ClaimReads(o, h) \/ Releases(o, h)
                                   \/ \E r \in Runs : RunAsks(r, h)
      PROVE  Goal
    <2>1. UNCHANGED <<mains, establishing>>
        BY <1>3 DEF ReloadSets, ReloadDrops, ClaimRechecks, ForcesRelease, ClaimReads, Releases, RunAsks
    <2>2. \A h \in Handles : claims'[h] \in {claims[h], None}
        BY <1>0, <1>3 DEF ReloadSets, ReloadDrops, ClaimRechecks, ForcesRelease, ClaimReads, Releases, RunAsks
    <2> QED
        BY <1>1, <2>1, <2>2
<1>4. ASSUME NEW r \in Runs, RunEstablishes(r)
      PROVE  Goal
    BY <1>0, <1>4 DEF RunEstablishes
<1>5. ASSUME NEW r \in Runs, RunReturns(r)
      PROVE  Goal
    BY <1>0, <1>5 DEF RunReturns, TakesDown
<1>6. ASSUME NEW r \in Runs, RunReserves(r) \/ RunActivates(r)
      PROVE  Goal
    <2>1. launch[r].phase \in Marking /\ launch[r].phase # "new" /\ Reserves(r)
        BY <1>6 DEF RunReserves, RunActivates, Marking
    <2>2. Handle(r) \in Handles
        BY <2>1, HandleType DEF IInv
    <2>3. establishing[Handle(r)] # 0
        BY <2>1, <2>2, Counts DEF IInv, Handle
    <2>4. mains' = [mains EXCEPT ![Handle(r)] = r] /\ UNCHANGED <<claims, establishing>>
        BY <1>6, <2>1 DEF RunReserves, RunActivates, Reserves
    <2> QED
        BY <1>0, <2>2, <2>3, <2>4
<1>7. ASSUME NEW q \in Runs, Frees(q) \/ UNCHANGED mains
      PROVE  \A h \in Handles : mains'[h] \in {mains[h], None}
    BY <1>7 DEF Frees
<1>8. ASSUME NEW r \in Runs,
             \/ RunFindsActive(r) \/ RunHasForgotten(r) \/ RunConflicts(r)
             \/ RunOpensPane(r) \/ RunPersists(r) \/ RunFails(r) \/ PaneDies(r)
             \/ StopRemoves(r) \/ StopEnds(r) \/ PollerGoesOn(r)
      PROVE  UNCHANGED <<claims, establishing>> /\ (Frees(r) \/ UNCHANGED mains)
    BY <1>8 DEF RunFindsActive, RunHasForgotten, RunConflicts, RunOpensPane, RunPersists,
                RunFails, PaneDies, StopRemoves, StopEnds, PollerGoesOn, PollerLeaves, PollerEnds
<1>9. ASSUME NEW r \in Runs, RunForgetsInactive(r)
      PROVE  Goal
    <2>1. PICK q \in Runs : Frees(q)
        BY <1>9 DEF RunForgetsInactive, Rivals
    <2>2. UNCHANGED <<claims, establishing>>
        BY <1>9 DEF RunForgetsInactive
    <2> QED
        BY <1>1, <1>7, <2>1, <2>2
<1>10. ASSUME Restart
       PROVE  Goal
    BY <1>10 DEF Restart
<1>11. CASE UNCHANGED vars
    BY <1>0, <1>11 DEF vars
<1>12. ASSUME UNCHANGED <<claims, establishing>>, NEW r \in Runs, Frees(r) \/ UNCHANGED mains
       PROVE  Goal
    BY <1>1, <1>7, <1>12
<1> HIDE DEF Goal
<1> QED
    BY <1>2, <1>3, <1>4, <1>5, <1>6, <1>8, <1>9, <1>10, <1>11, <1>12 DEF Next, RunGoesOn

\* A claim looks again after it is recorded; a reload drops after it has loaded.
LEMMA ClaimManagedNext ==
    ASSUME IInv, [Next]_vars
    PROVE  ClaimExcludesManaged'
<1> USE DEF profileVars, claimVars, runtimeVars
<1> DEFINE Goal == \A h \in Handles :
                     claims'[h] # None /\ profiles'[h] = "managed" =>
                         reloading' \/ (claiming'.phase = "committed" /\ claiming'.handle = h)
<1> SUFFICES Goal
    BY DEF ClaimExcludesManaged
<1>0. /\ claims \in [Handles -> Owners \cup {None}]
      /\ claiming \in [phase : {"read", "committed"}, handle : Handles, owner : Owners]
                      \cup {NoClaiming}
      /\ \A h \in Handles :
           claims[h] # None /\ profiles[h] = "managed" =>
               reloading \/ (claiming.phase = "committed" /\ claiming.handle = h)
    BY DEF IInv, TypeOK, ClaimExcludesManaged
<1>1. ASSUME \A h \in Handles : claims'[h] \in {claims[h], None},
             UNCHANGED <<profiles, reloading, claiming>>
      PROVE  Goal
    BY <1>0, <1>1
<1>2. CASE ReloadSets
    BY <1>2 DEF ReloadSets
<1>3. CASE ReloadDrops
    BY <1>0, <1>3 DEF ReloadDrops
<1>4. ASSUME NEW h \in Handles, NEW o \in Owners, ClaimReads(o, h)
      PROVE  Goal
    BY <1>0, <1>4 DEF ClaimReads, EstablishFree, ProfilesFree, NoClaiming
<1>5. CASE ClaimCommits
    <2>1. claiming \in [phase : {"read", "committed"}, handle : Handles, owner : Owners]
        BY <1>0, <1>5 DEF ClaimCommits, NoClaiming
    <2>2. ASSUME claims' = [claims EXCEPT ![claiming.handle] = claiming.owner],
                 claiming' = [claiming EXCEPT !.phase = "committed"]
          PROVE  Goal
        <3>1. claiming'.phase = "committed" /\ claiming'.handle = claiming.handle
            BY <2>1, <2>2
        <3>2. claiming.phase = "read" /\ UNCHANGED <<profiles, reloading>>
            BY <1>5 DEF ClaimCommits
        <3> QED
            BY <1>0, <2>2, <3>1, <3>2
    <2>3. ASSUME claiming' = NoClaiming, UNCHANGED claims
          PROVE  Goal
        BY <1>0, <1>5, <2>3 DEF ClaimCommits
    <2> QED
        BY <1>5, <2>2, <2>3 DEF ClaimCommits
<1>6. CASE ClaimRechecks
    BY <1>0, <1>6 DEF ClaimRechecks, ProfilesFree
<1>7. ASSUME NEW h \in Handles,
             \/ ForcesRelease(h)
             \/ \E o \in Owners : Releases(o, h)
             \/ \E r \in Runs : RunAsks(r, h)
      PROVE  Goal
    BY <1>0, <1>1, <1>7 DEF ForcesRelease, Releases, RunAsks
<1>8. ASSUME NEW r \in Runs,
             \/ RunGoesOn(r) \/ RunReturns(r) \/ PaneDies(r) \/ StopRemoves(r) \/ StopEnds(r)
             \/ PollerGoesOn(r)
      PROVE  UNCHANGED <<claims, profiles, reloading, claiming>>
    BY <1>8 DEF RunGoesOn, RunEstablishes, RunFindsActive, RunForgetsInactive, RunHasForgotten,
                RunReserves, RunConflicts, RunOpensPane, RunPersists, RunFails, RunActivates,
                RunReturns, PaneDies, StopRemoves, StopEnds, PollerGoesOn, PollerLeaves, PollerEnds
<1>9. CASE Restart
    BY <1>9 DEF Restart
<1>10. CASE UNCHANGED vars
    BY <1>0, <1>10 DEF vars
<1>11. ASSUME UNCHANGED <<claims, profiles, reloading, claiming>>
       PROVE  Goal
    BY <1>0, <1>11
<1> HIDE DEF Goal
<1> QED
    BY <1>2, <1>3, <1>4, <1>5, <1>6, <1>7, <1>8, <1>9, <1>10, <1>11 DEF Next

-----------------------------------------------------------------------------
(* The theorems. *)

LEMMA InvInit == Init => IInv
<1> SUFFICES ASSUME Init PROVE IInv
    OBVIOUS
<1>1. \A h \in Handles : Marked(h) = {}
    BY NotAskedFacts DEF Init, Marked, Marking
<1>2. IsFiniteSet({}) /\ Cardinality({}) = 0
    BY FS_EmptySet
<1>3. establishing = [h \in Handles |-> Cardinality(Marked(h))]
    BY <1>1, <1>2 DEF Init
<1>4. launch \in [Runs -> Asked \cup {NotAsked}]
    BY DEF Init
<1>5. TypeOK
    <2>1. 0 \in 0..MaxRestarts
        BY HandlesAssumption
    <2>2. restarts \in 0..MaxRestarts /\ reloading \in BOOLEAN
        BY <2>1 DEF Init
    <2> QED
        BY <1>3, <1>4, <2>2 DEF TypeOK, Init, Asked, Phases
<1> QED
    BY <1>1, <1>2, <1>5, NotAskedFacts
    DEF Init, IInv, MarkersFinite, PhasesOK, OneMainRuntime, StoppedStaysStopped,
        ClaimExcludesRuntime, ClaimExcludesManaged

LEMMA InvStep == IInv /\ [Next]_vars => IInv'
<1> SUFFICES ASSUME IInv, [Next]_vars PROVE IInv'
    OBVIOUS
<1>1. TypeOK' /\ MarkersFinite'
    BY TypeNext, MarkersNext
<1>2. OneMainRuntime'
    BY <1>1, HoldingNext DEF OneMainRuntime, Keeps, TypeOK
<1> QED
    BY <1>1, <1>2, PhasesNext, ClaimRuntimeNext, ClaimManagedNext DEF IInv

THEOREM ListenInvariant == Spec => []IInv
BY InvInit, InvStep, PTL DEF Spec

\* The state is well formed, and establishingMain counts the launches that are
\* under way: no return, failure or restart leaves a marker up or takes one down
\* twice (reserveMainEstablish and its release).
THEOREM ListenTypeCorrect == Spec => []TypeOK
<1>1. IInv => TypeOK
    BY DEF IInv
<1> QED
    BY <1>1, ListenInvariant, PTL

\* While a claim is held, no main runtime drives its handle and none is being
\* started: listen.claim and `comment run` exclude each other although each looks
\* at several places at several times.
THEOREM ClaimsAndRuntimesExclude == Spec => []ClaimExcludesRuntime
<1>1. IInv => ClaimExcludesRuntime
    BY DEF IInv
<1> QED
    BY <1>1, ListenInvariant, PTL

\* No claim is left on a managed handle when the reload, or the claim, has ended.
THEOREM ClaimsLeaveManaged == Spec => []ClaimExcludesManaged
<1>1. IInv => ClaimExcludesManaged
    BY DEF IInv
<1> QED
    BY <1>1, ListenInvariant, PTL

\* What the daemon tracks is what is reserved, for one handle and for one bot,
\* through failed launches, forgotten and stopped runtimes and restarts.
THEOREM RuntimesAreReserved == Spec => []OneMainRuntime
<1>1. IInv => OneMainRuntime
    BY DEF IInv
<1> QED
    BY <1>1, ListenInvariant, PTL

\* A runtime whose stop was answered with success is neither tracked nor in the
\* store ever after, so that no restart takes it up again.
THEOREM StopsLast == Spec => []StoppedStaysStopped
<1>1. IInv => StoppedStaysStopped
    BY DEF IInv
<1> QED
    BY <1>1, ListenInvariant, PTL
=============================================================================
