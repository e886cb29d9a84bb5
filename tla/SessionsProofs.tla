--------------------------- MODULE SessionsProofs ---------------------------
(* The sessions' records for any sessions, hosts, caps, days and failures.   *)
EXTENDS Sessions, TLAPS

Relaunching == {"relaunch", "relaunchUp", "relaunchAlive"}
Sweeping == Relaunching \union {"sweep", "mark", "clean", "free", "fenceKill"}
Creating == {"register", "launch", "activate"}
Ending == {"pending", "request", "prompt", "prompted", "log", "die", "dieKill",
           "dieFree"}

\* An operation knows its session and, between the death of a session and its
\* replacement, the old one; the live ones are kept for the sweep alone.
PlaceOK(o) ==
    /\ o.at \notin {"idle", "sweep", "register"} => o.cur \in Sessions
    /\ o.at = "record" => o.old \in Sessions
    /\ o.at \in Relaunching => o.next # "end"
    /\ o.live # {} => o.at \in Sweeping /\ (o.at \in Relaunching => o.next = "sweep")
    /\ o.at \in Ending \/ (o.at \in Relaunching /\ o.next = "pending") =>
         o.kind \in {"reset", "complete"}
    /\ o.old # None =>
         /\ o.kind \in {"reset", "complete"}
         /\ o.at \in Sweeping \union Creating \union {"record"}
         /\ o.at \in Relaunching => o.next = "sweep"

\* What a session is that never runs again.
Over == {"stale", "dead"}

\* A handoff is on disk before its session is replaced.
Handed(r) == r.reset \in {"replacing", "completed"} => r.date \in logs

\* A record in memory was read of a session that ran.
MemoryOK(o) ==
    /\ o.mem.reset # "replacing"
    /\ Handed(o.mem)
    /\ o.first # None => o.first.reset # "replacing" /\ Handed(o.first)

ParkedOK ==
    parked # None =>
        /\ parked.at = "head"
        /\ PlaceOK(parked)
        /\ MemoryOK(parked)

RecordsOK ==
    \A s \in Sessions :
        Handed(rec[s]) /\ (rec[s].reset = "replacing" => rec[s].state \in Over)

\* What the record of the operation's session says at each place.
DyingOK ==
    /\ op.at \in {"die", "dieKill", "dieFree"} => rec[op.cur].date \in logs
    /\ op.at \in {"dieKill", "dieFree"} => rec[op.cur].state \in Over
    /\ op.at \in {"fenceKill", "stopKill"} /\ rec[op.cur].reset = "replacing" =>
         op.was \in Over
    /\ op.old # None => rec[op.old].date \in logs /\ rec[op.old].state \in Over

LivingOK ==
    /\ \A s \in op.live : rec[s].state # "dead" /\ rec[s].reset # "replacing"
    /\ op.at \in {"launch", "activate"} => rec[op.cur].state = "starting"
    /\ op.old \notin op.live
    /\ op.at = "record" => op.cur # op.old /\ rec[op.cur].reset # "replacing"
    /\ op.at \in {"type", "count"} => op.mem.state = "alive"
    /\ op.kind # "reuse" =>
         /\ op.at \in Relaunching \union {"sync"} => Running(op.cur)
         /\ op.at = "mark" /\ op.kind # "repair" => rec[op.cur].state # "dead"
         /\ op.at \in {"head", "send", "type", "count"} =>
              op.mem.state = rec[op.cur].state

IInv ==
    /\ SSTypeOK
    /\ PlaceOK(op)
    /\ MemoryOK(op)
    /\ ParkedOK
    /\ RecordsOK
    /\ DyingOK
    /\ LivingOK

\* The constants that stand for nothing.
LEMMA NoneIsNoSession == None \notin Sessions
BY SessionsAssumption, NoneAssumption DEF Sessions

LEMMA BlankIsRecord == Blank \in Record
BY CapAssumption, BoundAssumption DEF Blank, Record

LEMMA NoOpFits ==
    /\ NoOp \in Operation
    /\ NoOp.at = "idle" /\ NoOp.live = {} /\ NoOp.old = None /\ NoOp.first = None
    /\ NoOp.kind = "none" /\ NoOp.next = "end" /\ NoOp.mem.reset = "none"
<1>1. NoOp \in Operation
    BY BlankIsRecord DEF NoOp, Operation, Kinds, Places
<1> QED
    BY <1>1 DEF NoOp, Blank

\* An operation begins without sessions in hand,
LEMMA DoesFits ==
    ASSUME NEW kind \in Kinds, NEW place \in Places, NEW s \in Sessions \union {None}
    PROVE  /\ Does(kind, place, s) \in Operation
           /\ Does(kind, place, s).at = place /\ Does(kind, place, s).cur = s
           /\ Does(kind, place, s).kind = kind /\ Does(kind, place, s).next = "end"
           /\ Does(kind, place, s).live = {} /\ Does(kind, place, s).old = None
           /\ Does(kind, place, s).first = None
           /\ Does(kind, place, s).mem.reset = "none"
<1>1. ASSUME NEW o \in Operation
      PROVE  LET d == [o EXCEPT !.kind = kind, !.at = place, !.cur = s]
             IN  /\ d \in Operation
                 /\ d.at = place /\ d.cur = s /\ d.kind = kind /\ d.next = o.next
                 /\ d.live = o.live /\ d.old = o.old /\ d.first = o.first
                 /\ d.mem = o.mem
    BY DEF Operation
<1> QED
    BY <1>1, NoOpFits DEF Does

\* and a sweep with all of them before it.
LEMMA SweepsFits ==
    ASSUME NEW o \in Operation
    PROVE  /\ Sweeps(o) \in Operation
           /\ Sweeps(o).at = "sweep" /\ Sweeps(o).live = {}
           /\ Sweeps(o).kind = o.kind /\ Sweeps(o).old = o.old
           /\ Sweeps(o).mem = o.mem /\ Sweeps(o).first = o.first
           /\ Sweeps(o).next = o.next
<1>1. Known \subseteq Sessions
    BY DEF Known
<1> QED
    BY <1>1 DEF Sweeps, Operation, Places

\* A session whose agent has ended is launched again, or marked.
LEMMA GoneFits ==
    ASSUME op \in Operation, NEW next \in {"sweep", "pending", "send", "sync"},
           Gone(next)
    PROVE  /\ op' \in Operation
           /\ \/ op'.at = "relaunch" /\ op'.next = next
              \/ op'.at = "mark" /\ op'.next = "end"
           /\ op'.kind = op.kind /\ op'.cur = op.cur /\ op'.live = op.live
           /\ op'.old = op.old /\ op'.mem = op.mem /\ op'.first = op.first
<1>1. CASE Relaunchable(op.cur)
    <2>1. op' = [op EXCEPT !.at = "relaunch", !.next = next]
        BY <1>1 DEF Gone
    <2> QED
        BY <2>1 DEF Operation, Places
<1>2. CASE ~Relaunchable(op.cur)
    <2>1. op' = [op EXCEPT !.at = "mark", !.next = "end"]
        BY <1>2 DEF Gone
    <2> QED
        BY <2>1 DEF Operation, Places
<1> QED
    BY <1>1, <1>2

\* What a nudge that comes to nothing leaves to do.
LEMMA NothingSentFits ==
    ASSUME NEW o \in Operation
    PROVE  \/ NothingSent(o) = NoOp
           \/ /\ o.first # None
              /\ NothingSent(o) \in Operation
              /\ NothingSent(o).at = "head" /\ NothingSent(o).kind = "reuse"
              /\ NothingSent(o).mem = o.first /\ NothingSent(o).first = None
              /\ NothingSent(o).cur = o.cur /\ NothingSent(o).live = o.live
              /\ NothingSent(o).old = o.old
<1>1. CASE o.first = None
    BY <1>1 DEF NothingSent
<1>2. CASE o.first # None
    <2>1. NothingSent(o) = [o EXCEPT !.at = "head", !.kind = "reuse",
                                     !.mem = o.first, !.first = None]
        BY <1>2 DEF NothingSent
    <2>2. o.first \in Record
        BY <1>2 DEF Operation
    <2> QED
        BY <1>2, <2>1, <2>2 DEF Operation, Places, Kinds
<1> QED
    BY <1>1, <1>2

LEMMA SweepBegins ==
    ASSUME NEW kind \in Kinds, NEW o, o = Sweeps(Does(kind, "sweep", None))
    PROVE  /\ o \in Operation /\ o.at = "sweep" /\ o.kind = kind
           /\ o.live = {} /\ o.old = None /\ o.first = None
           /\ o.mem.reset = "none" /\ o.next = "end"
<1> DEFINE d == Does(kind, "sweep", None)
<1>1. "sweep" \in Places /\ None \in Sessions \union {None}
    BY DEF Places
<1>2. /\ d \in Operation /\ d.kind = kind /\ d.old = None /\ d.first = None
      /\ d.mem.reset = "none" /\ d.next = "end"
    BY <1>1, DoesFits
<1>3. o = Sweeps(d)
    OBVIOUS
<1> HIDE DEF d
<1> QED
    BY <1>2, <1>3, SweepsFits

\* A dispatch turns to the queue's head with the session's record in memory.
Turned(o, s, r, again) ==
    [o EXCEPT !.at = "head", !.cur = s, !.mem = r, !.first = again, !.live = {}]
Follows(o, r, again) == [o EXCEPT !.at = "head", !.mem = r, !.first = again]

LEMMA HeadFits ==
    ASSUME NEW o \in Operation, NEW s \in Sessions, NEW r \in Record,
           NEW again \in Record \union {None}
    PROVE  /\ Turned(o, s, r, again) \in Operation
           /\ Turned(o, s, r, again).at = "head" /\ Turned(o, s, r, again).cur = s
           /\ Turned(o, s, r, again).kind = o.kind /\ Turned(o, s, r, again).mem = r
           /\ Turned(o, s, r, again).first = again /\ Turned(o, s, r, again).live = {}
           /\ Turned(o, s, r, again).old = o.old
<1>1. "head" \in Places /\ {} \in SUBSET Sessions
    BY DEF Places
<1> QED
    BY <1>1 DEF Operation, Turned

LEMMA SweptHeadFits ==
    ASSUME SSTypeOK, NEW s \in Sessions, NEW again \in Record \union {None}
    PROVE  /\ Turned(op, s, rec[s], again) \in Operation
           /\ Turned(op, s, rec[s], again).at = "head"
           /\ Turned(op, s, rec[s], again).cur = s
           /\ Turned(op, s, rec[s], again).kind = op.kind
           /\ Turned(op, s, rec[s], again).mem = rec[s]
           /\ Turned(op, s, rec[s], again).first = again
           /\ Turned(op, s, rec[s], again).live = {}
           /\ Turned(op, s, rec[s], again).old = op.old
<1>1. rec[s] \in Record /\ op \in Operation
    BY DEF SSTypeOK
<1> QED
    BY <1>1, HeadFits

LEMMA HeadHereFits ==
    ASSUME NEW o \in Operation, NEW r \in Record,
           NEW again \in Record \union {None}
    PROVE  /\ Follows(o, r, again) \in Operation
           /\ Follows(o, r, again).at = "head" /\ Follows(o, r, again).cur = o.cur
           /\ Follows(o, r, again).kind = o.kind /\ Follows(o, r, again).mem = r
           /\ Follows(o, r, again).first = again
           /\ Follows(o, r, again).live = o.live /\ Follows(o, r, again).old = o.old
<1>1. "head" \in Places
    BY DEF Places
<1> QED
    BY <1>1 DEF Operation, Follows

\* A record that is written is a record, with the handoff it had, and the others
\* stay as they are.
LEMMA WritesRecord ==
    ASSUME SSTypeOK, MemoryOK(op), RecordsOK, NEW s \in Sessions,
           NEW state \in {"starting", "alive", "stale", "dead"}, Writes(s, state)
    PROVE  /\ rec' \in [Sessions -> Record]
           /\ rec'[s].state = state
           /\ \A r \in Sessions \ {s} : rec'[r] = rec[r]
           /\ op.kind # "reuse" \/ s # op.cur =>
                  /\ rec'[s].reset = rec[s].reset
                  /\ rec'[s].date = rec[s].date
           /\ Handed(rec'[s])
           /\ op.kind = "reuse" /\ s = op.cur => rec'[s].reset # "replacing"
<1> DEFINE h == Held(s)
<1>1. h \in Record /\ Handed(h)
    BY DEF Held, SSTypeOK, Operation, MemoryOK, RecordsOK
<1>2. op.kind # "reuse" \/ s # op.cur => h = rec[s]
    BY DEF Held
<1>3. op.kind = "reuse" /\ s = op.cur => h = op.mem
    BY DEF Held
<1>4. rec' = [rec EXCEPT ![s] = [h EXCEPT !.state = state]]
    BY DEF Writes
<1> HIDE DEF h
<1>5. [h EXCEPT !.state = state] \in Record /\ [h EXCEPT !.state = state].state = state
      /\ [h EXCEPT !.state = state].reset = h.reset
      /\ [h EXCEPT !.state = state].date = h.date
    BY <1>1 DEF Record
<1> QED
    BY <1>1, <1>2, <1>3, <1>4, <1>5 DEF SSTypeOK, MemoryOK, Handed

LEMMA StepInductive == IInv /\ [SSNext]_vars => IInv'
<1> SUFFICES ASSUME IInv, [SSNext]_vars PROVE IInv'
    OBVIOUS
<1> USE SessionsAssumption, CapAssumption, NoneAssumption, BoundAssumption
<1>1. ASSUME Mark PROVE IInv'
    <2> USE <1>1 DEF IInv, Mark, Go, At, world
    <2>0. /\ op.cur \in Sessions
          /\ rec' \in [Sessions -> Record]
          /\ rec'[op.cur].state = "stale"
          /\ \A r \in Sessions \ {op.cur} : rec'[r] = rec[r]
          /\ op.kind # "reuse" \/ op.cur # op.cur =>
               /\ rec'[op.cur].reset = rec[op.cur].reset
               /\ rec'[op.cur].date = rec[op.cur].date
          /\ Handed(rec'[op.cur])
          /\ op.kind = "reuse" /\ op.cur = op.cur => rec'[op.cur].reset # "replacing"
        BY WritesRecord DEF PlaceOK
    <2>1. op' \in Operation
        BY <2>0 DEF SSTypeOK, Operation, Places
    <2>2. SSTypeOK'
        BY <2>0, <2>1 DEF SSTypeOK
    <2>3. PlaceOK(op')
        BY <2>0 DEF PlaceOK, Relaunching, Sweeping, Creating, Ending
    <2>4. MemoryOK(op)'
        BY <2>0 DEF MemoryOK, Handed
    <2>5. ParkedOK'
        BY <2>0 DEF ParkedOK, MemoryOK, Handed
    <2>6. RecordsOK'
        BY <2>0 DEF SSTypeOK, RecordsOK, Handed, DyingOK, LivingOK, PlaceOK, Over
    <2>7. DyingOK'
        BY <2>0 DEF SSTypeOK, Operation, DyingOK, RecordsOK, Handed, LivingOK, PlaceOK, Over
    <2>8. LivingOK'
        BY <2>0 DEF SSTypeOK, Operation, LivingOK, Relaunching, Running
    <2> QED
        BY <2>1, <2>2, <2>3, <2>4, <2>5, <2>6, <2>7, <2>8
<1>2. ASSUME Clean PROVE IInv'
    <2> USE <1>2 DEF IInv, Clean, Kills, Go, At, world
    <2>1. op' \in Operation
        BY DEF SSTypeOK, Operation, Places
    <2>2. SSTypeOK'
        BY <2>1 DEF SSTypeOK
    <2>3. PlaceOK(op')
        BY DEF PlaceOK, Relaunching, Sweeping, Creating, Ending
    <2>4. MemoryOK(op)'
        BY DEF MemoryOK, Handed
    <2>5. ParkedOK'
        BY DEF ParkedOK, MemoryOK, Handed
    <2>6. RecordsOK'
        BY DEF RecordsOK, Handed
    <2>7. DyingOK'
        BY DEF DyingOK
    <2>8. LivingOK'
        BY DEF SSTypeOK, Operation, LivingOK, Relaunching, Running
    <2> QED
        BY <2>1, <2>2, <2>3, <2>4, <2>5, <2>6, <2>7, <2>8
<1>3. ASSUME Free PROVE IInv'
    <2> USE <1>3 DEF IInv, Free, Frees, End, At, world
    <2>b. \/ op' = NoOp
          \/ /\ op' \in Operation
             /\ op'.at = "sweep" /\ op'.kind = op.kind /\ op'.live = op.live
             /\ op'.old = op.old /\ op'.mem = op.mem
             /\ op'.first = Blank \/ op'.first = op.first
        <3>1. CASE op.next = "sweep"
            <4> DEFINE f == IF op.kind = "dispatch" /\ holder' # holder
                            THEN Blank ELSE op.first
            <4>1. op' = [op EXCEPT !.at = "sweep", !.next = "end", !.was = "none",
                           !.cur = None, !.first = f]
                BY <3>1
            <4>2. f \in Record \union {None} /\ (f = Blank \/ f = op.first)
                BY BlankIsRecord DEF SSTypeOK, Operation
            <4> HIDE DEF f
            <4> QED
                BY <4>1, <4>2 DEF SSTypeOK, Operation, Places
        <3>2. CASE op.next # "sweep"
            BY <3>2
        <3> QED
            BY <3>1, <3>2
    <2>1. op' \in Operation
        BY NoOpFits, NoneIsNoSession, BlankIsRecord, <2>b DEF SSTypeOK, Operation,
           Places
    <2>2. SSTypeOK'
        BY NoOpFits, NoneIsNoSession, BlankIsRecord, <2>b, <2>1 DEF SSTypeOK
    <2>3. PlaceOK(op')
        BY NoOpFits, NoneIsNoSession, BlankIsRecord, <2>b DEF PlaceOK, Relaunching,
           Sweeping, Creating, Ending
    <2>4. MemoryOK(op)'
        <3>1. Blank.reset = "none"
            BY DEF Blank
        <3> QED
            BY NoOpFits, <2>b, <3>1 DEF MemoryOK, Handed
    <2>5. ParkedOK'
        BY NoOpFits, <2>b DEF ParkedOK, MemoryOK, Handed
    <2>6. RecordsOK'
        BY NoOpFits, <2>b DEF RecordsOK, Handed
    <2>7. DyingOK'
        BY NoOpFits, <2>b DEF DyingOK
    <2>8. LivingOK'
        BY NoOpFits, NoneIsNoSession, BlankIsRecord, <2>b DEF SSTypeOK, Operation,
           LivingOK, Relaunching, Running
    <2> QED
        BY <2>1, <2>2, <2>3, <2>4, <2>5, <2>6, <2>7, <2>8
<1>4. ASSUME Relaunch PROVE IInv'
    <2> USE <1>4 DEF IInv, Relaunch, Go, At, world
    <2>0. /\ op.cur \in Sessions
          /\ rec' \in [Sessions -> Record]
          /\ rec'[op.cur].state = "starting"
          /\ \A r \in Sessions \ {op.cur} : rec'[r] = rec[r]
          /\ op.kind # "reuse" \/ op.cur # op.cur =>
               /\ rec'[op.cur].reset = rec[op.cur].reset
               /\ rec'[op.cur].date = rec[op.cur].date
          /\ Handed(rec'[op.cur])
          /\ op.kind = "reuse" /\ op.cur = op.cur => rec'[op.cur].reset # "replacing"
        BY WritesRecord DEF PlaceOK
    <2>1. op' \in Operation
        BY <2>0 DEF SSTypeOK, Operation, Places
    <2>2. SSTypeOK'
        BY <2>0, <2>1 DEF SSTypeOK
    <2>3. PlaceOK(op')
        BY <2>0 DEF PlaceOK, Relaunching, Sweeping, Creating, Ending
    <2>4. MemoryOK(op)'
        BY <2>0 DEF MemoryOK, Handed
    <2>5. ParkedOK'
        BY <2>0 DEF ParkedOK, MemoryOK, Handed
    <2>6. RecordsOK'
        BY <2>0 DEF SSTypeOK, Operation, Record, RecordsOK, Handed, MemoryOK,
           DyingOK, LivingOK, PlaceOK, Relaunching, Sweeping, Creating, Ending,
           Running, Over
    <2>7. DyingOK'
        BY <2>0 DEF SSTypeOK, Operation, Record, DyingOK, RecordsOK, Handed,
           MemoryOK, LivingOK, PlaceOK, Relaunching, Sweeping, Creating, Ending,
           Running, Over
    <2>8. LivingOK'
        BY <2>0 DEF SSTypeOK, Operation, LivingOK, Relaunching, Running
    <2> QED
        BY <2>1, <2>2, <2>3, <2>4, <2>5, <2>6, <2>7, <2>8
<1>5. ASSUME RelaunchUp PROVE IInv'
    <2> USE <1>5 DEF IInv, RelaunchUp, Go, At, world
    <2>1. op' \in Operation
        BY DEF SSTypeOK, Operation, Places
    <2>2. SSTypeOK'
        BY <2>1 DEF SSTypeOK
    <2>3. PlaceOK(op')
        BY DEF PlaceOK, Relaunching, Sweeping, Creating, Ending
    <2>4. MemoryOK(op)'
        BY DEF MemoryOK, Handed
    <2>5. ParkedOK'
        BY DEF ParkedOK, MemoryOK, Handed
    <2>6. RecordsOK'
        BY DEF RecordsOK, Handed
    <2>7. DyingOK'
        BY DEF DyingOK
    <2>8. LivingOK'
        BY DEF SSTypeOK, Operation, LivingOK, Relaunching, Running
    <2> QED
        BY <2>1, <2>2, <2>3, <2>4, <2>5, <2>6, <2>7, <2>8
<1>6. ASSUME RelaunchAlive PROVE IInv'
    <2> USE <1>6 DEF IInv, RelaunchAlive, At, world
    <2>0. /\ op.cur \in Sessions
          /\ rec' \in [Sessions -> Record]
          /\ rec'[op.cur].state = "alive"
          /\ \A r \in Sessions \ {op.cur} : rec'[r] = rec[r]
          /\ op.kind # "reuse" \/ op.cur # op.cur =>
               /\ rec'[op.cur].reset = rec[op.cur].reset
               /\ rec'[op.cur].date = rec[op.cur].date
          /\ Handed(rec'[op.cur])
          /\ op.kind = "reuse" /\ op.cur = op.cur => rec'[op.cur].reset # "replacing"
        BY WritesRecord DEF PlaceOK
    <2>1. op' \in Operation
        <3>1. op.next \in Places
            BY DEF SSTypeOK, Operation, Places, PlaceOK, Relaunching
        <3>2. [op.mem EXCEPT !.state = "alive"] \in Record
            BY DEF SSTypeOK, Operation, Record
        <3> QED
            BY <3>1, <3>2 DEF SSTypeOK, Operation
    <2>2. SSTypeOK'
        BY <2>0, <2>1 DEF SSTypeOK
    <2>3. PlaceOK(op')
        BY <2>0 DEF SSTypeOK, Operation, PlaceOK, Relaunching, Sweeping, Ending
    <2>4. MemoryOK(op)'
        BY <2>0 DEF SSTypeOK, Operation, Record, MemoryOK, Handed, RecordsOK
    <2>5. ParkedOK'
        BY <2>0 DEF ParkedOK, MemoryOK, Handed
    <2>6. RecordsOK'
        BY <2>0 DEF SSTypeOK, Operation, Record, RecordsOK, Handed, MemoryOK,
           DyingOK, LivingOK, PlaceOK, Relaunching, Sweeping, Creating, Ending,
           Running, Over
    <2>7. DyingOK'
        BY <2>0 DEF SSTypeOK, Operation, Record, DyingOK, RecordsOK, Handed,
           MemoryOK, LivingOK, PlaceOK, Relaunching, Sweeping, Creating, Ending,
           Running, Over
    <2>8. LivingOK'
        BY <2>0 DEF SSTypeOK, Operation, Record, LivingOK, DyingOK, MemoryOK,
           PlaceOK, Relaunching, Sweeping, Creating, Ending, ParkedOK, Running
    <2> QED
        BY <2>1, <2>2, <2>3, <2>4, <2>5, <2>6, <2>7, <2>8
<1>7. ASSUME RelaunchFails PROVE IInv'
    <2> USE <1>7 DEF IInv, RelaunchFails, Kills, At, Event, world
    <2>1. op' \in Operation
        BY DEF SSTypeOK, Operation, Places
    <2>2. SSTypeOK'
        <3>1. events' \in 0 .. MaxEvents /\ day' \in 0 .. MaxDay
            BY DEF SSTypeOK
        <3>2. logs' \subseteq 0 .. MaxDay
            BY DEF SSTypeOK
        <3> QED
            BY <2>1, <3>1, <3>2 DEF SSTypeOK
    <2>3. PlaceOK(op')
        BY DEF PlaceOK, Relaunching, Sweeping, Creating, Ending
    <2>4. MemoryOK(op)'
        BY DEF MemoryOK, Handed
    <2>5. ParkedOK'
        BY DEF ParkedOK, MemoryOK, Handed
    <2>6. RecordsOK'
        BY DEF RecordsOK, Handed
    <2>7. DyingOK'
        BY DEF DyingOK
    <2>8. LivingOK'
        BY DEF SSTypeOK, Operation, LivingOK, Relaunching, Running
    <2> QED
        BY <2>1, <2>2, <2>3, <2>4, <2>5, <2>6, <2>7, <2>8
<1>8. ASSUME NEW s \in Sessions, SweepStale(s) PROVE IInv'
    <2> USE <1>8 DEF IInv, SweepStale, At, world
    <2>1. op' \in Operation
        BY DEF SSTypeOK, Operation, Places
    <2>2. SSTypeOK'
        BY <2>1 DEF SSTypeOK
    <2>3. PlaceOK(op')
        BY DEF PlaceOK, Relaunching, Sweeping, Creating, Ending
    <2>4. MemoryOK(op)'
        BY DEF MemoryOK, Handed
    <2>5. ParkedOK'
        BY DEF ParkedOK, MemoryOK, Handed
    <2>6. RecordsOK'
        BY DEF RecordsOK, Handed
    <2>7. DyingOK'
        BY DEF DyingOK
    <2>8. LivingOK'
        BY DEF SSTypeOK, Operation, LivingOK, Relaunching, Running
    <2> QED
        BY <2>1, <2>2, <2>3, <2>4, <2>5, <2>6, <2>7, <2>8
<1>9. ASSUME NEW s \in Sessions, SweepLive(s) PROVE IInv'
    <2> USE <1>9 DEF IInv, SweepLive, At, Running, world
    <2>0. /\ s \in Sessions
          /\ rec' \in [Sessions -> Record]
          /\ rec'[s].state = "alive"
          /\ \A r \in Sessions \ {s} : rec'[r] = rec[r]
          /\ op.kind # "reuse" \/ s # op.cur =>
               /\ rec'[s].reset = rec[s].reset
               /\ rec'[s].date = rec[s].date
          /\ Handed(rec'[s])
          /\ op.kind = "reuse" /\ s = op.cur => rec'[s].reset # "replacing"
        BY WritesRecord DEF PlaceOK
    <2>1. op' \in Operation
        <3>1. op.todo \ {s} \in SUBSET Sessions /\ op.live \union {s} \in SUBSET Sessions
            BY DEF SSTypeOK, Operation
        <3> QED
            BY <3>1 DEF SSTypeOK, Operation
    <2>2. SSTypeOK'
        BY <2>0, <2>1 DEF SSTypeOK
    <2>3. PlaceOK(op')
        BY <2>0 DEF PlaceOK, Relaunching, Sweeping, Creating, Ending
    <2>4. MemoryOK(op)'
        BY <2>0 DEF MemoryOK, Handed
    <2>5. ParkedOK'
        BY <2>0 DEF ParkedOK, MemoryOK, Handed
    <2>6. RecordsOK'
        BY <2>0 DEF RecordsOK, Handed, Over
    <2>7. DyingOK'
        BY <2>0 DEF SSTypeOK, Operation, DyingOK, Over
    <2>8. LivingOK'
        <3>1. op.old # s
            BY NoneIsNoSession DEF DyingOK, Over
        <3>2. rec'[s].reset # "replacing"
            BY <2>0 DEF RecordsOK, Over
        <3>3. /\ op'.at = "sweep" /\ op'.live = op.live \union {s}
              /\ op'.old = op.old /\ op'.kind = op.kind
            BY DEF SSTypeOK, Operation
        <3>4. \A r \in op'.live : rec'[r].state # "dead" /\ rec'[r].reset # "replacing"
            BY <2>0, <3>2, <3>3 DEF SSTypeOK, Operation, LivingOK
        <3> QED
            BY <3>1, <3>3, <3>4 DEF LivingOK, Relaunching
    <2> QED
        BY <2>1, <2>2, <2>3, <2>4, <2>5, <2>6, <2>7, <2>8
<1>10. ASSUME NEW s \in Sessions, SweepGone(s) PROVE IInv'
    <2> USE <1>10 DEF IInv, SweepGone, At, Running, Relaunchable, world
    <2>1. op' \in Operation
        BY DEF SSTypeOK, Operation, Places
    <2>2. SSTypeOK'
        BY <2>1 DEF SSTypeOK
    <2>3. PlaceOK(op')
        BY DEF PlaceOK, Relaunching, Sweeping, Creating, Ending
    <2>4. MemoryOK(op)'
        BY DEF MemoryOK, Handed
    <2>5. ParkedOK'
        BY DEF ParkedOK, MemoryOK, Handed
    <2>6. RecordsOK'
        BY DEF RecordsOK, Handed
    <2>7. DyingOK'
        BY DEF DyingOK
    <2>8. LivingOK'
        BY DEF LivingOK
    <2> QED
        BY <2>1, <2>2, <2>3, <2>4, <2>5, <2>6, <2>7, <2>8
<1>11. ASSUME Fence PROVE IInv'
    <2> USE <1>11 DEF IInv, Fence, At, IsNewest, world, Sessions
    <2>a. PICK s \in op.live, kept \in op.live :
             /\ Writes(s, "stale")
             /\ op' = [op EXCEPT !.at = "fenceKill", !.cur = s, !.was = rec[s].state,
                                 !.live = @ \ {s}, !.next = "sweep"]
        OBVIOUS
    <2>b. /\ op \in Operation /\ op.at = "sweep" /\ s \in Sessions
          /\ rec[s] \in Record /\ rec[s].state # "dead"
          /\ UNCHANGED <<pane, world, up, parked, events>>
        BY DEF SSTypeOK, LivingOK, Operation
    <2> HIDE DEF Fence, IsNewest, Sessions
    <2>0. /\ s \in Sessions
          /\ rec' \in [Sessions -> Record]
          /\ rec'[s].state = "stale"
          /\ \A r \in Sessions \ {s} : rec'[r] = rec[r]
          /\ op.kind # "reuse" \/ s # op.cur =>
               /\ rec'[s].reset = rec[s].reset
               /\ rec'[s].date = rec[s].date
          /\ Handed(rec'[s])
          /\ op.kind = "reuse" /\ s = op.cur => rec'[s].reset # "replacing"
        BY <2>a, <2>b, WritesRecord DEF PlaceOK
    <2>1. op' \in Operation
        <3>1. /\ rec[s].state \in {"none", "starting", "alive", "stale", "dead"}
              /\ op.live \ {s} \in SUBSET Sessions /\ "fenceKill" \in Places
            BY <2>b DEF Record, Operation, Places
        <3> QED
            BY <2>a, <2>b, <3>1 DEF Operation
    <2>2. SSTypeOK'
        BY <2>b, <2>0, <2>1 DEF SSTypeOK
    <2>3. PlaceOK(op')
        BY <2>a, <2>b, <2>0 DEF PlaceOK, Relaunching, Sweeping, Creating, Ending
    <2>4. MemoryOK(op)'
        BY <2>a, <2>b, <2>0 DEF MemoryOK, Handed
    <2>5. ParkedOK'
        BY <2>a, <2>b, <2>0 DEF ParkedOK, MemoryOK, Handed
    <2>6. RecordsOK'
        BY <2>a, <2>b, <2>0 DEF RecordsOK, Handed, Over
    <2>7. DyingOK'
        BY <2>a, <2>b, <2>0 DEF SSTypeOK, Operation, DyingOK, RecordsOK, Handed,
           LivingOK, PlaceOK, Over
    <2>8. LivingOK'
        BY <2>a, <2>b, <2>0 DEF SSTypeOK, Operation, LivingOK, Relaunching, Running
    <2> QED
        BY <2>1, <2>2, <2>3, <2>4, <2>5, <2>6, <2>7, <2>8
<1>12. ASSUME FenceKill PROVE IInv'
    <2> USE <1>12 DEF IInv, FenceKill, Kills, Go, At, world
    <2>1. op' \in Operation
        BY DEF SSTypeOK, Operation, Places
    <2>2. SSTypeOK'
        BY <2>1 DEF SSTypeOK
    <2>3. PlaceOK(op')
        BY DEF PlaceOK, Relaunching, Sweeping, Creating, Ending
    <2>4. MemoryOK(op)'
        BY DEF MemoryOK, Handed
    <2>5. ParkedOK'
        BY DEF ParkedOK, MemoryOK, Handed
    <2>6. RecordsOK'
        BY DEF RecordsOK, Handed
    <2>7. DyingOK'
        BY DEF DyingOK
    <2>8. LivingOK'
        BY DEF SSTypeOK, Operation, LivingOK, Relaunching, Running
    <2> QED
        BY <2>1, <2>2, <2>3, <2>4, <2>5, <2>6, <2>7, <2>8
<1>13. ASSUME SweptBare PROVE IInv'
    <2> USE <1>13 DEF IInv, SweptBare, Go, End, Swept, Exhausted, At, world
    <2>1. op' \in Operation
        BY NoOpFits, NoneIsNoSession DEF SSTypeOK, Operation, Places
    <2>2. SSTypeOK'
        BY NoOpFits, NoneIsNoSession, <2>1 DEF SSTypeOK
    <2>3. PlaceOK(op')
        BY NoOpFits, NoneIsNoSession DEF SSTypeOK, Operation, PlaceOK, Sweeping,
           Relaunching, Creating, Ending
    <2>4. MemoryOK(op)'
        BY NoOpFits, NoneIsNoSession DEF SSTypeOK, Operation, MemoryOK, Handed
    <2>5. ParkedOK'
        BY NoOpFits DEF ParkedOK, MemoryOK, Handed
    <2>6. RecordsOK'
        BY NoOpFits DEF RecordsOK, Handed
    <2>7. DyingOK'
        BY NoOpFits, NoneIsNoSession DEF SSTypeOK, Operation, DyingOK
    <2>8. LivingOK'
        BY NoOpFits, NoneIsNoSession DEF SSTypeOK, Operation, LivingOK,
           Relaunching, Running
    <2> QED
        BY <2>1, <2>2, <2>3, <2>4, <2>5, <2>6, <2>7, <2>8
<1>14. ASSUME SweptForDispatch PROVE IInv'
    <2> USE <1>14 DEF IInv, SweptForDispatch, End, Resetting, Swept, Kept, At, world
    <2>b. \/ op' = NoOp
          \/ \E s \in op.live :
               /\ op' \in Operation
               /\ op'.at = "head" /\ op'.cur = s /\ op'.kind = "dispatch"
               /\ op'.mem = rec[s] /\ op'.live = {} /\ op'.old = None
               /\ (op'.first = None \/ op'.first = rec[s])
        <3>1. ASSUME NEW s \in Sessions, NEW again \in {None, rec[s]}, Kept(s),
                     op' = [op EXCEPT !.at = "head", !.cur = s, !.mem = rec[s],
                                      !.first = again, !.live = {}]
              PROVE  /\ s \in op.live /\ op' \in Operation
                     /\ op'.at = "head" /\ op'.cur = s /\ op'.kind = "dispatch"
                     /\ op'.mem = rec[s] /\ op'.live = {} /\ op'.old = None
                     /\ (op'.first = None \/ op'.first = rec[s])
            <4>1. rec[s] \in Record /\ op \in Operation
                BY DEF SSTypeOK
            <4>3. op.kind = "dispatch" /\ op.old = None
                BY DEF PlaceOK
            <4>4. s \in op.live /\ again \in Record \union {None}
                BY <3>1, <4>1
            <4>5. again = None \/ again = rec[s]
                OBVIOUS
            <4> DEFINE t == Turned(op, s, rec[s], again)
            <4>7. SSTypeOK
                OBVIOUS
            <4> HIDE DEF SweptForDispatch, IInv
            <4>6. /\ t \in Operation /\ t.at = "head" /\ t.cur = s
                  /\ t.kind = op.kind /\ t.mem = rec[s] /\ t.first = again
                  /\ t.live = {} /\ t.old = op.old
                BY <4>4, <4>7, SweptHeadFits
            <4>2. op' = t
                BY <3>1 DEF Turned
            <4> HIDE DEF t
            <4> QED
                BY <4>2, <4>3, <4>4, <4>5, <4>6
        <3>2. PICK s \in Sessions :
                 /\ Kept(s)
                 /\ \/ End
                    \/ \E again \in {None, rec[s]} :
                         op' = [op EXCEPT !.at = "head", !.cur = s, !.mem = rec[s],
                                          !.first = again, !.live = {}]
            <4>1. PICK s \in Sessions :
                     /\ Kept(s)
                     /\ \/ End
                        \/ \E again \in {None} \union (IF op.first = None THEN {} ELSE {rec[s]}) :
                             op' = [op EXCEPT !.at = "head", !.cur = s, !.mem = rec[s],
                                              !.first = again, !.live = {}]
                OBVIOUS
            <4>2. \A again : again \in {None} \union (IF op.first = None THEN {} ELSE {rec[s]})
                                => again \in {None, rec[s]}
                OBVIOUS
            <4> QED
                BY <4>1, <4>2
        <3> QED
            BY <3>1, <3>2
    <2>1. op' \in Operation
        BY NoOpFits, NoneIsNoSession, <2>b DEF SSTypeOK, Operation, Places
    <2>2. SSTypeOK'
        BY NoOpFits, NoneIsNoSession, <2>b, <2>1 DEF SSTypeOK
    <2>3. PlaceOK(op')
        BY NoOpFits, NoneIsNoSession, <2>b DEF PlaceOK, Relaunching, Sweeping,
           Creating, Ending
    <2>4. MemoryOK(op)'
        <3>1. \A s \in op.live : rec[s].reset # "replacing" /\ Handed(rec[s])
            BY DEF LivingOK, RecordsOK, SSTypeOK, Operation
        <3> QED
            BY NoOpFits, <2>b, <3>1 DEF MemoryOK, Handed
    <2>5. ParkedOK'
        BY NoOpFits, <2>b DEF ParkedOK, MemoryOK, Handed
    <2>6. RecordsOK'
        BY NoOpFits, <2>b DEF RecordsOK, Handed
    <2>7. DyingOK'
        BY NoOpFits, <2>b DEF DyingOK
    <2>8. LivingOK'
        <3>1. rec' = rec
            OBVIOUS
        <3> QED
            BY NoOpFits, <2>b, <3>1 DEF LivingOK, Relaunching
    <2> QED
        BY <2>1, <2>2, <2>3, <2>4, <2>5, <2>6, <2>7, <2>8
<1>15. ASSUME SweptForReset PROVE IInv'
    <2> USE <1>15 DEF IInv, SweptForReset, End, Swept, Kept, At, world
    <2>b. \/ op' = NoOp
          \/ \E s \in Sessions :
               /\ op' \in Operation
               /\ op'.at = "request" /\ op'.cur = s /\ op'.kind = "reset"
               /\ op'.mem = op.mem /\ op'.first = op.first /\ op'.live = {}
               /\ op'.old = None
        <3>1. ASSUME NEW s \in Sessions,
                     op' = [op EXCEPT !.at = "request", !.cur = s, !.live = {}]
              PROVE  /\ op' \in Operation
                     /\ op'.at = "request" /\ op'.cur = s /\ op'.kind = "reset"
                     /\ op'.mem = op.mem /\ op'.first = op.first /\ op'.live = {}
                     /\ op'.old = None
            BY <3>1 DEF SSTypeOK, Operation, Places
        <3> QED
            BY <3>1
    <2>1. op' \in Operation
        BY NoOpFits, NoneIsNoSession, <2>b DEF SSTypeOK, Operation, Places
    <2>2. SSTypeOK'
        BY NoOpFits, NoneIsNoSession, <2>b, <2>1 DEF SSTypeOK
    <2>3. PlaceOK(op')
        BY NoOpFits, NoneIsNoSession, <2>b DEF PlaceOK, Relaunching, Sweeping,
           Creating, Ending
    <2>4. MemoryOK(op)'
        BY NoOpFits, <2>b DEF MemoryOK, Handed, world
    <2>5. ParkedOK'
        BY NoOpFits, <2>b DEF ParkedOK, MemoryOK, Handed
    <2>6. RecordsOK'
        BY NoOpFits, <2>b DEF RecordsOK, Handed
    <2>7. DyingOK'
        BY NoOpFits, <2>b DEF DyingOK
    <2>8. LivingOK'
        BY NoOpFits, NoneIsNoSession, <2>b DEF SSTypeOK, Operation, LivingOK,
           Relaunching, Running
    <2> QED
        BY <2>1, <2>2, <2>3, <2>4, <2>5, <2>6, <2>7, <2>8
<1>16. ASSUME SweptForReplacement PROVE IInv'
    <2> USE <1>16 DEF IInv, SweptForReplacement, Swept, Kept, At, world
    <2>b. PICK s \in op.live :
             op' = [op EXCEPT !.at = "record", !.cur = s, !.live = {}]
        BY DEF SSTypeOK, Operation
    <2>c. s \in Sessions /\ op.old \in Sessions
        BY DEF SSTypeOK, Operation
    <2>1. op' \in Operation
        BY <2>b, <2>c DEF SSTypeOK, Operation, Places
    <2>2. SSTypeOK'
        BY NoneIsNoSession, <2>b, <2>c, <2>1 DEF SSTypeOK
    <2>3. PlaceOK(op')
        BY NoneIsNoSession, <2>b, <2>c DEF PlaceOK, Relaunching, Sweeping,
           Creating, Ending
    <2>4. MemoryOK(op)'
        BY <2>b, <2>c DEF MemoryOK, Handed
    <2>5. ParkedOK'
        BY <2>b, <2>c DEF ParkedOK, MemoryOK, Handed
    <2>6. RecordsOK'
        BY <2>b, <2>c DEF RecordsOK, Handed
    <2>7. DyingOK'
        BY <2>b, <2>c DEF DyingOK
    <2>8. LivingOK'
        BY NoneIsNoSession, <2>b, <2>c DEF SSTypeOK, Operation, LivingOK,
           Relaunching, Running
    <2> QED
        BY <2>1, <2>2, <2>3, <2>4, <2>5, <2>6, <2>7, <2>8
<1>17. ASSUME Register PROVE IInv'
    <2> USE <1>17 DEF IInv, Register, At, world, Sessions
    <2>0. rec' \in [Sessions -> Record]
        <3>1. [Blank EXCEPT !.state = "starting", !.born = day] \in Record
            BY BlankIsRecord DEF SSTypeOK, Record
        <3> QED
            BY <3>1 DEF SSTypeOK
    <2>1. op' \in Operation
        <3>1. PICK s \in Sessions : op' = [op EXCEPT !.at = "launch", !.cur = s]
            OBVIOUS
        <3>2. op \in Operation /\ "launch" \in Places
            BY DEF SSTypeOK, Places
        <3> QED
            BY <3>1, <3>2 DEF Operation
    <2>2. SSTypeOK'
        <3>1. events' \in 0 .. MaxEvents /\ day' \in 0 .. MaxDay
            BY DEF SSTypeOK
        <3>2. logs' \subseteq 0 .. MaxDay
            BY DEF SSTypeOK
        <3> QED
            BY BlankIsRecord, <2>0, <2>1, <3>1, <3>2 DEF SSTypeOK
    <2>3. PlaceOK(op')
        BY BlankIsRecord, <2>0 DEF PlaceOK, Relaunching, Sweeping, Creating, Ending
    <2>4. MemoryOK(op)'
        BY <2>0 DEF MemoryOK, Handed
    <2>5. ParkedOK'
        BY <2>0 DEF ParkedOK, MemoryOK, Handed
    <2>6. RecordsOK'
        <3>1. PICK s \in Sessions :
                 rec' = [rec EXCEPT ![s] = [Blank EXCEPT !.state = "starting",
                                                         !.born = day]]
            OBVIOUS
        <3>2. rec'[s].reset = "none"
            BY <3>1 DEF SSTypeOK, Blank
        <3>3. \A r \in Sessions \ {s} : rec'[r] = rec[r]
            BY <3>1 DEF SSTypeOK
        <3> QED
            BY <3>2, <3>3 DEF RecordsOK, Handed
    <2>7. DyingOK'
        BY <2>0 DEF DyingOK, Over
    <2>8. LivingOK'
        <3>1. op'.live = op.live /\ op.live \subseteq Sessions /\ op'.at = "launch"
              /\ op'.old = op.old /\ op'.kind = op.kind /\ op'.cur \in Sessions
              /\ rec'[op'.cur].state = "starting"
            BY BlankIsRecord, <2>0 DEF SSTypeOK, Operation
        <3>2. op.live = {}
            BY DEF PlaceOK, Sweeping, Relaunching
        <3> QED
            BY <3>1, <3>2 DEF LivingOK, Relaunching, Over
    <2> QED
        BY <2>1, <2>2, <2>3, <2>4, <2>5, <2>6, <2>7, <2>8
<1>18. ASSUME Launch PROVE IInv'
    <2> USE <1>18 DEF IInv, Launch, Go, At, world
    <2>1. op' \in Operation
        BY DEF SSTypeOK, Operation, Places
    <2>2. SSTypeOK'
        BY <2>1 DEF SSTypeOK
    <2>3. PlaceOK(op')
        BY DEF PlaceOK, Relaunching, Sweeping, Creating, Ending
    <2>4. MemoryOK(op)'
        BY DEF MemoryOK, Handed
    <2>5. ParkedOK'
        BY DEF ParkedOK, MemoryOK, Handed
    <2>6. RecordsOK'
        BY DEF RecordsOK, Handed
    <2>7. DyingOK'
        BY DEF DyingOK
    <2>8. LivingOK'
        BY DEF SSTypeOK, Operation, LivingOK, Relaunching, Running
    <2> QED
        BY <2>1, <2>2, <2>3, <2>4, <2>5, <2>6, <2>7, <2>8
<1>19. ASSUME Activate PROVE IInv'
    <2> USE <1>19 DEF IInv, Activate, Go, At, world
    <2>0. /\ op.cur \in Sessions
          /\ rec' \in [Sessions -> Record]
          /\ rec'[op.cur].state = "alive"
          /\ \A r \in Sessions \ {op.cur} : rec'[r] = rec[r]
          /\ op.kind # "reuse" \/ op.cur # op.cur =>
               /\ rec'[op.cur].reset = rec[op.cur].reset
               /\ rec'[op.cur].date = rec[op.cur].date
          /\ Handed(rec'[op.cur])
          /\ op.kind = "reuse" /\ op.cur = op.cur => rec'[op.cur].reset # "replacing"
        BY WritesRecord DEF PlaceOK
    <2>b. /\ op.cur \in Sessions /\ rec'[op.cur] \in Record
          /\ rec'[op.cur].reset # "replacing"
        BY <2>0 DEF LivingOK, RecordsOK, Over
    <2>c. \/ /\ op.old # None /\ op' \in Operation
             /\ op'.at = "record" /\ op'.cur = op.cur /\ op'.kind = op.kind
             /\ op'.mem = op.mem /\ op'.first = op.first /\ op'.live = op.live
             /\ op'.old = op.old
          \/ /\ op.old = None /\ op' \in Operation
             /\ op'.at = "head" /\ op'.cur = op.cur /\ op'.kind = op.kind
             /\ op'.mem = rec'[op.cur] /\ op'.live = op.live /\ op'.old = None
             /\ op'.first = None \/ op'.first = rec'[op.cur]
        <3>1. CASE op.old # None
            BY <3>1 DEF SSTypeOK, Operation, Places
        <3>2. CASE op.old = None
            <4>1. PICK again \in {None, rec'[op.cur]} :
                     op' = [op EXCEPT !.at = "head", !.mem = rec'[op.cur],
                                      !.first = again]
                BY <3>2
            <4>2. op \in Operation /\ again \in Record \union {None}
                BY <2>b DEF SSTypeOK
            <4>3. op' = Follows(op, rec'[op.cur], again)
                BY <4>1 DEF Follows
            <4> QED
                BY <2>b, <3>2, <4>1, <4>2, <4>3, HeadHereFits
        <3> QED
            BY <3>1, <3>2
    <2>1. op' \in Operation
        BY NoneIsNoSession, <2>0, <2>b, <2>c DEF SSTypeOK, Operation, Places
    <2>2. SSTypeOK'
        BY NoneIsNoSession, <2>0, <2>b, <2>c, <2>1 DEF SSTypeOK
    <2>3. PlaceOK(op')
        BY NoneIsNoSession, <2>0, <2>b, <2>c DEF SSTypeOK, Operation, PlaceOK,
           Relaunching, Sweeping, Ending
    <2>4. MemoryOK(op)'
        BY <2>0, <2>b, <2>c DEF MemoryOK, Handed
    <2>5. ParkedOK'
        BY <2>0, <2>b, <2>c DEF ParkedOK, MemoryOK, Handed
    <2>6. RecordsOK'
        BY <2>0, <2>b, <2>c DEF RecordsOK, Handed
    <2>7. DyingOK'
        BY NoneIsNoSession, <2>0, <2>b, <2>c DEF SSTypeOK, Operation, DyingOK,
           RecordsOK, Handed, LivingOK, PlaceOK, Over
    <2>8. LivingOK'
        BY NoneIsNoSession, <2>0, <2>b, <2>c DEF SSTypeOK, Operation, LivingOK,
           DyingOK, PlaceOK, Sweeping, Over,
           Relaunching, Running
    <2> QED
        BY <2>1, <2>2, <2>3, <2>4, <2>5, <2>6, <2>7, <2>8
<1>20. ASSUME LaunchFails PROVE IInv'
    <2> USE <1>20 DEF IInv, LaunchFails, Kills, End, At, Event, world
    <2>0. /\ op.cur \in Sessions
          /\ rec' \in [Sessions -> Record]
          /\ \A r \in Sessions \ {op.cur} : rec'[r] = rec[r]
          /\ Handed(rec'[op.cur])
          /\ rec'[op.cur].state = "dead" \/ rec'[op.cur] = rec[op.cur]
        <3>1. op.cur \in Sessions
            BY DEF PlaceOK
        <3>2. CASE Writes(op.cur, "dead")
            BY <3>1, <3>2, WritesRecord
        <3>3. CASE rec' = rec
            BY <3>1, <3>3 DEF SSTypeOK, RecordsOK, Handed
        <3> QED
            BY <3>1, <3>2, <3>3
    <2>1. op' \in Operation
        BY NoOpFits, <2>0 DEF SSTypeOK, Operation, Places
    <2>2. SSTypeOK'
        <3>1. events' \in 0 .. MaxEvents /\ day' \in 0 .. MaxDay
            BY DEF SSTypeOK
        <3>2. logs' \subseteq 0 .. MaxDay
            BY DEF SSTypeOK
        <3> QED
            BY NoOpFits, <2>0, <2>1, <3>1, <3>2 DEF SSTypeOK
    <2>3. PlaceOK(op')
        BY NoOpFits, <2>0 DEF PlaceOK, Relaunching, Sweeping, Creating, Ending
    <2>4. MemoryOK(op)'
        BY NoOpFits, <2>0 DEF MemoryOK, Handed
    <2>5. ParkedOK'
        BY NoOpFits, <2>0 DEF ParkedOK, MemoryOK, Handed
    <2>6. RecordsOK'
        BY NoOpFits, <2>0 DEF RecordsOK, Handed, Over
    <2>7. DyingOK'
        BY NoOpFits, <2>0 DEF DyingOK
    <2>8. LivingOK'
        BY NoOpFits, <2>0 DEF SSTypeOK, Operation, LivingOK, Relaunching, Running
    <2> QED
        BY <2>1, <2>2, <2>3, <2>4, <2>5, <2>6, <2>7, <2>8
<1>21. ASSUME PendingReplacing PROVE IInv'
    <2> USE <1>21 DEF IInv, PendingReplacing, Go, At, world
    <2>1. op' \in Operation
        BY DEF SSTypeOK, Operation, Places
    <2>2. SSTypeOK'
        BY <2>1 DEF SSTypeOK
    <2>3. PlaceOK(op')
        BY DEF PlaceOK, Relaunching, Sweeping, Creating, Ending
    <2>4. MemoryOK(op)'
        BY DEF MemoryOK, Handed
    <2>5. ParkedOK'
        BY DEF ParkedOK, MemoryOK, Handed
    <2>6. RecordsOK'
        BY DEF RecordsOK, Handed
    <2>7. DyingOK'
        BY DEF SSTypeOK, Operation, DyingOK, RecordsOK, Handed, LivingOK, PlaceOK
    <2>8. LivingOK'
        BY DEF SSTypeOK, Operation, LivingOK, Relaunching, Running
    <2> QED
        BY <2>1, <2>2, <2>3, <2>4, <2>5, <2>6, <2>7, <2>8
<1>22. ASSUME PendingGone PROVE IInv'
    <2> USE <1>22 DEF IInv, PendingGone, Go, At, Running, Resetting, Relaunchable,
       world
    <2>1. op' \in Operation
        BY GoneFits DEF SSTypeOK, Operation, Places
    <2>2. SSTypeOK'
        BY GoneFits, <2>1 DEF SSTypeOK
    <2>3. PlaceOK(op')
        BY GoneFits DEF SSTypeOK, Operation, PlaceOK, Sweeping, Relaunching,
           Creating, Ending
    <2>4. MemoryOK(op)'
        BY GoneFits DEF SSTypeOK, Operation, MemoryOK, Handed
    <2>5. ParkedOK'
        BY DEF ParkedOK, MemoryOK, Handed
    <2>6. RecordsOK'
        BY DEF RecordsOK, Handed
    <2>7. DyingOK'
        BY GoneFits DEF SSTypeOK, Operation, DyingOK
    <2>8. LivingOK'
        BY GoneFits DEF SSTypeOK, Operation, LivingOK, Relaunching, Running
    <2> QED
        BY <2>1, <2>2, <2>3, <2>4, <2>5, <2>6, <2>7, <2>8
<1>23. ASSUME PendingOver PROVE IInv'
    <2> USE <1>23 DEF IInv, PendingOver, Go, At, Running, Resetting, world
    <2>1. op' \in Operation
        BY DEF SSTypeOK, Operation, Places
    <2>2. SSTypeOK'
        BY <2>1 DEF SSTypeOK
    <2>3. PlaceOK(op')
        BY DEF PlaceOK, Relaunching, Sweeping, Creating, Ending
    <2>4. MemoryOK(op)'
        BY DEF MemoryOK, Handed
    <2>5. ParkedOK'
        BY DEF ParkedOK, MemoryOK, Handed
    <2>6. RecordsOK'
        BY DEF RecordsOK, Handed
    <2>7. DyingOK'
        BY DEF DyingOK
    <2>8. LivingOK'
        BY DEF SSTypeOK, Operation, LivingOK, Relaunching, Running
    <2> QED
        BY <2>1, <2>2, <2>3, <2>4, <2>5, <2>6, <2>7, <2>8
<1>24. ASSUME PendingLive PROVE IInv'
    <2> USE <1>24 DEF IInv, PendingLive, Go, End, At, Running, Resetting, world
    <2>1. op' \in Operation
        BY NoOpFits DEF SSTypeOK, Operation, Places
    <2>2. SSTypeOK'
        BY NoOpFits, <2>1 DEF SSTypeOK
    <2>3. PlaceOK(op')
        BY NoOpFits DEF SSTypeOK, Operation, PlaceOK, Sweeping, Relaunching,
           Creating, Ending
    <2>4. MemoryOK(op)'
        BY NoOpFits DEF SSTypeOK, Operation, MemoryOK, Handed
    <2>5. ParkedOK'
        BY NoOpFits DEF ParkedOK, MemoryOK, Handed
    <2>6. RecordsOK'
        BY NoOpFits DEF RecordsOK, Handed
    <2>7. DyingOK'
        BY NoOpFits DEF SSTypeOK, Operation, DyingOK
    <2>8. LivingOK'
        BY NoOpFits DEF SSTypeOK, Operation, LivingOK, Relaunching, Running
    <2> QED
        BY <2>1, <2>2, <2>3, <2>4, <2>5, <2>6, <2>7, <2>8
<1>25. ASSUME Request PROVE IInv'
    <2> USE <1>25 DEF IInv, Request, Go, At, world
    <2>0. rec' \in [Sessions -> Record]
        BY DEF SSTypeOK, Operation, Record, PlaceOK
    <2>1. op' \in Operation
        BY <2>0 DEF SSTypeOK, Operation, Places
    <2>2. SSTypeOK'
        BY <2>0, <2>1 DEF SSTypeOK
    <2>3. PlaceOK(op')
        BY <2>0 DEF PlaceOK, Relaunching, Sweeping, Creating, Ending
    <2>4. MemoryOK(op)'
        BY <2>0 DEF MemoryOK, Handed
    <2>5. ParkedOK'
        BY <2>0 DEF ParkedOK, MemoryOK, Handed
    <2>6. RecordsOK'
        BY <2>0 DEF RecordsOK, Handed
    <2>7. DyingOK'
        BY <2>0 DEF SSTypeOK, Operation, Record, DyingOK, RecordsOK, Handed,
           MemoryOK, LivingOK, PlaceOK, Relaunching, Sweeping, Creating, Ending,
           Running
    <2>8. LivingOK'
        BY <2>0 DEF SSTypeOK, Operation, LivingOK, Relaunching, Running
    <2> QED
        BY <2>1, <2>2, <2>3, <2>4, <2>5, <2>6, <2>7, <2>8
<1>26. ASSUME PromptMissing PROVE IInv'
    <2> USE <1>26 DEF IInv, PromptMissing, Go, At, world
    <2>1. op' \in Operation
        BY DEF SSTypeOK, Operation, Places
    <2>2. SSTypeOK'
        BY <2>1 DEF SSTypeOK
    <2>3. PlaceOK(op')
        BY DEF PlaceOK, Relaunching, Sweeping, Creating, Ending
    <2>4. MemoryOK(op)'
        BY DEF MemoryOK, Handed
    <2>5. ParkedOK'
        BY DEF ParkedOK, MemoryOK, Handed
    <2>6. RecordsOK'
        BY DEF RecordsOK, Handed
    <2>7. DyingOK'
        BY DEF DyingOK
    <2>8. LivingOK'
        BY DEF SSTypeOK, Operation, LivingOK, Relaunching, Running
    <2> QED
        BY <2>1, <2>2, <2>3, <2>4, <2>5, <2>6, <2>7, <2>8
<1>27. ASSUME PromptBusy PROVE IInv'
    <2> USE <1>27 DEF IInv, PromptBusy, End, At, world
    <2>1. op' \in Operation
        BY NoOpFits DEF SSTypeOK, Operation, Places
    <2>2. SSTypeOK'
        BY NoOpFits, <2>1 DEF SSTypeOK
    <2>3. PlaceOK(op')
        BY NoOpFits DEF PlaceOK, Relaunching, Sweeping, Creating, Ending
    <2>4. MemoryOK(op)'
        BY NoOpFits DEF MemoryOK, Handed
    <2>5. ParkedOK'
        BY NoOpFits DEF ParkedOK, MemoryOK, Handed
    <2>6. RecordsOK'
        BY NoOpFits DEF RecordsOK, Handed
    <2>7. DyingOK'
        BY NoOpFits DEF DyingOK
    <2>8. LivingOK'
        BY NoOpFits DEF SSTypeOK, Operation, LivingOK, Relaunching, Running
    <2> QED
        BY <2>1, <2>2, <2>3, <2>4, <2>5, <2>6, <2>7, <2>8
<1>28. ASSUME PromptTyped PROVE IInv'
    <2> USE <1>28 DEF IInv, PromptTyped, Go, At, world
    <2>1. op' \in Operation
        BY DEF SSTypeOK, Operation, Places
    <2>2. SSTypeOK'
        BY <2>1 DEF SSTypeOK
    <2>3. PlaceOK(op')
        BY DEF PlaceOK, Relaunching, Sweeping, Creating, Ending
    <2>4. MemoryOK(op)'
        BY DEF MemoryOK, Handed
    <2>5. ParkedOK'
        BY DEF ParkedOK, MemoryOK, Handed
    <2>6. RecordsOK'
        BY DEF RecordsOK, Handed
    <2>7. DyingOK'
        BY DEF DyingOK
    <2>8. LivingOK'
        BY DEF SSTypeOK, Operation, LivingOK, Relaunching, Running
    <2> QED
        BY <2>1, <2>2, <2>3, <2>4, <2>5, <2>6, <2>7, <2>8
<1>29. ASSUME Prompted PROVE IInv'
    <2> USE <1>29 DEF IInv, Prompted, End, At, world
    <2>0. rec' \in [Sessions -> Record]
        <3>1. op.cur \in Sessions /\ rec[op.cur] \in Record
            BY DEF SSTypeOK, PlaceOK
        <3>2. [rec[op.cur] EXCEPT !.prompted = TRUE] \in Record
            BY <3>1 DEF Record
        <3> QED
            BY <3>1, <3>2 DEF SSTypeOK
    <2>1. op' \in Operation
        BY NoOpFits, <2>0 DEF SSTypeOK, Operation, Places
    <2>2. SSTypeOK'
        BY NoOpFits, <2>0, <2>1 DEF SSTypeOK
    <2>3. PlaceOK(op')
        BY NoOpFits, <2>0 DEF PlaceOK, Relaunching, Sweeping, Creating, Ending
    <2>4. MemoryOK(op)'
        BY NoOpFits, <2>0 DEF MemoryOK, Handed
    <2>5. ParkedOK'
        BY NoOpFits, <2>0 DEF ParkedOK, MemoryOK, Handed
    <2>6. RecordsOK'
        BY NoOpFits, <2>0 DEF RecordsOK, Handed
    <2>7. DyingOK'
        BY NoOpFits, <2>0 DEF DyingOK
    <2>8. LivingOK'
        BY NoOpFits, <2>0 DEF SSTypeOK, Operation, LivingOK, Relaunching, Running
    <2> QED
        BY <2>1, <2>2, <2>3, <2>4, <2>5, <2>6, <2>7, <2>8
<1>30. ASSUME Log PROVE IInv'
    <2> USE <1>30 DEF IInv, Log, Go, At, world
    <2>1. op' \in Operation
        BY DEF SSTypeOK, Operation, Places
    <2>2. SSTypeOK'
        <3>1. events' \in 0 .. MaxEvents /\ day' \in 0 .. MaxDay
            BY DEF SSTypeOK
        <3>2. logs' \subseteq 0 .. MaxDay
            BY DEF SSTypeOK, Operation, Record, PlaceOK
        <3> QED
            BY <2>1, <3>1, <3>2 DEF SSTypeOK
    <2>3. PlaceOK(op')
        BY DEF PlaceOK, Relaunching, Sweeping, Creating, Ending
    <2>4. MemoryOK(op)'
        BY DEF MemoryOK, Handed
    <2>5. ParkedOK'
        BY DEF ParkedOK, MemoryOK, Handed
    <2>6. RecordsOK'
        BY DEF RecordsOK, Handed
    <2>7. DyingOK'
        BY DEF DyingOK
    <2>8. LivingOK'
        BY DEF SSTypeOK, Operation, LivingOK, Relaunching, Running
    <2> QED
        BY <2>1, <2>2, <2>3, <2>4, <2>5, <2>6, <2>7, <2>8
<1>31. ASSUME Die PROVE IInv'
    <2> USE <1>31 DEF IInv, Die, At, world
    <2>0. rec' \in [Sessions -> Record]
        BY DEF SSTypeOK, Operation, Record, PlaceOK
    <2>1. op' \in Operation
        <3>1. rec[op.cur].state \in {"none", "starting", "alive", "stale", "dead"}
            BY <2>0 DEF SSTypeOK, Record, PlaceOK
        <3> QED
            BY <3>1 DEF SSTypeOK, Operation, Places
    <2>2. SSTypeOK'
        <3>1. events' \in 0 .. MaxEvents /\ day' \in 0 .. MaxDay
            BY DEF SSTypeOK
        <3>2. logs' \subseteq 0 .. MaxDay
            BY DEF SSTypeOK
        <3> QED
            BY <2>0, <2>1, <3>1, <3>2 DEF SSTypeOK
    <2>3. PlaceOK(op')
        BY <2>0 DEF PlaceOK, Relaunching, Sweeping, Creating, Ending
    <2>4. MemoryOK(op)'
        BY <2>0 DEF MemoryOK, Handed
    <2>5. ParkedOK'
        BY <2>0 DEF ParkedOK, MemoryOK, Handed
    <2>6. RecordsOK'
        BY <2>0 DEF SSTypeOK, RecordsOK, Handed, DyingOK, Over
    <2>7. DyingOK'
        BY <2>0 DEF SSTypeOK, Operation, DyingOK, Over
    <2>8. LivingOK'
        BY <2>0 DEF SSTypeOK, Operation, Record, LivingOK, DyingOK, MemoryOK,
           PlaceOK, Relaunching, Sweeping, Creating, Ending, ParkedOK, Running
    <2> QED
        BY <2>1, <2>2, <2>3, <2>4, <2>5, <2>6, <2>7, <2>8
<1>32. ASSUME DieKill PROVE IInv'
    <2> USE <1>32 DEF IInv, DieKill, Kills, Go, At, world
    <2>1. op' \in Operation
        BY DEF SSTypeOK, Operation, Places
    <2>2. SSTypeOK'
        BY <2>1 DEF SSTypeOK
    <2>3. PlaceOK(op')
        BY DEF PlaceOK, Relaunching, Sweeping, Creating, Ending
    <2>4. MemoryOK(op)'
        BY DEF MemoryOK, Handed
    <2>5. ParkedOK'
        BY DEF ParkedOK, MemoryOK, Handed
    <2>6. RecordsOK'
        BY DEF RecordsOK, Handed
    <2>7. DyingOK'
        BY DEF DyingOK
    <2>8. LivingOK'
        BY DEF SSTypeOK, Operation, LivingOK, Relaunching, Running
    <2> QED
        BY <2>1, <2>2, <2>3, <2>4, <2>5, <2>6, <2>7, <2>8
<1>33. ASSUME DieFree PROVE IInv'
    <2> USE <1>33 DEF IInv, DieFree, Frees, At, world
    <2>1. op' \in Operation
        BY SweepsFits DEF SSTypeOK, Operation, Places
    <2>2. SSTypeOK'
        BY SweepsFits, <2>1 DEF SSTypeOK
    <2>3. PlaceOK(op')
        BY SweepsFits DEF SSTypeOK, Operation, PlaceOK, Relaunching, Sweeping, Ending
    <2>4. MemoryOK(op)'
        BY SweepsFits DEF SSTypeOK, Operation, MemoryOK, Handed
    <2>5. ParkedOK'
        BY DEF ParkedOK, MemoryOK, Handed
    <2>6. RecordsOK'
        BY DEF RecordsOK, Handed
    <2>7. DyingOK'
        BY SweepsFits DEF SSTypeOK, Operation, DyingOK
    <2>8. LivingOK'
        BY SweepsFits DEF SSTypeOK, Operation, LivingOK, Relaunching, Running
    <2> QED
        BY <2>1, <2>2, <2>3, <2>4, <2>5, <2>6, <2>7, <2>8
<1>34. ASSUME Replaced PROVE IInv'
    <2> USE <1>34 DEF IInv, Replaced, At, world
    <2>0. rec' \in [Sessions -> Record]
        BY NoneIsNoSession DEF SSTypeOK, Operation, Record, PlaceOK
    <2>1. op' \in Operation
        <3>1. rec[op.cur] \in Record
            BY DEF SSTypeOK, PlaceOK
        <3> QED
            BY <3>1 DEF SSTypeOK, Operation, Places
    <2>2. SSTypeOK'
        <3>1. events' \in 0 .. MaxEvents /\ day' \in 0 .. MaxDay
            BY DEF SSTypeOK
        <3>2. logs' \subseteq 0 .. MaxDay
            BY DEF SSTypeOK
        <3> QED
            BY NoneIsNoSession, <2>0, <2>1, <3>1, <3>2 DEF SSTypeOK
    <2>3. PlaceOK(op')
        BY NoneIsNoSession, <2>0 DEF PlaceOK, Relaunching, Sweeping, Creating, Ending
    <2>4. MemoryOK(op)'
        <3>1. op.cur \in Sessions /\ rec[op.cur].reset # "replacing" /\ Handed(rec[op.cur])
            BY DEF PlaceOK, LivingOK, RecordsOK
        <3>2. op'.mem = rec[op.cur] /\ op'.first = op.first
            BY DEF SSTypeOK, Operation
        <3> QED
            BY <3>1, <3>2 DEF MemoryOK, Handed
    <2>5. ParkedOK'
        BY <2>0 DEF ParkedOK, MemoryOK, Handed
    <2>6. RecordsOK'
        BY NoneIsNoSession, <2>0 DEF SSTypeOK, RecordsOK, Handed, DyingOK
    <2>7. DyingOK'
        BY <2>0 DEF DyingOK
    <2>8. LivingOK'
        BY NoneIsNoSession, <2>0 DEF SSTypeOK, Operation, Record, LivingOK,
           DyingOK, MemoryOK, PlaceOK, Relaunching, Sweeping, Creating, Ending,
           ParkedOK, Running, Over
    <2> QED
        BY <2>1, <2>2, <2>3, <2>4, <2>5, <2>6, <2>7, <2>8
<1>35. ASSUME Stop PROVE IInv'
    <2> USE <1>35 DEF IInv, Stop, At, world
    <2>0. /\ op.cur \in Sessions
          /\ rec' \in [Sessions -> Record]
          /\ rec'[op.cur].state = "dead"
          /\ \A r \in Sessions \ {op.cur} : rec'[r] = rec[r]
          /\ op.kind # "reuse" \/ op.cur # op.cur =>
               /\ rec'[op.cur].reset = rec[op.cur].reset
               /\ rec'[op.cur].date = rec[op.cur].date
          /\ Handed(rec'[op.cur])
          /\ op.kind = "reuse" /\ op.cur = op.cur => rec'[op.cur].reset # "replacing"
        BY WritesRecord DEF PlaceOK
    <2>1. op' \in Operation
        <3>1. rec[op.cur].state \in {"none", "starting", "alive", "stale", "dead"}
            BY <2>0 DEF SSTypeOK, Record, PlaceOK
        <3> QED
            BY <3>1 DEF SSTypeOK, Operation, Places
    <2>2. SSTypeOK'
        BY <2>0, <2>1 DEF SSTypeOK
    <2>3. PlaceOK(op')
        BY <2>0 DEF PlaceOK, Relaunching, Sweeping, Creating, Ending
    <2>4. MemoryOK(op)'
        BY <2>0 DEF MemoryOK, Handed
    <2>5. ParkedOK'
        BY <2>0 DEF ParkedOK, MemoryOK, Handed
    <2>6. RecordsOK'
        BY <2>0 DEF RecordsOK, Handed, Over
    <2>7. DyingOK'
        BY <2>0 DEF SSTypeOK, Operation, DyingOK, RecordsOK, Handed, LivingOK, PlaceOK, Over
    <2>8. LivingOK'
        BY <2>0 DEF SSTypeOK, Operation, Record, LivingOK, DyingOK, MemoryOK,
           PlaceOK, Relaunching, Sweeping, Creating, Ending, ParkedOK, Running
    <2> QED
        BY <2>1, <2>2, <2>3, <2>4, <2>5, <2>6, <2>7, <2>8
<1>36. ASSUME StopKill PROVE IInv'
    <2> USE <1>36 DEF IInv, StopKill, Kills, Go, At, world
    <2>1. op' \in Operation
        BY DEF SSTypeOK, Operation, Places
    <2>2. SSTypeOK'
        BY <2>1 DEF SSTypeOK
    <2>3. PlaceOK(op')
        BY DEF PlaceOK, Relaunching, Sweeping, Creating, Ending
    <2>4. MemoryOK(op)'
        BY DEF MemoryOK, Handed
    <2>5. ParkedOK'
        BY DEF ParkedOK, MemoryOK, Handed
    <2>6. RecordsOK'
        BY DEF RecordsOK, Handed
    <2>7. DyingOK'
        BY DEF DyingOK
    <2>8. LivingOK'
        BY DEF SSTypeOK, Operation, LivingOK, Relaunching, Running
    <2> QED
        BY <2>1, <2>2, <2>3, <2>4, <2>5, <2>6, <2>7, <2>8
<1>37. ASSUME SyncLive PROVE IInv'
    <2> USE <1>37 DEF IInv, SyncLive, End, At, Resetting, world
    <2>0. /\ op.cur \in Sessions
          /\ rec' \in [Sessions -> Record]
          /\ rec'[op.cur].state = "alive"
          /\ \A r \in Sessions \ {op.cur} : rec'[r] = rec[r]
          /\ op.kind # "reuse" \/ op.cur # op.cur =>
               /\ rec'[op.cur].reset = rec[op.cur].reset
               /\ rec'[op.cur].date = rec[op.cur].date
          /\ Handed(rec'[op.cur])
          /\ op.kind = "reuse" /\ op.cur = op.cur => rec'[op.cur].reset # "replacing"
        BY WritesRecord DEF PlaceOK
    <2>1. op' \in Operation
        BY NoOpFits, <2>0 DEF SSTypeOK, Operation, Places
    <2>2. SSTypeOK'
        <3>1. /\ message' \in {"none", "ready", "claimed"}
              /\ holder' \in Sessions \union {None}
              /\ holder' # None <=> message' = "claimed"
            BY <2>0, NoneIsNoSession DEF SSTypeOK
        <3>2. /\ logs' \subseteq 0 .. MaxDay /\ waiting' \subseteq Sessions
              /\ overdue' \in BOOLEAN /\ day' \in 0 .. MaxDay
            BY DEF SSTypeOK
        <3> QED
            BY <2>0, <2>1, <3>1, <3>2 DEF SSTypeOK
    <2>3. PlaceOK(op')
        BY NoOpFits, <2>0 DEF PlaceOK, Relaunching, Sweeping, Creating, Ending
    <2>4. MemoryOK(op)'
        BY NoOpFits, <2>0 DEF MemoryOK, Handed
    <2>5. ParkedOK'
        BY NoOpFits, <2>0 DEF ParkedOK, MemoryOK, Handed
    <2>6. RecordsOK'
        BY NoOpFits, <2>0 DEF SSTypeOK, Operation, Record, RecordsOK, Handed,
           MemoryOK, DyingOK, LivingOK, PlaceOK, Relaunching, Sweeping, Creating,
           Ending, Running, Over
    <2>7. DyingOK'
        BY NoOpFits, <2>0 DEF DyingOK
    <2>8. LivingOK'
        BY NoOpFits, <2>0 DEF SSTypeOK, Operation, LivingOK, Relaunching, Running
    <2> QED
        BY <2>1, <2>2, <2>3, <2>4, <2>5, <2>6, <2>7, <2>8
<1>38. ASSUME SyncGone PROVE IInv'
    <2> USE <1>38 DEF IInv, SyncGone, Go, At, world
    <2>1. op' \in Operation
        BY GoneFits DEF SSTypeOK, Operation, Places
    <2>2. SSTypeOK'
        BY GoneFits, <2>1 DEF SSTypeOK
    <2>3. PlaceOK(op')
        BY GoneFits DEF SSTypeOK, Operation, PlaceOK, Sweeping, Relaunching,
           Creating, Ending
    <2>4. MemoryOK(op)'
        BY GoneFits DEF SSTypeOK, Operation, MemoryOK, Handed
    <2>5. ParkedOK'
        BY DEF ParkedOK, MemoryOK, Handed
    <2>6. RecordsOK'
        BY DEF RecordsOK, Handed
    <2>7. DyingOK'
        BY GoneFits DEF SSTypeOK, Operation, DyingOK
    <2>8. LivingOK'
        BY GoneFits DEF SSTypeOK, Operation, LivingOK, Relaunching, Running
    <2> QED
        BY <2>1, <2>2, <2>3, <2>4, <2>5, <2>6, <2>7, <2>8
<1>39. ASSUME HeadNothing PROVE IInv'
    <2> USE <1>39 DEF IInv, HeadNothing, At, Resetting, Blocked, Labelled, world
    <2>1. op' \in Operation
        BY NoOpFits, NothingSentFits, NoOpFits DEF SSTypeOK, Operation, Places
    <2>2. SSTypeOK'
        BY NoOpFits, NothingSentFits, NoOpFits, <2>1 DEF SSTypeOK
    <2>3. PlaceOK(op')
        BY NoOpFits, NothingSentFits, NoOpFits DEF SSTypeOK, Operation, PlaceOK,
           Sweeping, Relaunching, Creating, Ending
    <2>4. MemoryOK(op)'
        BY NoOpFits, NothingSentFits, NoOpFits DEF SSTypeOK, Operation, MemoryOK,
           Handed
    <2>5. ParkedOK'
        BY NoOpFits DEF ParkedOK, MemoryOK, Handed
    <2>6. RecordsOK'
        BY NoOpFits DEF RecordsOK, Handed
    <2>7. DyingOK'
        BY NoOpFits, NothingSentFits, NoOpFits DEF SSTypeOK, Operation, DyingOK
    <2>8. LivingOK'
        BY NoOpFits, NothingSentFits, NoOpFits DEF SSTypeOK, Operation, LivingOK,
           Relaunching, Running
    <2> QED
        BY <2>1, <2>2, <2>3, <2>4, <2>5, <2>6, <2>7, <2>8
<1>40. ASSUME HeadReady PROVE IInv'
    <2> USE <1>40 DEF IInv, HeadReady, Go, At, Resetting, Labelled, Blocked, world
    <2>1. op' \in Operation
        BY DEF SSTypeOK, Operation, Places
    <2>2. SSTypeOK'
        BY <2>1 DEF SSTypeOK
    <2>3. PlaceOK(op')
        BY DEF PlaceOK, Relaunching, Sweeping, Creating, Ending
    <2>4. MemoryOK(op)'
        BY DEF MemoryOK, Handed
    <2>5. ParkedOK'
        BY DEF ParkedOK, MemoryOK, Handed
    <2>6. RecordsOK'
        BY DEF RecordsOK, Handed
    <2>7. DyingOK'
        BY DEF DyingOK
    <2>8. LivingOK'
        BY DEF SSTypeOK, Operation, LivingOK, Relaunching, Running
    <2> QED
        BY <2>1, <2>2, <2>3, <2>4, <2>5, <2>6, <2>7, <2>8
<1>41. ASSUME SendRefused PROVE IInv'
    <2> USE <1>41 DEF IInv, SendRefused, End, At, Welcomes, Resetting, world
    <2>1. op' \in Operation
        BY NoOpFits DEF SSTypeOK, Operation, Places
    <2>2. SSTypeOK'
        BY NoOpFits, <2>1 DEF SSTypeOK
    <2>3. PlaceOK(op')
        BY NoOpFits DEF PlaceOK, Relaunching, Sweeping, Creating, Ending
    <2>4. MemoryOK(op)'
        BY NoOpFits DEF MemoryOK, Handed
    <2>5. ParkedOK'
        BY NoOpFits DEF ParkedOK, MemoryOK, Handed
    <2>6. RecordsOK'
        BY NoOpFits DEF RecordsOK, Handed
    <2>7. DyingOK'
        BY NoOpFits DEF DyingOK
    <2>8. LivingOK'
        BY NoOpFits DEF SSTypeOK, Operation, LivingOK, Relaunching, Running
    <2> QED
        BY <2>1, <2>2, <2>3, <2>4, <2>5, <2>6, <2>7, <2>8
<1>42. ASSUME SendGone PROVE IInv'
    <2> USE <1>42 DEF IInv, SendGone, MaySend, At, Welcomes, Resetting, world
    <2>1. op' \in Operation
        BY GoneFits DEF SSTypeOK, Operation, Places
    <2>2. SSTypeOK'
        BY GoneFits, <2>1 DEF SSTypeOK
    <2>3. PlaceOK(op')
        BY GoneFits DEF SSTypeOK, Operation, PlaceOK, Sweeping, Relaunching,
           Creating, Ending
    <2>4. MemoryOK(op)'
        BY GoneFits DEF SSTypeOK, Operation, MemoryOK, Handed
    <2>5. ParkedOK'
        BY DEF ParkedOK, MemoryOK, Handed
    <2>6. RecordsOK'
        BY DEF RecordsOK, Handed
    <2>7. DyingOK'
        BY GoneFits DEF SSTypeOK, Operation, DyingOK
    <2>8. LivingOK'
        BY GoneFits DEF SSTypeOK, Operation, LivingOK, Relaunching, Running
    <2> QED
        BY <2>1, <2>2, <2>3, <2>4, <2>5, <2>6, <2>7, <2>8
<1>43. ASSUME SendBusy PROVE IInv'
    <2> USE <1>43 DEF IInv, SendBusy, MaySend, At, Welcomes, Resetting, world
    <2>1. op' \in Operation
        BY NothingSentFits, NoOpFits DEF SSTypeOK, Operation, Places
    <2>2. SSTypeOK'
        BY NothingSentFits, NoOpFits, <2>1 DEF SSTypeOK
    <2>3. PlaceOK(op')
        BY NothingSentFits, NoOpFits DEF SSTypeOK, Operation, PlaceOK, Sweeping,
           Relaunching, Creating, Ending
    <2>4. MemoryOK(op)'
        BY NothingSentFits, NoOpFits DEF SSTypeOK, Operation, MemoryOK, Handed
    <2>5. ParkedOK'
        BY NoOpFits DEF ParkedOK, MemoryOK, Handed
    <2>6. RecordsOK'
        BY NoOpFits DEF RecordsOK, Handed
    <2>7. DyingOK'
        BY NothingSentFits, NoOpFits DEF SSTypeOK, Operation, DyingOK
    <2>8. LivingOK'
        BY NothingSentFits, NoOpFits DEF SSTypeOK, Operation, LivingOK,
           Relaunching, Running
    <2> QED
        BY <2>1, <2>2, <2>3, <2>4, <2>5, <2>6, <2>7, <2>8
<1>44. ASSUME SendSkip PROVE IInv'
    <2> USE <1>44 DEF IInv, SendSkip, End, MaySend, At, Welcomes, Resetting, world
    <2>0. rec' \in [Sessions -> Record]
        BY NoOpFits DEF SSTypeOK, Operation, Record, PlaceOK
    <2>1. op' \in Operation
        BY NoOpFits, <2>0 DEF SSTypeOK, Operation, Places
    <2>2. SSTypeOK'
        BY NoOpFits, <2>0, <2>1 DEF SSTypeOK
    <2>3. PlaceOK(op')
        BY NoOpFits, <2>0 DEF PlaceOK, Relaunching, Sweeping, Creating, Ending
    <2>4. MemoryOK(op)'
        BY NoOpFits, <2>0 DEF MemoryOK, Handed
    <2>5. ParkedOK'
        BY NoOpFits, <2>0 DEF ParkedOK, MemoryOK, Handed
    <2>6. RecordsOK'
        BY NoOpFits, <2>0 DEF SSTypeOK, Operation, Record, RecordsOK, Handed,
           MemoryOK, DyingOK, LivingOK, PlaceOK, Relaunching, Sweeping, Creating,
           Ending, Running
    <2>7. DyingOK'
        BY NoOpFits, <2>0 DEF DyingOK
    <2>8. LivingOK'
        BY NoOpFits, <2>0 DEF SSTypeOK, Operation, LivingOK, Relaunching, Running
    <2> QED
        BY <2>1, <2>2, <2>3, <2>4, <2>5, <2>6, <2>7, <2>8
<1>45. ASSUME Send PROVE IInv'
    <2> USE <1>45 DEF IInv, Send, Go, MaySend, At, Welcomes, Resetting, world
    <2>0. rec' \in [Sessions -> Record]
        BY DEF SSTypeOK, Operation, Record, PlaceOK
    <2>1. op' \in Operation
        BY <2>0 DEF SSTypeOK, Operation, Places
    <2>2. SSTypeOK'
        BY <2>0, <2>1 DEF SSTypeOK
    <2>3. PlaceOK(op')
        BY <2>0 DEF PlaceOK, Relaunching, Sweeping, Creating, Ending
    <2>4. MemoryOK(op)'
        BY <2>0 DEF MemoryOK, Handed
    <2>5. ParkedOK'
        BY <2>0 DEF ParkedOK, MemoryOK, Handed
    <2>6. RecordsOK'
        BY <2>0 DEF SSTypeOK, Operation, Record, RecordsOK, Handed, MemoryOK,
           DyingOK, LivingOK, PlaceOK, Relaunching, Sweeping, Creating, Ending,
           Running
    <2>7. DyingOK'
        BY <2>0 DEF SSTypeOK, Operation, DyingOK, RecordsOK, Handed, LivingOK, PlaceOK, Over
    <2>8. LivingOK'
        BY <2>0 DEF SSTypeOK, Operation, LivingOK, PlaceOK, Relaunching, Sweeping,
           Running
    <2> QED
        BY <2>1, <2>2, <2>3, <2>4, <2>5, <2>6, <2>7, <2>8
<1>46. ASSUME Type PROVE IInv'
    <2> USE <1>46 DEF IInv, Type, Go, At, world
    <2>1. op' \in Operation
        BY DEF SSTypeOK, Operation, Places
    <2>2. SSTypeOK'
        BY <2>1 DEF SSTypeOK
    <2>3. PlaceOK(op')
        BY DEF PlaceOK, Relaunching, Sweeping, Creating, Ending
    <2>4. MemoryOK(op)'
        BY DEF MemoryOK, Handed
    <2>5. ParkedOK'
        BY DEF ParkedOK, MemoryOK, Handed
    <2>6. RecordsOK'
        BY DEF RecordsOK, Handed
    <2>7. DyingOK'
        BY DEF DyingOK
    <2>8. LivingOK'
        <3>1. op'.at \in {"count", "mark"} /\ op'.kind = op.kind /\ op'.mem = op.mem
              /\ op'.cur = op.cur /\ op'.live = op.live
            <4>1. CASE pane[op.cur]
                BY <4>1 DEF SSTypeOK, Operation
            <4>2. CASE ~pane[op.cur]
                BY <4>2 DEF SSTypeOK, Operation
            <4> QED
                BY <4>1, <4>2
        <3>2. op.kind # "reuse" => op.mem.state = rec[op.cur].state
            BY DEF LivingOK
        <3>3. op.mem.state = "alive"
            BY DEF LivingOK
        <3> QED
            BY <3>1, <3>2, <3>3 DEF LivingOK, Relaunching
    <2> QED
        BY <2>1, <2>2, <2>3, <2>4, <2>5, <2>6, <2>7, <2>8
<1>47. ASSUME Count PROVE IInv'
    <2> USE <1>47 DEF IInv, Count, End, At, world
    <2>0. rec' \in [Sessions -> Record]
        BY NoOpFits DEF SSTypeOK, Operation, Record, PlaceOK
    <2>1. op' \in Operation
        BY NoOpFits, <2>0 DEF SSTypeOK, Operation, Places
    <2>2. SSTypeOK'
        <3>1. waiting' \subseteq Sessions
            BY DEF SSTypeOK, PlaceOK
        <3> QED
            BY <2>0, <2>1, <3>1 DEF SSTypeOK
    <2>3. PlaceOK(op')
        BY NoOpFits, <2>0 DEF PlaceOK, Relaunching, Sweeping, Creating, Ending
    <2>4. MemoryOK(op)'
        BY NoOpFits, <2>0 DEF MemoryOK, Handed
    <2>5. ParkedOK'
        BY NoOpFits, <2>0 DEF ParkedOK, MemoryOK, Handed
    <2>6. RecordsOK'
        BY NoOpFits, <2>0 DEF SSTypeOK, Operation, Record, RecordsOK, Handed,
           MemoryOK, DyingOK, LivingOK, PlaceOK, Relaunching, Sweeping, Creating,
           Ending, Running
    <2>7. DyingOK'
        BY NoOpFits, <2>0 DEF DyingOK
    <2>8. LivingOK'
        BY NoOpFits, <2>0 DEF SSTypeOK, Operation, LivingOK, Relaunching, Running
    <2> QED
        BY <2>1, <2>2, <2>3, <2>4, <2>5, <2>6, <2>7, <2>8
<1>48. ASSUME Fails PROVE IInv'
    <2> USE <1>48 DEF IInv, Fails, End, Event, world
    <2>1. op' \in Operation
        BY NoOpFits DEF SSTypeOK, Operation, Places
    <2>2. SSTypeOK'
        BY NoOpFits, <2>1 DEF SSTypeOK
    <2>3. PlaceOK(op')
        BY NoOpFits DEF PlaceOK, Relaunching, Sweeping, Creating, Ending
    <2>4. MemoryOK(op)'
        BY NoOpFits DEF MemoryOK, Handed
    <2>5. ParkedOK'
        BY NoOpFits DEF ParkedOK, MemoryOK, Handed
    <2>6. RecordsOK'
        BY NoOpFits DEF RecordsOK, Handed
    <2>7. DyingOK'
        BY NoOpFits DEF DyingOK
    <2>8. LivingOK'
        BY NoOpFits DEF SSTypeOK, Operation, LivingOK, Relaunching, Running
    <2> QED
        BY <2>1, <2>2, <2>3, <2>4, <2>5, <2>6, <2>7, <2>8
<1>49. ASSUME KillFails PROVE IInv'
    <2> USE <1>49 DEF IInv, KillFails, End, At, Event, world
    <2>0. rec' \in [Sessions -> Record]
        BY NoOpFits DEF SSTypeOK, Operation, Record, PlaceOK
    <2>1. op' \in Operation
        BY NoOpFits, <2>0 DEF SSTypeOK, Operation, Places
    <2>2. SSTypeOK'
        <3>1. events' \in 0 .. MaxEvents /\ day' \in 0 .. MaxDay
            BY DEF SSTypeOK
        <3>2. logs' \subseteq 0 .. MaxDay
            BY DEF SSTypeOK
        <3> QED
            BY NoOpFits, <2>0, <2>1, <3>1, <3>2 DEF SSTypeOK
    <2>3. PlaceOK(op')
        BY NoOpFits, <2>0 DEF PlaceOK, Relaunching, Sweeping, Creating, Ending
    <2>4. MemoryOK(op)'
        BY NoOpFits, <2>0 DEF MemoryOK, Handed
    <2>5. ParkedOK'
        BY NoOpFits, <2>0 DEF ParkedOK, MemoryOK, Handed
    <2>6. RecordsOK'
        BY NoOpFits, <2>0 DEF SSTypeOK, Operation, Record, RecordsOK, Handed,
           MemoryOK, DyingOK, LivingOK, PlaceOK, Relaunching, Sweeping, Creating,
           Ending, Running
    <2>7. DyingOK'
        BY NoOpFits, <2>0 DEF DyingOK
    <2>8. LivingOK'
        BY NoOpFits, <2>0 DEF SSTypeOK, Operation, LivingOK, Relaunching, Running
    <2> QED
        BY <2>1, <2>2, <2>3, <2>4, <2>5, <2>6, <2>7, <2>8
<1>50. ASSUME SyncUnfit PROVE IInv'
    <2> USE <1>50 DEF IInv, SyncUnfit, Go, At, Event, world
    <2>1. op' \in Operation
        BY DEF SSTypeOK, Operation, Places
    <2>2. SSTypeOK'
        BY <2>1 DEF SSTypeOK
    <2>3. PlaceOK(op')
        BY DEF PlaceOK, Relaunching, Sweeping, Creating, Ending
    <2>4. MemoryOK(op)'
        BY DEF MemoryOK, Handed
    <2>5. ParkedOK'
        BY DEF ParkedOK, MemoryOK, Handed
    <2>6. RecordsOK'
        BY DEF RecordsOK, Handed
    <2>7. DyingOK'
        BY DEF DyingOK
    <2>8. LivingOK'
        BY DEF SSTypeOK, Operation, LivingOK, Relaunching, Running
    <2> QED
        BY <2>1, <2>2, <2>3, <2>4, <2>5, <2>6, <2>7, <2>8
<1>51. ASSUME HeadStale PROVE IInv'
    <2> USE <1>51 DEF IInv, HeadStale, End, At, Event, Resetting, Labelled, world
    <2>1. op' \in Operation
        BY NoOpFits, NoneIsNoSession DEF SSTypeOK, Operation, Places
    <2>2. SSTypeOK'
        BY NoOpFits, NoneIsNoSession, <2>1 DEF SSTypeOK
    <2>3. PlaceOK(op')
        BY NoOpFits, NoneIsNoSession DEF PlaceOK, Relaunching, Sweeping, Creating,
           Ending
    <2>4. MemoryOK(op)'
        BY NoOpFits DEF MemoryOK, Handed
    <2>5. ParkedOK'
        BY NoOpFits DEF ParkedOK, MemoryOK, Handed
    <2>6. RecordsOK'
        BY NoOpFits DEF RecordsOK, Handed
    <2>7. DyingOK'
        BY NoOpFits DEF DyingOK
    <2>8. LivingOK'
        BY NoOpFits, NoneIsNoSession DEF SSTypeOK, Operation, LivingOK,
           Relaunching, Running
    <2> QED
        BY <2>1, <2>2, <2>3, <2>4, <2>5, <2>6, <2>7, <2>8
<1>52. ASSUME NEW s \in Sessions, SweepUnfit(s) PROVE IInv'
    <2> USE <1>52 DEF IInv, SweepUnfit, At, Event, Running, world
    <2>1. op' \in Operation
        BY DEF SSTypeOK, Operation, Places
    <2>2. SSTypeOK'
        BY <2>1 DEF SSTypeOK
    <2>3. PlaceOK(op')
        BY DEF PlaceOK, Relaunching, Sweeping, Creating, Ending
    <2>4. MemoryOK(op)'
        BY DEF MemoryOK, Handed
    <2>5. ParkedOK'
        BY DEF ParkedOK, MemoryOK, Handed
    <2>6. RecordsOK'
        BY DEF RecordsOK, Handed
    <2>7. DyingOK'
        BY DEF DyingOK
    <2>8. LivingOK'
        BY DEF LivingOK
    <2> QED
        BY <2>1, <2>2, <2>3, <2>4, <2>5, <2>6, <2>7, <2>8
<1>53. ASSUME Dispatch PROVE IInv'
    <2> USE <1>53 DEF IInv, Dispatch, Begin, world
    <2>b. /\ op' \in Operation
          /\ op'.at = "sweep" /\ op'.kind = "dispatch"
          /\ op'.live = {} /\ op'.old = None
          /\ op'.first = None /\ op'.mem.reset = "none"
        <3>1. "dispatch" \in Kinds /\ op' = Sweeps(Does("dispatch", "sweep", None))
            BY DEF Kinds
        <3> QED
            BY <3>1, SweepBegins
    <2>1. op' \in Operation
        BY NoOpFits, DoesFits, SweepsFits, NoneIsNoSession, <2>b DEF SSTypeOK,
           Operation, Places
    <2>2. SSTypeOK'
        BY NoOpFits, DoesFits, SweepsFits, NoneIsNoSession, <2>b, <2>1 DEF SSTypeOK
    <2>3. PlaceOK(op')
        BY NoOpFits, DoesFits, SweepsFits, NoneIsNoSession, <2>b DEF PlaceOK,
           Relaunching, Sweeping, Creating, Ending
    <2>4. MemoryOK(op)'
        BY NoOpFits, <2>b DEF MemoryOK, Handed
    <2>5. ParkedOK'
        BY NoOpFits, <2>b DEF ParkedOK, MemoryOK, Handed
    <2>6. RecordsOK'
        BY NoOpFits, <2>b DEF RecordsOK, Handed
    <2>7. DyingOK'
        BY NoOpFits, <2>b DEF DyingOK
    <2>8. LivingOK'
        BY NoOpFits, DoesFits, SweepsFits, NoneIsNoSession, <2>b DEF SSTypeOK,
           Operation, LivingOK, Relaunching, Running
    <2> QED
        BY <2>1, <2>2, <2>3, <2>4, <2>5, <2>6, <2>7, <2>8
<1>54. ASSUME StartReset PROVE IInv'
    <2> USE <1>54 DEF IInv, StartReset, Begin, IsNewest, Pending, OfToday,
       Labelled, world, Sessions
    <2>b. /\ op' \in Operation
          /\ op'.kind = "reset" /\ op'.live = {} /\ op'.old = None
          /\ op'.next = "end" /\ op'.first = None /\ op'.mem.reset = "none"
          /\ op'.at = "sweep" \/ (op'.at = "pending" /\ op'.cur \in Sessions)
        <3>1. "reset" \in Kinds /\ "sweep" \in Places /\ "pending" \in Places
            BY DEF Kinds, Places
        <3>2. CASE op' = Sweeps(Does("reset", "sweep", None))
            BY <3>1, <3>2, SweepBegins
        <3>3. CASE \E s \in Sessions : op' = Does("reset", "pending", s)
            BY <3>1, <3>3, DoesFits
        <3> QED
            BY <3>2, <3>3
    <2>1. op' \in Operation
        BY NoOpFits, DoesFits, SweepsFits, NoneIsNoSession, <2>b DEF SSTypeOK,
           Operation, Places
    <2>2. SSTypeOK'
        BY NoOpFits, DoesFits, SweepsFits, NoneIsNoSession, <2>b, <2>1 DEF SSTypeOK
    <2>3. PlaceOK(op')
        BY NoOpFits, DoesFits, SweepsFits, NoneIsNoSession, <2>b DEF PlaceOK,
           Relaunching, Sweeping, Creating, Ending
    <2>4. MemoryOK(op)'
        BY NoOpFits, <2>b DEF MemoryOK, Handed
    <2>5. ParkedOK'
        BY NoOpFits, <2>b DEF ParkedOK, MemoryOK, Handed
    <2>6. RecordsOK'
        BY NoOpFits, <2>b DEF RecordsOK, Handed
    <2>7. DyingOK'
        BY NoOpFits, <2>b DEF DyingOK
    <2>8. LivingOK'
        BY NoOpFits, DoesFits, SweepsFits, NoneIsNoSession, <2>b DEF SSTypeOK,
           Operation, LivingOK, Relaunching, Running
    <2> QED
        BY <2>1, <2>2, <2>3, <2>4, <2>5, <2>6, <2>7, <2>8
<1>55. ASSUME Refresh PROVE IInv'
    <2> USE <1>55 DEF IInv, Refresh, Welcomes, Resetting, world
    <2>a. parked \in Operation /\ parked.cur \in Sessions
          /\ parked.live = {} /\ parked.old = None
        BY DEF SSTypeOK, ParkedOK, PlaceOK, Sweeping, Relaunching, Creating
    <2>b. \/ op' = NoOp
          \/ /\ op' \in Operation
             /\ op'.at = "head" /\ op'.cur = parked.cur
             /\ op'.live = {} /\ op'.old = None
             /\ \/ /\ op'.mem = rec[op'.cur] /\ op'.first = parked.first
                   /\ rec[op'.cur].state = "alive"
                \/ /\ op'.kind = "reuse" /\ op'.mem = parked.first
                   /\ parked.first # None /\ op'.first = None
        <3>1. CASE Welcomes(rec[parked.cur])
            <4>1. op' = [parked EXCEPT !.mem = rec[parked.cur]]
                BY <3>1
            <4>2. rec[parked.cur] \in Record /\ parked.at = "head"
                BY <2>a DEF SSTypeOK, ParkedOK
            <4> QED
                BY <2>a, <3>1, <4>1, <4>2 DEF Operation
        <3>2. CASE ~Welcomes(rec[parked.cur])
            BY <2>a, <3>2, NothingSentFits
        <3> QED
            BY <3>1, <3>2
    <2>c. rec' = rec /\ logs' = logs
        BY DEF world
    <2>1. op' \in Operation
        BY NoOpFits, NoneIsNoSession, NothingSentFits, NoOpFits, <2>a, <2>b DEF
           SSTypeOK, Operation, Places
    <2>2. SSTypeOK'
        BY NoOpFits, NoneIsNoSession, NothingSentFits, NoOpFits, <2>a, <2>b, <2>1
           DEF SSTypeOK
    <2>3. PlaceOK(op')
        BY NoOpFits, NoneIsNoSession, NothingSentFits, NoOpFits, <2>a, <2>b DEF
           PlaceOK, Relaunching, Sweeping, Creating, Ending
    <2>4. MemoryOK(op)'
        <3>1. rec[parked.cur].state = "alive" =>
                 rec[parked.cur].reset # "replacing" /\ Handed(rec[parked.cur])
            BY <2>a DEF RecordsOK, Over
        <3>2. parked.first # None =>
                 parked.first.reset # "replacing" /\ Handed(parked.first)
            BY DEF ParkedOK, MemoryOK
        <3> QED
            BY NoOpFits, <2>b, <3>1, <3>2, <2>c DEF MemoryOK, Handed
    <2>5. ParkedOK'
        BY NoOpFits, <2>a, <2>b DEF ParkedOK, MemoryOK, Handed
    <2>6. RecordsOK'
        BY NoOpFits, <2>a, <2>b DEF RecordsOK, Handed
    <2>7. DyingOK'
        BY NoOpFits, <2>a, <2>b DEF DyingOK
    <2>8. LivingOK'
        BY NoOpFits, <2>b, <2>c DEF LivingOK, Relaunching
    <2> QED
        BY <2>1, <2>2, <2>3, <2>4, <2>5, <2>6, <2>7, <2>8
<1>56. ASSUME NEW s \in Sessions, Complete(s) PROVE IInv'
    <2> USE <1>56 DEF IInv, Complete, Begin, Resetting, Labelled, world
    <2>b. /\ op' \in Operation
          /\ op'.kind = "complete" /\ op'.cur = s /\ op'.live = {} /\ op'.old = None
          /\ op'.next = "end" /\ op'.first = None /\ op'.mem.reset = "none"
          /\ \/ op'.at = "die" /\ rec[s].date \in logs
             \/ op'.at = "dieFree" /\ rec[s].reset = "replacing"
        BY DoesFits DEF Kinds, Places
    <2>1. op' \in Operation
        BY NoOpFits, DoesFits, <2>b DEF SSTypeOK, Operation, Places
    <2>2. SSTypeOK'
        BY NoOpFits, DoesFits, <2>b, <2>1 DEF SSTypeOK
    <2>3. PlaceOK(op')
        BY NoOpFits, DoesFits, <2>b DEF PlaceOK, Relaunching, Sweeping, Creating,
           Ending
    <2>4. MemoryOK(op)'
        BY NoOpFits, <2>b DEF MemoryOK, Handed
    <2>5. ParkedOK'
        BY NoOpFits, <2>b DEF ParkedOK, MemoryOK, Handed
    <2>6. RecordsOK'
        BY NoOpFits, <2>b DEF RecordsOK, Handed
    <2>7. DyingOK'
        BY NoOpFits, DoesFits, <2>b DEF SSTypeOK, Operation, DyingOK, RecordsOK,
           Handed, LivingOK, PlaceOK
    <2>8. LivingOK'
        BY NoOpFits, DoesFits, <2>b DEF SSTypeOK, Operation, LivingOK, Relaunching,
           Running
    <2> QED
        BY <2>1, <2>2, <2>3, <2>4, <2>5, <2>6, <2>7, <2>8
<1>57. ASSUME NEW s \in Sessions, StopSession(s) PROVE IInv'
    <2> USE <1>57 DEF IInv, StopSession, Begin, Event, world
    <2>b. /\ op' \in Operation
          /\ op'.at = "stop" /\ op'.cur = s /\ op'.kind \in {"stop"}
          /\ op'.next = "end" /\ op'.live = {} /\ op'.old = None
          /\ op'.first = None /\ op'.mem.reset = "none"
        BY DoesFits DEF Kinds, Places
    <2>1. op' \in Operation
        BY NoOpFits, DoesFits, <2>b DEF SSTypeOK, Operation, Places
    <2>2. SSTypeOK'
        BY NoOpFits, DoesFits, <2>b, <2>1 DEF SSTypeOK
    <2>3. PlaceOK(op')
        BY NoOpFits, DoesFits, <2>b DEF PlaceOK, Relaunching, Sweeping, Creating,
           Ending
    <2>4. MemoryOK(op)'
        BY NoOpFits, <2>b DEF MemoryOK, Handed
    <2>5. ParkedOK'
        BY NoOpFits, <2>b DEF ParkedOK, MemoryOK, Handed
    <2>6. RecordsOK'
        BY NoOpFits, <2>b DEF RecordsOK, Handed
    <2>7. DyingOK'
        BY NoOpFits, <2>b DEF DyingOK
    <2>8. LivingOK'
        BY NoOpFits, DoesFits, <2>b DEF SSTypeOK, Operation, LivingOK, Relaunching,
           Running
    <2> QED
        BY <2>1, <2>2, <2>3, <2>4, <2>5, <2>6, <2>7, <2>8
<1>58. ASSUME NEW s \in Sessions, LookAt(s) PROVE IInv'
    <2> USE <1>58 DEF IInv, LookAt, Begin, Running, world
    <2>b. /\ op' \in Operation
          /\ op'.at = "sync" /\ op'.cur = s /\ op'.kind \in {"status", "receive"}
          /\ op'.next = "end" /\ op'.live = {} /\ op'.old = None
          /\ op'.first = None /\ op'.mem.reset = "none"
        BY DoesFits DEF Kinds, Places
    <2>1. op' \in Operation
        BY NoOpFits, DoesFits, <2>b DEF SSTypeOK, Operation, Places
    <2>2. SSTypeOK'
        BY NoOpFits, DoesFits, <2>b, <2>1 DEF SSTypeOK
    <2>3. PlaceOK(op')
        BY NoOpFits, DoesFits, <2>b DEF PlaceOK, Relaunching, Sweeping, Creating,
           Ending
    <2>4. MemoryOK(op)'
        BY NoOpFits, <2>b DEF MemoryOK, Handed
    <2>5. ParkedOK'
        BY NoOpFits, <2>b DEF ParkedOK, MemoryOK, Handed
    <2>6. RecordsOK'
        BY NoOpFits, <2>b DEF RecordsOK, Handed
    <2>7. DyingOK'
        BY NoOpFits, <2>b DEF DyingOK
    <2>8. LivingOK'
        BY NoOpFits, <2>b DEF LivingOK
    <2> QED
        BY <2>1, <2>2, <2>3, <2>4, <2>5, <2>6, <2>7, <2>8
<1>59. ASSUME NEW s \in Sessions, Acknowledge(s) PROVE IInv'
    <2> USE <1>59 DEF IInv, Acknowledge, world
    <2>1. op' \in Operation
        BY NoOpFits, NoneIsNoSession DEF SSTypeOK, Operation, Places
    <2>2. SSTypeOK'
        BY NoOpFits, NoneIsNoSession, <2>1 DEF SSTypeOK
    <2>3. PlaceOK(op')
        BY NoOpFits DEF PlaceOK
    <2>4. MemoryOK(op)'
        BY NoOpFits DEF MemoryOK, Handed
    <2>5. ParkedOK'
        BY NoOpFits DEF ParkedOK, MemoryOK, Handed
    <2>6. RecordsOK'
        BY NoOpFits DEF RecordsOK, Handed
    <2>7. DyingOK'
        BY NoOpFits DEF DyingOK
    <2>8. LivingOK'
        BY NoOpFits, NoneIsNoSession DEF SSTypeOK, Operation, LivingOK,
           Relaunching, Running
    <2> QED
        BY <2>1, <2>2, <2>3, <2>4, <2>5, <2>6, <2>7, <2>8
<1>60. ASSUME NEW s \in Sessions, NudgeNext(s) PROVE IInv'
    <2> USE <1>60 DEF IInv, NudgeNext, Begin, Resetting, world
    <2>b. /\ op' \in Operation
          /\ op'.at = "head" /\ op'.cur = s /\ op'.kind = "next" /\ op'.mem = rec[s]
          /\ op'.next = "end" /\ op'.live = {} /\ op'.old = None /\ op'.first = None
        <3> DEFINE o == Does("next", "head", s)
        <3>1. /\ o \in Operation /\ o.at = "head" /\ o.cur = s /\ o.kind = "next"
              /\ o.next = "end" /\ o.live = {} /\ o.old = None /\ o.first = None
            BY DoesFits DEF Kinds, Places
        <3>2. rec[s] \in Record
            BY DEF SSTypeOK
        <3>3. op' = [o EXCEPT !.mem = rec[s]]
            OBVIOUS
        <3> HIDE DEF o
        <3> QED
            BY <3>1, <3>2, <3>3 DEF Operation
    <2>1. op' \in Operation
        BY NoOpFits, DoesFits, <2>b DEF SSTypeOK, Operation, Places
    <2>2. SSTypeOK'
        BY NoOpFits, DoesFits, <2>b, <2>1 DEF SSTypeOK
    <2>3. PlaceOK(op')
        BY NoOpFits, DoesFits, <2>b DEF PlaceOK, Relaunching, Sweeping, Creating,
           Ending
    <2>4. MemoryOK(op)'
        BY NoOpFits, DoesFits, <2>b DEF SSTypeOK, Operation, MemoryOK, Handed,
           RecordsOK, Over
    <2>5. ParkedOK'
        BY NoOpFits, <2>b DEF ParkedOK, MemoryOK, Handed
    <2>6. RecordsOK'
        BY NoOpFits, <2>b DEF RecordsOK, Handed
    <2>7. DyingOK'
        BY NoOpFits, <2>b DEF DyingOK
    <2>8. LivingOK'
        BY NoOpFits, DoesFits, <2>b DEF SSTypeOK, Operation, LivingOK, Relaunching,
           Running
    <2> QED
        BY <2>1, <2>2, <2>3, <2>4, <2>5, <2>6, <2>7, <2>8
<1>61. ASSUME NEW s \in Sessions, NudgeSession(s) PROVE IInv'
    <2> USE <1>61 DEF IInv, NudgeSession, Begin, Resetting, Labelled, world
    <2>b. /\ op' \in Operation
          /\ op'.at = "send" /\ op'.cur = s /\ op'.kind = "manual" /\ op'.mem = rec[s]
          /\ op'.next = "end" /\ op'.live = {} /\ op'.old = None /\ op'.first = None
        <3> DEFINE o == Does("manual", "send", s)
        <3>1. /\ o \in Operation /\ o.at = "send" /\ o.cur = s /\ o.kind = "manual"
              /\ o.next = "end" /\ o.live = {} /\ o.old = None /\ o.first = None
            BY DoesFits DEF Kinds, Places
        <3>2. rec[s] \in Record
            BY DEF SSTypeOK
        <3>3. op' = [o EXCEPT !.mem = rec[s]]
            OBVIOUS
        <3> HIDE DEF o
        <3> QED
            BY <3>1, <3>2, <3>3 DEF Operation
    <2>1. op' \in Operation
        BY NoOpFits, DoesFits, <2>b DEF SSTypeOK, Operation, Places
    <2>2. SSTypeOK'
        BY NoOpFits, DoesFits, <2>b, <2>1 DEF SSTypeOK
    <2>3. PlaceOK(op')
        BY NoOpFits, DoesFits, <2>b DEF PlaceOK, Relaunching, Sweeping, Creating,
           Ending
    <2>4. MemoryOK(op)'
        BY NoOpFits, DoesFits, <2>b DEF SSTypeOK, Operation, MemoryOK, Handed,
           RecordsOK, Over
    <2>5. ParkedOK'
        BY NoOpFits, <2>b DEF ParkedOK, MemoryOK, Handed
    <2>6. RecordsOK'
        BY NoOpFits, <2>b DEF RecordsOK, Handed
    <2>7. DyingOK'
        BY NoOpFits, <2>b DEF DyingOK
    <2>8. LivingOK'
        BY NoOpFits, DoesFits, <2>b DEF SSTypeOK, Operation, LivingOK, Relaunching,
           Running
    <2> QED
        BY <2>1, <2>2, <2>3, <2>4, <2>5, <2>6, <2>7, <2>8
<1>62. ASSUME Crash PROVE IInv'
    <2> USE <1>62 DEF IInv, Crash, End, Event, world
    <2>1. op' \in Operation
        BY NoOpFits, NoneIsNoSession DEF SSTypeOK, Operation, Places
    <2>2. SSTypeOK'
        <3>1. events' \in 0 .. MaxEvents /\ day' \in 0 .. MaxDay
            BY DEF SSTypeOK
        <3>2. logs' \subseteq 0 .. MaxDay
            BY DEF SSTypeOK
        <3> QED
            BY NoOpFits, NoneIsNoSession, <2>1, <3>1, <3>2 DEF SSTypeOK
    <2>3. PlaceOK(op')
        BY NoOpFits, NoneIsNoSession DEF PlaceOK, Relaunching, Sweeping, Creating,
           Ending
    <2>4. MemoryOK(op)'
        BY NoOpFits DEF MemoryOK, Handed
    <2>5. ParkedOK'
        BY NoOpFits DEF ParkedOK, MemoryOK, Handed
    <2>6. RecordsOK'
        BY NoOpFits DEF RecordsOK, Handed
    <2>7. DyingOK'
        BY NoOpFits DEF DyingOK
    <2>8. LivingOK'
        BY NoOpFits, NoneIsNoSession DEF SSTypeOK, Operation, LivingOK,
           Relaunching, Running
    <2> QED
        BY <2>1, <2>2, <2>3, <2>4, <2>5, <2>6, <2>7, <2>8
<1>63. ASSUME Restart \/ Repair PROVE IInv'
    <2> USE <1>63 DEF IInv, world
    <2>a. /\ UNCHANGED <<rec, pane, logs, waiting, overdue, day, parked>>
          /\ up' \in BOOLEAN
          /\ events' \in 0 .. MaxEvents
          /\ message' \in {"none", "ready", "claimed"}
          /\ holder' \in Sessions \union {None}
          /\ holder' # None <=> message' = "claimed"
        <3>1. up' = TRUE /\ UNCHANGED <<rec, pane, logs, waiting, overdue, day, parked>>
            BY DEF Restart, Repair
        <3>2. events' = events \/ Event
            BY DEF Restart, Repair, Repairs
        <3>3. events' \in 0 .. MaxEvents
            BY <3>2 DEF SSTypeOK, Event
        <3>4. UNCHANGED <<message, holder>> \/ (message' = "none" /\ holder' = None)
            BY DEF Restart, Repair, Repairs
        <3> QED
            BY <3>1, <3>3, <3>4 DEF SSTypeOK
    <2>b. \/ op' = op
          \/ /\ op' \in Operation /\ op'.kind = "repair"
             /\ op'.cur \in Sessions /\ op'.next = "end" /\ op'.live = {}
             /\ op'.old = None /\ op'.first = None /\ op'.mem.reset = "none"
             /\ \/ op'.at = "sync" /\ rec[op'.cur].state = "alive"
                \/ op'.at \in {"clean", "mark"}
        <3>1. \/ op' = op
              \/ \E place \in {"sync", "clean", "mark"} :
                   /\ holder \in Sessions /\ op' = Does("repair", place, holder)
                   /\ place = "sync" => rec[holder].state = "alive"
            BY DEF Restart, Repair, Repairs, SSTypeOK
        <3>2. ASSUME NEW place \in {"sync", "clean", "mark"}, holder \in Sessions
              PROVE  LET d == Does("repair", place, holder)
                     IN  /\ d \in Operation /\ d.kind = "repair" /\ d.at = place
                         /\ d.cur = holder /\ d.next = "end" /\ d.live = {}
                         /\ d.old = None /\ d.first = None /\ d.mem.reset = "none"
            BY <3>2, DoesFits DEF Kinds, Places
        <3> QED
            BY <3>1, <3>2
    <2>1. op' \in Operation
        BY <2>b DEF SSTypeOK
    <2>2. SSTypeOK'
        BY <2>a, <2>1 DEF SSTypeOK
    <2>3. PlaceOK(op')
        BY NoneIsNoSession, <2>a, <2>b DEF PlaceOK, Relaunching, Sweeping, Creating,
           Ending
    <2>4. MemoryOK(op)'
        BY <2>a, <2>b DEF MemoryOK, Handed
    <2>5. ParkedOK'
        BY <2>a, <2>b DEF ParkedOK, MemoryOK, Handed
    <2>6. RecordsOK'
        BY <2>a, <2>b DEF RecordsOK, Handed
    <2>7. DyingOK'
        BY <2>a, <2>b DEF DyingOK
    <2>8. LivingOK'
        BY NoneIsNoSession, <2>a, <2>b DEF LivingOK, Relaunching, Running
    <2> QED
        BY <2>2, <2>3, <2>4, <2>5, <2>6, <2>7, <2>8
<1>64. ASSUME TimePasses PROVE IInv'
    <2> USE <1>64 DEF IInv, TimePasses, Resetting, world
    <2>1. op' \in Operation
        BY DEF SSTypeOK, Operation, Places
    <2>2. SSTypeOK'
        BY <2>1 DEF SSTypeOK
    <2>3. PlaceOK(op')
        BY DEF PlaceOK
    <2>4. MemoryOK(op)'
        BY DEF MemoryOK, Handed
    <2>5. ParkedOK'
        BY DEF ParkedOK, MemoryOK, Handed
    <2>6. RecordsOK'
        BY DEF RecordsOK, Handed
    <2>7. DyingOK'
        BY DEF DyingOK
    <2>8. LivingOK'
        BY DEF SSTypeOK, Operation, LivingOK, Relaunching, Running
    <2> QED
        BY <2>1, <2>2, <2>3, <2>4, <2>5, <2>6, <2>7, <2>8
<1>65. ASSUME DayPasses PROVE IInv'
    <2> USE <1>65 DEF IInv, DayPasses, world
    <2>1. op' \in Operation
        BY DEF SSTypeOK, Operation, Places
    <2>2. SSTypeOK'
        BY <2>1 DEF SSTypeOK
    <2>3. PlaceOK(op')
        BY DEF PlaceOK
    <2>4. MemoryOK(op)'
        BY DEF MemoryOK, Handed
    <2>5. ParkedOK'
        BY DEF ParkedOK, MemoryOK, Handed
    <2>6. RecordsOK'
        BY DEF RecordsOK, Handed
    <2>7. DyingOK'
        BY DEF DyingOK
    <2>8. LivingOK'
        BY DEF SSTypeOK, Operation, LivingOK, Relaunching, Running
    <2> QED
        BY <2>1, <2>2, <2>3, <2>4, <2>5, <2>6, <2>7, <2>8
<1>66. ASSUME Arrive PROVE IInv'
    <2> USE <1>66 DEF IInv, Arrive, Anew, world
    <2>a. \A s \in Sessions :
             /\ Anew(rec[s]) \in Record
             /\ Anew(rec[s]).state = rec[s].state
             /\ Anew(rec[s]).reset = rec[s].reset /\ Anew(rec[s]).date = rec[s].date
        BY DEF SSTypeOK, Record
    <2>b. /\ rec' \in [Sessions -> Record]
          /\ \A s \in Sessions :
               /\ rec'[s].state = rec[s].state
               /\ rec'[s].reset = rec[s].reset /\ rec'[s].date = rec[s].date
          /\ UNCHANGED <<pane, holder, logs, overdue, day, up, op, events>>
          /\ op = NoOp /\ message' = "ready" /\ message = "none" /\ waiting' = {}
        BY <2>a
    <2>c. \/ parked' = parked
          \/ /\ parked # None /\ parked.first # None
             /\ parked' \in Operation
             /\ parked'.at = parked.at /\ parked'.cur = parked.cur
             /\ parked'.live = parked.live /\ parked'.old = parked.old
             /\ parked'.next = parked.next /\ parked'.kind = parked.kind
             /\ parked'.mem = parked.mem
             /\ parked'.first.reset = parked.first.reset
             /\ parked'.first.date = parked.first.date
        <3>1. CASE parked = None \/ parked.first = None
            BY <3>1
        <3>2. CASE parked # None /\ parked.first # None
            <4>1. parked' = [parked EXCEPT !.first = Anew(parked.first)]
                BY <3>2
            <4>2. parked \in Operation /\ parked.first \in Record
                BY <3>2 DEF SSTypeOK, Operation
            <4>3. /\ Anew(parked.first) \in Record
                  /\ Anew(parked.first).reset = parked.first.reset
                  /\ Anew(parked.first).date = parked.first.date
                BY <4>2 DEF Record
            <4> HIDE DEF Arrive, Anew
            <4> QED
                BY <3>2, <4>1, <4>2, <4>3 DEF Operation
        <3> QED
            BY <3>1, <3>2
    <2> HIDE DEF Arrive, Anew
    <2>1. op' \in Operation
        BY NoOpFits, NoneIsNoSession, <2>a, <2>b, <2>c DEF SSTypeOK, Operation, Places
    <2>2. SSTypeOK'
        BY NoOpFits, NoneIsNoSession, <2>a, <2>b, <2>c, <2>1 DEF SSTypeOK
    <2>3. PlaceOK(op')
        BY NoOpFits, <2>a, <2>b, <2>c DEF PlaceOK
    <2>4. MemoryOK(op)'
        BY NoOpFits, <2>a, <2>b, <2>c DEF MemoryOK, Handed
    <2>5. ParkedOK'
        BY NoOpFits, NoneIsNoSession, <2>a, <2>b, <2>c DEF SSTypeOK, ParkedOK,
           PlaceOK, MemoryOK, Handed
    <2>6. RecordsOK'
        BY NoOpFits, <2>a, <2>b, <2>c DEF RecordsOK, Handed
    <2>7. DyingOK'
        BY NoOpFits, <2>a, <2>b, <2>c DEF DyingOK
    <2>8. LivingOK'
        BY NoOpFits, NoneIsNoSession, <2>a, <2>b, <2>c DEF SSTypeOK, Operation,
           LivingOK, Relaunching, Running
    <2> QED
        BY <2>1, <2>2, <2>3, <2>4, <2>5, <2>6, <2>7, <2>8
<1>67. ASSUME OwnerTakes PROVE IInv'
    <2> USE <1>67 DEF IInv, OwnerTakes, world
    <2>1. op' \in Operation
        BY DEF SSTypeOK, Operation, Places
    <2>2. SSTypeOK'
        BY <2>1 DEF SSTypeOK
    <2>3. PlaceOK(op')
        BY DEF PlaceOK
    <2>4. MemoryOK(op)'
        BY DEF MemoryOK, Handed
    <2>5. ParkedOK'
        BY DEF ParkedOK, MemoryOK, Handed
    <2>6. RecordsOK'
        BY DEF RecordsOK, Handed
    <2>7. DyingOK'
        BY DEF DyingOK
    <2>8. LivingOK'
        BY DEF SSTypeOK, Operation, LivingOK, Relaunching, Running
    <2> QED
        BY <2>1, <2>2, <2>3, <2>4, <2>5, <2>6, <2>7, <2>8
<1>68. ASSUME NEW s \in Sessions, AgentLogs(s) PROVE IInv'
    <2> USE <1>68 DEF IInv, AgentLogs, Resetting, world
    <2>1. op' \in Operation
        BY DEF SSTypeOK, Operation, Places
    <2>2. SSTypeOK'
        <3>1. rec[s].date \in 0 .. MaxDay
            BY DEF SSTypeOK, Record
        <3>2. logs' \subseteq 0 .. MaxDay
            BY <3>1 DEF SSTypeOK
        <3> QED
            BY <2>1, <3>2 DEF SSTypeOK
    <2>3. PlaceOK(op')
        BY DEF PlaceOK
    <2>4. MemoryOK(op)'
        BY DEF MemoryOK, Handed
    <2>5. ParkedOK'
        BY DEF ParkedOK, MemoryOK, Handed
    <2>6. RecordsOK'
        BY DEF RecordsOK, Handed
    <2>7. DyingOK'
        BY DEF DyingOK
    <2>8. LivingOK'
        BY DEF SSTypeOK, Operation, LivingOK, Relaunching, Running
    <2> QED
        BY <2>1, <2>2, <2>3, <2>4, <2>5, <2>6, <2>7, <2>8
<1>69. ASSUME NEW s \in Sessions, PaneEnds(s) PROVE IInv'
    <2> USE <1>69 DEF IInv, PaneEnds, Kills, Event, world
    <2>1. op' \in Operation
        BY DEF SSTypeOK, Operation, Places
    <2>2. SSTypeOK'
        BY <2>1 DEF SSTypeOK
    <2>3. PlaceOK(op')
        BY DEF PlaceOK
    <2>4. MemoryOK(op)'
        BY DEF MemoryOK, Handed
    <2>5. ParkedOK'
        BY DEF ParkedOK, MemoryOK, Handed
    <2>6. RecordsOK'
        BY DEF RecordsOK, Handed
    <2>7. DyingOK'
        BY DEF DyingOK
    <2>8. LivingOK'
        BY DEF SSTypeOK, Operation, LivingOK, Relaunching, Running
    <2> QED
        BY <2>1, <2>2, <2>3, <2>4, <2>5, <2>6, <2>7, <2>8
<1>71. ASSUME FreeRefused PROVE IInv'
    <2> USE <1>71 DEF IInv, FreeRefused, Event, world
    <2>0. /\ op.cur \in Sessions /\ rec[op.cur] \in Record
          /\ rec' \in [Sessions -> Record]
          /\ rec'[op.cur].state = "stale"
          /\ rec'[op.cur].reset = rec[op.cur].reset
          /\ rec'[op.cur].date = rec[op.cur].date
          /\ \A s \in Sessions \ {op.cur} : rec'[s] = rec[s]
        BY DEF SSTypeOK, PlaceOK, Record
    <2>1. op' \in Operation
        BY DEF SSTypeOK
    <2>2. SSTypeOK'
        <3>1. pane' \in [Sessions -> BOOLEAN]
            BY <2>0 DEF SSTypeOK, Kills
        <3>2. events' \in 0 .. MaxEvents
            BY DEF SSTypeOK
        <3> QED
            BY <2>0, <2>1, <3>1, <3>2 DEF SSTypeOK
    <2>3. PlaceOK(op')
        BY DEF PlaceOK
    <2>4. MemoryOK(op)'
        BY DEF MemoryOK, Handed
    <2>5. ParkedOK'
        BY DEF ParkedOK, MemoryOK, Handed
    <2>6. RecordsOK'
        BY <2>0 DEF RecordsOK, Handed, Over
    <2>7. DyingOK'
        BY <2>0, NoneIsNoSession DEF DyingOK, Over, PlaceOK
    <2>8. LivingOK'
        BY <2>0, NoneIsNoSession DEF SSTypeOK, Operation, LivingOK, Relaunching, Running
    <2> QED
        BY <2>1, <2>2, <2>3, <2>4, <2>5, <2>6, <2>7, <2>8
<1>70. CASE UNCHANGED vars
    BY <1>70 DEF vars, world, IInv, SSTypeOK, PlaceOK, MemoryOK, Handed, ParkedOK,
       RecordsOK, DyingOK, LivingOK, Running
<1> QED
    BY <1>1, <1>2, <1>3, <1>4, <1>5, <1>6, <1>7, <1>8, <1>9, <1>10, <1>11, <1>12,
       <1>13, <1>14, <1>15, <1>16, <1>17, <1>18, <1>19, <1>20, <1>21, <1>22, <1>23,
       <1>24, <1>25, <1>26, <1>27, <1>28, <1>29, <1>30, <1>31, <1>32, <1>33, <1>34,
       <1>35, <1>36, <1>37, <1>38, <1>39, <1>40, <1>41, <1>42, <1>43, <1>44, <1>45,
       <1>46, <1>47, <1>48, <1>49, <1>50, <1>51, <1>52, <1>53, <1>54, <1>55, <1>56,
       <1>57, <1>58, <1>59, <1>60, <1>61, <1>62, <1>63, <1>64, <1>65, <1>66, <1>67,
       <1>68, <1>69, <1>70, <1>71
    DEF SSNext, Steps, Failures, Requests, World

LEMMA InitInductive == SSInit => IInv
<1> SUFFICES ASSUME SSInit PROVE IInv
    OBVIOUS
<1> USE SessionsAssumption, CapAssumption, NoneAssumption, BoundAssumption
<1>1. rec \in [Sessions -> Record]
    <2>1. [Blank EXCEPT !.state = "alive"] \in Record
        BY BlankIsRecord DEF Record
    <2> QED
        BY <2>1, BlankIsRecord DEF SSInit
<1>2. SSTypeOK
    <2>1. pane \in [Sessions -> BOOLEAN]
        BY DEF SSInit
    <2>2. day \in 0 .. MaxDay /\ events \in 0 .. MaxEvents
        BY DEF SSInit
    <2> QED
        BY <1>1, <2>1, <2>2, NoOpFits DEF SSInit, SSTypeOK
<1>3. \A s \in Sessions : rec[s].reset = "none"
    BY DEF SSInit, Blank
<1> QED
    BY <1>2, <1>3, NoOpFits DEF SSInit, IInv, PlaceOK, MemoryOK, Handed, ParkedOK,
       RecordsOK, DyingOK, LivingOK, Sweeping, Relaunching, Ending, Creating

LEMMA Inductive == SSSpec => []IInv
<1> QED
    BY InitInductive, StepInductive, PTL DEF SSSpec

\* The records, the operation under way and a parked nudge keep their types,
\* for any sessions, hosts, caps, days and failures.
THEOREM TypeCorrect == SSSpec => []SSTypeOK
<1>1. IInv => SSTypeOK
    BY DEF IInv
<1> QED
    BY <1>1, Inductive, PTL

\* Nobody is killed for the daily reset before the log of that day is on disk:
\* whatever crashes, fails or is written from memory (finishDailyResetLocked).
THEOREM HandoffKept == SSSpec => []ResetHasHandoff
<1>1. IInv => ResetHasHandoff
    BY DEF IInv, RecordsOK, Handed, ResetHasHandoff
<1> QED
    BY <1>1, Inductive, PTL


\* The step of FencedStays.
Stays ==
    \A s \in Sessions :
        \/ op.kind = "reuse" /\ s = op.cur
        \/ Restored(s)
        \/ /\ rec[s].state \in {"stale", "dead"} => rec'[s].state \in {"stale", "dead"}
           /\ rec[s].state = "dead" => rec'[s].state = "dead" \/ Marked(s)

LEMMA StepStays == IInv /\ [SSNext]_vars => [Stays]_vars
<1> SUFFICES ASSUME IInv, SSNext PROVE Stays
    BY DEF vars
<1>1. SSTypeOK /\ PlaceOK(op) /\ MemoryOK(op) /\ RecordsOK /\ LivingOK
    BY DEF IInv
<1>2. op \in Operation /\ \A s \in Sessions : rec[s] \in Record
    BY <1>1 DEF SSTypeOK
<1>3. ASSUME rec' = rec PROVE Stays
    BY <1>3 DEF Stays
<1>4. ASSUME NEW s \in Sessions, NEW state \in {"starting", "alive", "stale", "dead"},
             Writes(s, state),
             \/ op.kind = "reuse" /\ s = op.cur
             \/ state = "dead"
             \/ state = "stale" /\ (rec[s].state # "dead" \/ Marked(s))
             \/ Running(s)
      PROVE  Stays
    <2>1. rec'[s].state = state /\ \A r \in Sessions \ {s} : rec'[r] = rec[r]
        BY <1>1, <1>4, WritesRecord
    <2> QED
        BY <1>4, <2>1 DEF Stays, Running
<1>5. ASSUME \A s \in Sessions : rec'[s].state = rec[s].state \/ rec'[s].state = "dead"
      PROVE  Stays
    BY <1>5 DEF Stays
<1>6. CASE Mark
    <2>1. op.cur \in Sessions /\ Writes(op.cur, "stale")
        BY <1>1, <1>6 DEF Mark, At, PlaceOK
    <2>2. op.kind = "reuse" \/ rec[op.cur].state # "dead" \/ Marked(op.cur)
        BY <1>1, <1>6 DEF Mark, Marked, At, LivingOK
    <2> QED
        BY <1>4, <2>1, <2>2
<1>7. CASE Relaunch
    BY <1>1, <1>4, <1>7 DEF Relaunch, At, PlaceOK, LivingOK, Relaunching
<1>8. CASE RelaunchAlive
    BY <1>1, <1>4, <1>8 DEF RelaunchAlive, At, PlaceOK, LivingOK, Relaunching
<1>9. CASE \E s \in Sessions : SweepLive(s)
    BY <1>4, <1>9 DEF SweepLive
<1>10. CASE Fence
    <2>1. PICK s \in op.live : Writes(s, "stale")
        BY <1>10 DEF Fence
    <2>2. s \in Sessions /\ rec[s].state # "dead"
        BY <1>1, <1>2, <2>1 DEF LivingOK, Operation
    <2>3. ASSUME NEW r \in Sessions, Writes(r, "stale"), rec[r].state # "dead"
          PROVE  Stays
        BY <1>4, <2>3
    <2> QED
        BY <2>1, <2>2, <2>3
<1>11. CASE Activate
    BY <1>1, <1>4, <1>11 DEF Activate, At, PlaceOK, LivingOK, Running
<1>12. CASE LaunchFails
    BY <1>1, <1>3, <1>4, <1>12 DEF LaunchFails, PlaceOK
<1>13. CASE Stop
    BY <1>1, <1>4, <1>13 DEF Stop, At, PlaceOK
<1>14. CASE SyncLive
    BY <1>1, <1>4, <1>14 DEF SyncLive, At, PlaceOK, LivingOK
<1>15. CASE Register
    <2>1. PICK s \in Sessions :
             /\ rec[s].state = "none"
             /\ rec' = [rec EXCEPT ![s] = [Blank EXCEPT !.state = "starting",
                                                       !.born = day]]
        BY <1>15 DEF Register
    <2> QED
        BY <1>1, <2>1 DEF Stays, SSTypeOK
<1>16. CASE Request \/ Prompted
    <2>1. \A s \in Sessions : rec'[s].state = rec[s].state
        BY <1>1, <1>16 DEF Request, Prompted, SSTypeOK, Record
    <2> QED
        BY <1>5, <2>1
<1>17. CASE Die \/ Replaced
    <2>1. ASSUME NEW o \in Sessions, NEW r \in Record, r.state = "dead",
                 rec' = [rec EXCEPT ![o] = r]
          PROVE  Stays
        BY <1>1, <1>5, <2>1 DEF SSTypeOK
    <2>2. CASE Die
        <3> DEFINE r == [rec[op.cur] EXCEPT !.state = "dead", !.reset = "replacing"]
        <3>1. op.cur \in Sessions
            BY <1>1, <2>2 DEF Die, At, PlaceOK
        <3>2. r \in Record /\ r.state = "dead"
            BY <1>2, <3>1 DEF Record
        <3>3. rec' = [rec EXCEPT ![op.cur] = r]
            BY <2>2 DEF Die
        <3> QED
            BY <2>1, <3>1, <3>2, <3>3
    <2>3. CASE Replaced
        <3> DEFINE r == [rec[op.old] EXCEPT !.state = "dead", !.reset = "completed"]
        <3>1. op.old \in Sessions
            BY <1>1, <2>3 DEF Replaced, At, PlaceOK
        <3>2. r \in Record /\ r.state = "dead"
            BY <1>2, <3>1 DEF Record
        <3>3. rec' = [rec EXCEPT ![op.old] = r]
            BY <2>3 DEF Replaced
        <3> QED
            BY <2>1, <3>1, <3>2, <3>3
    <2> QED
        BY <1>17, <2>2, <2>3
<1>18. CASE SendSkip \/ Send \/ Count
    <2>1. op.at \in {"send", "count"} /\ op.cur \in Sessions
        BY <1>1, <1>18 DEF SendSkip, Send, Count, MaySend, At, PlaceOK
    <2>2. \A s \in Sessions :
             rec'[s].state = IF s = op.cur THEN op.mem.state ELSE rec[s].state
        <3>1. PICK n \in 0 .. Cap :
                 \/ rec' = [rec EXCEPT ![op.cur] = op.mem]
                 \/ rec' = [rec EXCEPT ![op.cur] = [op.mem EXCEPT !.nudges = n]]
            <4>1. op.mem.nudges \in 0 .. Cap
                BY <1>2, CapAssumption DEF Operation, Record
            <4> QED
                BY <1>18, <4>1, CapAssumption DEF SendSkip, Send, Count
        <3>2. [op.mem EXCEPT !.nudges = n].state = op.mem.state
            BY <1>2 DEF Operation, Record
        <3> QED
            BY <1>1, <3>1, <3>2 DEF SSTypeOK
    <2> QED
        BY <1>1, <2>1, <2>2 DEF LivingOK, Stays
<1>19. CASE KillFails
    <2>1. op.cur \in Sessions
        BY <1>1, <1>19 DEF KillFails, PlaceOK
    <2>2. \A s \in Sessions \ {op.cur} : rec'[s] = rec[s]
        BY <1>1, <1>19 DEF KillFails, SSTypeOK
    <2> QED
        BY <1>19, <2>2 DEF Stays, Restored
<1>24. CASE FreeRefused
    <2>1. op.cur \in Sessions
        BY <1>1, <1>24 DEF FreeRefused, PlaceOK
    <2>2. /\ rec'[op.cur].state = "stale"
          /\ \A s \in Sessions \ {op.cur} : rec'[s] = rec[s]
        BY <1>1, <1>2, <1>24, <2>1 DEF FreeRefused, SSTypeOK, Record
    <2> QED
        BY <1>24, <2>2 DEF Stays, Marked
<1>20. CASE Arrive
    <2>1. \A s \in Sessions : rec'[s].state = rec[s].state
        BY <1>1, <1>20 DEF Arrive, Anew, SSTypeOK, Record
    <2> QED
        BY <1>5, <2>1
<1>21. CASE \/ Clean \/ Free \/ RelaunchUp \/ RelaunchFails
            \/ \E s \in Sessions : SweepStale(s) \/ SweepGone(s)
            \/ FenceKill \/ SweptBare \/ SweptForDispatch \/ SweptForReset
            \/ SweptForReplacement \/ Launch
            \/ PendingReplacing \/ PendingGone \/ PendingOver \/ PendingLive
            \/ PromptMissing \/ PromptBusy \/ PromptTyped \/ Log \/ DieKill \/ DieFree
            \/ StopKill \/ SyncGone \/ HeadNothing \/ HeadReady \/ SendRefused
            \/ SendGone \/ SendBusy \/ Type
    BY <1>3, <1>21 DEF Clean, Free, RelaunchUp, RelaunchFails, SweepStale, SweepGone,
       FenceKill, SweptBare, SweptForDispatch, SweptForReset, SweptForReplacement,
       Launch, PendingReplacing, PendingGone, PendingOver, PendingLive, PromptMissing,
       PromptBusy, PromptTyped, Log, DieKill, DieFree, StopKill, SyncGone, HeadNothing,
       HeadReady, SendRefused, SendGone, SendBusy, Type
<1>22. CASE \/ Fails \/ SyncUnfit \/ HeadStale \/ \E s \in Sessions : SweepUnfit(s)
            \/ Requests
    BY <1>3, <1>22 DEF Fails, SyncUnfit, HeadStale, SweepUnfit, Requests, Dispatch,
       StartReset, Refresh, Complete, StopSession, LookAt, Acknowledge, NudgeNext,
       NudgeSession, Repair
<1>23. CASE \/ Crash \/ Restart \/ TimePasses \/ DayPasses \/ OwnerTakes
            \/ \E s \in Sessions : AgentLogs(s) \/ PaneEnds(s)
    BY <1>3, <1>23 DEF Crash, Restart, TimePasses, DayPasses, OwnerTakes, AgentLogs,
       PaneEnds
<1> QED
    BY <1>6, <1>7, <1>8, <1>9, <1>10, <1>11, <1>12, <1>13, <1>14, <1>15, <1>16, <1>17,
       <1>18, <1>19, <1>20, <1>21, <1>22, <1>23, <1>24
    DEF SSNext, Steps, Failures, World

\* No step runs a stale or dead session again, whatever is under way, except a
\* kill that fails (fenceDuplicateLiveSessionLocked, finishDailyResetLocked,
\* stopSession) and the second nudge of a dispatch; a dead one is at most marked
\* stale, when the cloud refuses to take its claim back
\* (markDeliverySessionRecordStaleLocked).
THEOREM FencedStay == SSSpec => FencedStays
<1>1. IInv /\ [SSNext]_vars => [Stays]_vars
    BY StepStays
<1> QED
    BY <1>1, Inductive, PTL DEF SSSpec, FencedStays, Stays


\* What a nudge remembers of its session, until it types.
Nudging(o) == o.at \in {"head", "send"} \/ (o.at \in Relaunching /\ o.next = "send")
RememberedOK ==
    op.kind # "reuse" /\ Nudging(op) =>
        /\ op.mem.reset = rec[op.cur].reset
        /\ op.at \in Relaunching \/ (op.at = "send" /\ op.mem.state = "alive") =>
             op.kind = "manual" \/ rec[op.cur].nudges < Cap

LEMMA StepRemembers == IInv /\ RememberedOK /\ [SSNext]_vars => RememberedOK'
<1> SUFFICES ASSUME IInv, RememberedOK, [SSNext]_vars PROVE RememberedOK'
    OBVIOUS
<1>1. SSTypeOK /\ PlaceOK(op) /\ ParkedOK /\ LivingOK
    BY DEF IInv
<1>2. op \in Operation /\ \A s \in Sessions : rec[s] \in Record
    BY <1>1 DEF SSTypeOK
<1>3. ASSUME UNCHANGED <<rec, op>> PROVE RememberedOK'
    BY <1>3 DEF RememberedOK, Nudging
<1>4. ASSUME ~Nudging(op') PROVE RememberedOK'
    BY <1>4 DEF RememberedOK, Nudging
<1>5. ASSUME op'.at = "head", op'.mem.reset = rec'[op'.cur].reset PROVE RememberedOK'
    BY <1>5 DEF RememberedOK, Relaunching
<1>6. ASSUME op'.at = "idle" PROVE RememberedOK'
    BY <1>6 DEF RememberedOK, Nudging, Relaunching
<1>7. ASSUME op'.kind = "reuse" PROVE RememberedOK'
    BY <1>7 DEF RememberedOK
<1>8. CASE \/ Mark \/ Clean \/ Free \/ RelaunchFails
           \/ \E s \in Sessions : SweepStale(s) \/ SweepLive(s) \/ SweepUnfit(s)
           \/ Fence \/ FenceKill \/ SweptBare \/ SweptForReset \/ SweptForReplacement
           \/ Register \/ Launch \/ LaunchFails \/ FreeRefused
    <2>1. op'.at \in {"idle", "sweep", "clean", "free", "mark", "fenceKill", "register",
                      "request", "record", "launch", "activate", "dieFree"}
        BY <1>2, <1>8, NoOpFits DEF Mark, Clean, Free, RelaunchFails, SweepStale,
           SweepLive, SweepUnfit, Fence, FenceKill, SweptBare, SweptForReset,
           SweptForReplacement, Register, Launch, LaunchFails, FreeRefused, At, Go,
           End, Swept, Operation
    <2> QED
        BY <1>4, <2>1 DEF Nudging, Relaunching
<1>9. CASE \E s \in Sessions : SweepGone(s)
    <2>1. op'.next = "sweep" /\ op'.at \in {"relaunch", "mark"}
        BY <1>2, <1>9 DEF SweepGone, Operation
    <2> QED
        BY <1>4, <2>1 DEF Nudging, Relaunching
<1>10. CASE \/ PendingReplacing \/ PendingOver \/ PendingLive \/ Request
            \/ PromptMissing \/ PromptBusy \/ PromptTyped \/ Prompted
            \/ Log \/ Die \/ DieKill \/ DieFree \/ Stop \/ StopKill
    <2>1. op'.at \in {"idle", "log", "prompt", "prompted", "die", "dieKill", "dieFree",
                      "stopKill", "free", "sweep"}
        BY <1>2, <1>10, NoOpFits DEF PendingReplacing, PendingOver, PendingLive,
           Request,
           PromptMissing, PromptBusy, PromptTyped, Prompted, Log, Die, DieKill, DieFree,
           Stop, StopKill, Go, End, Sweeps, Operation
    <2> QED
        BY <1>4, <2>1 DEF Nudging, Relaunching
<1>11. CASE PendingGone \/ SyncGone
    <2>1. \/ op'.at = "relaunch" /\ op'.next \in {"pending", "sync"}
          \/ op'.at \in {"mark", "log"}
        <3>1. CASE Gone("pending") \/ Gone("sync")
            BY <1>1, <3>1, GoneFits DEF SSTypeOK
        <3>2. CASE op' = [op EXCEPT !.at = "log"] \/ op' = [op EXCEPT !.at = "mark"]
            BY <1>2, <3>2 DEF Operation
        <3> QED
            BY <1>11, <3>1, <3>2 DEF PendingGone, SyncGone, Go
    <2> QED
        BY <1>4, <2>1 DEF Nudging, Relaunching
<1>12. CASE SyncLive \/ SendRefused \/ SendSkip \/ Count \/ Fails \/ KillFails \/ HeadStale
            \/ Crash
    <2>1. op' = NoOp
        BY <1>12 DEF SyncLive, SendRefused, SendSkip, Count, Fails, KillFails,
           HeadStale,
           Crash, End
    <2> QED
        BY <1>6, <2>1, NoOpFits
<1>13. CASE Send \/ Type \/ SyncUnfit
    <2>1. op'.at \in {"type", "count", "mark"}
        BY <1>2, <1>13 DEF Send, Type, SyncUnfit, Go, Operation
    <2> QED
        BY <1>4, <2>1 DEF Nudging, Relaunching
<1>14. CASE SendBusy \/ HeadNothing
    <2>1. op' = NoOp \/ op' = NothingSent(op)
        BY <1>14 DEF SendBusy, HeadNothing
    <2>2. op'.at = "idle" \/ op'.kind = "reuse"
        BY <1>2, <2>1, NothingSentFits, NoOpFits
    <2> QED
        BY <1>6, <1>7, <2>2
<1>15. CASE Relaunch
    <2>1. /\ op'.at = "relaunchUp" /\ op'.next = op.next /\ op'.kind = op.kind
          /\ op'.cur = op.cur /\ op'.mem = op.mem /\ op.at = "relaunch"
          /\ op.cur \in Sessions
        BY <1>1, <1>2, <1>15 DEF Relaunch, At, Go, Operation, PlaceOK
    <2>2. op.kind # "reuse" => /\ rec'[op.cur].reset = rec[op.cur].reset
                               /\ rec'[op.cur].nudges = rec[op.cur].nudges
        BY <1>1, <1>2, <1>15, <2>1 DEF Relaunch, Writes, Held, SSTypeOK, Record
    <2> QED
        BY <2>1, <2>2 DEF RememberedOK, Nudging, Relaunching
<1>16. CASE RelaunchUp
    <2>1. /\ op'.at = "relaunchAlive" /\ op'.next = op.next /\ op'.kind = op.kind
          /\ op'.cur = op.cur /\ op'.mem = op.mem /\ op.at = "relaunchUp" /\ rec' = rec
        BY <1>2, <1>16 DEF RelaunchUp, At, Go, Operation
    <2> QED
        BY <2>1 DEF RememberedOK, Nudging, Relaunching
<1>17. CASE RelaunchAlive
    <2>1. /\ op'.at = op.next /\ op'.next = "end" /\ op'.kind = op.kind
          /\ op'.cur = op.cur /\ op'.mem.reset = op.mem.reset
          /\ op.at = "relaunchAlive" /\ op.cur \in Sessions
        BY <1>1, <1>2, <1>17 DEF RelaunchAlive, At, Operation, PlaceOK, Record
    <2>2. op.kind # "reuse" => /\ rec'[op.cur].reset = rec[op.cur].reset
                               /\ rec'[op.cur].nudges = rec[op.cur].nudges
        BY <1>1, <1>2, <1>17, <2>1 DEF RelaunchAlive, Writes, Held, SSTypeOK, Record
    <2>3. op.next \in {"end", "sweep", "pending", "send", "sync"}
        BY <1>2 DEF Operation
    <2> QED
        BY <2>1, <2>2, <2>3 DEF RememberedOK, Nudging, Relaunching
<1>18. CASE SweptForDispatch
    <2>1. PICK s \in Sessions :
             \/ op' = NoOp
             \/ \E again : op' = Turned(op, s, rec[s], again)
        BY <1>18 DEF SweptForDispatch, End, Turned
    <2>2. CASE op' = NoOp
        BY <1>6, <2>2, NoOpFits
    <2>3. ASSUME NEW again, op' = Turned(op, s, rec[s], again) PROVE RememberedOK'
        <3>1. op'.at = "head" /\ op'.cur = s /\ op'.mem = rec[s]
            BY <1>2, <2>3 DEF Turned, Operation
        <3>2. rec' = rec
            BY <1>18 DEF SweptForDispatch
        <3> QED
            BY <1>5, <3>1, <3>2
    <2> QED
        BY <2>1, <2>2, <2>3
<1>19. CASE Activate
    <2>1. CASE op.old # None
        <3>1. op'.at = "record"
            BY <1>2, <1>19, <2>1 DEF Activate, Go, Operation
        <3> QED
            BY <1>4, <3>1 DEF Nudging, Relaunching
    <2>2. CASE op.old = None
        <3>1. PICK again : op' = Follows(op, rec'[op.cur], again)
            BY <1>19, <2>2 DEF Activate, Follows
        <3>2. op'.at = "head" /\ op'.cur = op.cur /\ op'.mem = rec'[op.cur]
            BY <1>2, <3>1 DEF Follows, Operation
        <3> QED
            BY <1>5, <3>2
    <2> QED
        BY <2>1, <2>2
<1>20. CASE Replaced
    <2>1. /\ op.cur \in Sessions /\ op.old \in Sessions /\ op.cur # op.old
        BY <1>1, <1>20, NoneIsNoSession DEF IInv, Replaced, At, PlaceOK, LivingOK,
           DyingOK, Over
    <2>2. op'.at = "head" /\ op'.cur = op.cur /\ op'.mem = rec[op.cur]
        BY <1>2, <1>20 DEF Replaced, Operation
    <2>3. rec'[op.cur] = rec[op.cur]
        BY <1>1, <1>20, <2>1 DEF Replaced, SSTypeOK
    <2> QED
        BY <1>5, <2>2, <2>3
<1>21. CASE HeadReady
    <2>1. /\ op'.at = "send" /\ op'.kind = op.kind /\ op'.cur = op.cur
          /\ op'.mem = op.mem /\ op.at = "head" /\ rec' = rec
        BY <1>2, <1>21 DEF HeadReady, At, Go, Operation
    <2>2. op.kind # "reuse" => op.mem.state = rec[op.cur].state
        BY <1>1, <2>1 DEF LivingOK
    <2>3. rec[op.cur].state = "alive" => rec[op.cur].nudges < Cap
        BY <1>1, <1>2, <1>21, <2>1, CapAssumption
        DEF HeadReady, Blocked, Labelled, PlaceOK, Record
    <2> QED
        BY <2>1, <2>2, <2>3 DEF RememberedOK, Nudging, Relaunching
<1>22. CASE SendGone
    <2>1. /\ (op'.at = "relaunch" /\ op'.next = "send") \/ op'.at = "mark"
          /\ op'.kind = op.kind /\ op'.cur = op.cur /\ op'.mem = op.mem
        BY <1>2, <1>22, GoneFits DEF SendGone
    <2>2. op.at = "send" /\ op.mem.state = "alive" /\ rec' = rec
        BY <1>22 DEF SendGone, MaySend, At, Welcomes
    <2> QED
        BY <2>1, <2>2 DEF RememberedOK, Nudging, Relaunching
<1>23. CASE Dispatch \/ StartReset
    <2>1. \/ \E kind \in Kinds : op' = Sweeps(Does(kind, "sweep", None))
          \/ \E s \in Sessions : op' = Does("reset", "pending", s)
        BY <1>23 DEF Dispatch, StartReset, Begin, Kinds
    <2>2. op'.at \in {"sweep", "pending"}
        BY <2>1, SweepBegins, DoesFits DEF Kinds, Places
    <2> QED
        BY <1>4, <2>2 DEF Nudging, Relaunching
<1>24. CASE Refresh
    <2>1. CASE op' = NothingSent(parked)
        <3>1. parked \in Operation
            BY <1>1, <1>24 DEF Refresh, SSTypeOK
        <3>2. op'.at = "idle" \/ op'.kind = "reuse"
            BY <2>1, <3>1, NothingSentFits, NoOpFits
        <3> QED
            BY <1>6, <1>7, <3>2
    <2>2. CASE op' = [parked EXCEPT !.mem = rec[parked.cur]]
        <3>1. op'.at = "head" /\ op'.cur = parked.cur /\ op'.mem = rec[parked.cur]
            BY <1>1, <1>24, <2>2 DEF Refresh, SSTypeOK, ParkedOK, Operation
        <3>2. rec' = rec
            BY <1>24 DEF Refresh
        <3> QED
            BY <1>5, <3>1, <3>2
    <2> QED
        BY <1>24, <2>1, <2>2 DEF Refresh
<1>25. CASE \E s \in Sessions : Complete(s) \/ StopSession(s) \/ LookAt(s)
    <2>1. \E kind \in Kinds, place \in {"die", "dieFree", "stop", "sync"}, s \in Sessions :
             op' = Does(kind, place, s)
        BY <1>25 DEF Complete, StopSession, LookAt, Begin, Kinds
    <2>2. op'.at \in {"die", "dieFree", "stop", "sync"}
        BY <2>1, DoesFits DEF Places
    <2> QED
        BY <1>4, <2>2 DEF Nudging, Relaunching
<1>26. CASE \E s \in Sessions : NudgeNext(s) \/ NudgeSession(s)
    <2>1. PICK s \in Sessions : NudgeNext(s) \/ NudgeSession(s)
        BY <1>26
    <2>2. /\ rec' = rec
          /\ \/ op' = [Does("next", "head", s) EXCEPT !.mem = rec[s]]
             \/ op' = [Does("manual", "send", s) EXCEPT !.mem = rec[s]]
        BY <2>1 DEF NudgeNext, NudgeSession, Begin
    <2>3. ASSUME NEW o \in Operation, op' = [o EXCEPT !.mem = rec[s]]
          PROVE  op'.at = o.at /\ op'.cur = o.cur /\ op'.kind = o.kind /\ op'.mem = rec[s]
        BY <2>3 DEF Operation
    <2>4. \A kind \in {"next", "manual"}, place \in {"head", "send"} :
             /\ Does(kind, place, s) \in Operation
             /\ Does(kind, place, s).at = place /\ Does(kind, place, s).cur = s
             /\ Does(kind, place, s).kind = kind
        BY DoesFits DEF Kinds, Places
    <2>5. /\ op'.at = "head" \/ (op'.at = "send" /\ op'.kind = "manual")
          /\ op'.cur = s /\ op'.mem = rec[s]
        BY <2>2, <2>3, <2>4
    <2> QED
        BY <2>2, <2>5 DEF RememberedOK, Nudging, Relaunching
<1>27. CASE Restart \/ Repair
    <2>1. \/ op' = op
          \/ \E place \in {"sync", "clean", "mark"}, s \in Sessions :
               op' = Does("repair", place, s)
        BY <1>1, <1>27 DEF Restart, Repair, Repairs, SSTypeOK
    <2>2. CASE op' = op
        BY <1>3, <1>27, <2>2 DEF Restart, Repair
    <2>3. CASE \E place \in {"sync", "clean", "mark"}, s \in Sessions :
                 op' = Does("repair", place, s)
        <3>1. op'.at \in {"sync", "clean", "mark"}
            BY <2>3, DoesFits DEF Kinds, Places
        <3> QED
            BY <1>4, <3>1 DEF Nudging, Relaunching
    <2> QED
        BY <2>1, <2>2, <2>3
<1>28. CASE Arrive
    <2>1. op' = NoOp
        BY <1>28 DEF Arrive
    <2> QED
        BY <1>6, <2>1, NoOpFits
<1>29. CASE \/ TimePasses \/ DayPasses \/ OwnerTakes \/ UNCHANGED vars
            \/ \E s \in Sessions : AgentLogs(s) \/ PaneEnds(s) \/ Acknowledge(s)
    BY <1>3, <1>29 DEF TimePasses, DayPasses, OwnerTakes, AgentLogs, PaneEnds,
       Acknowledge, vars
<1> QED
    BY <1>8, <1>9, <1>10, <1>11, <1>12, <1>13, <1>14, <1>15, <1>16, <1>17, <1>18,
       <1>19,
       <1>20, <1>21, <1>22, <1>23, <1>24, <1>25, <1>26, <1>27, <1>28, <1>29
    DEF SSNext, Steps, Failures, Requests, World

\* A nudge types for a session that welcomes it, and an automatic one within the
\* cap, by the record it is about to overwrite, also after it had given sessionMu
\* up (sendSessionNudgeLocked, daemon.go:4466).
THEOREM PromptsAreWelcome == SSSpec => PromptsWelcome
<1>1. SSInit => RememberedOK
    BY NoOpFits DEF SSInit, RememberedOK, Nudging, Relaunching
<1>2. SSSpec => []RememberedOK
    BY <1>1, Inductive, StepRemembers, PTL DEF SSSpec
<1> DEFINE Welcome == Send /\ op.kind # "reuse" =>
                        /\ Welcomes(rec[op.cur])
                        /\ op.kind # "manual" => rec[op.cur].nudges < Cap
<1>3. IInv /\ RememberedOK => Welcome
    BY DEF IInv, LivingOK, RememberedOK, Nudging, Send, MaySend, At, Welcomes,
       Resetting
<1>4. IInv /\ RememberedOK /\ [SSNext]_vars => [Welcome]_vars
    BY <1>3
<1> QED
    BY <1>4, <1>2, Inductive, PTL DEF SSSpec, PromptsWelcome
=============================================================================
