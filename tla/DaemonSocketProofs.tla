------------------------- MODULE DaemonSocketProofs -------------------------
(* The socket path and the lock, for any processes, files and events.        *)
EXTENDS DaemonSocket, TLAPS

\* What a process holds at each place: its files are among those made.
SlotsOK ==
    /\ socket # None => socket <= made
    /\ \A file \in open : file <= made
    /\ \A p \in Daemons :
         /\ seen[p] # None => seen[p] <= made
         /\ mine[p] # None => mine[p] <= made
         /\ fresh[p] # None => fresh[p] <= made
         /\ phase[p] \in {"off", "bind"} \union Starting => mine[p] = None
         /\ phase[p] \in {"off", "bind", "bound"} \union Starting =>
              watchdog[p] = "off" /\ late[p] = "no" /\ fresh[p] = None
         /\ watchdog[p] # "off" => phase[p] = "serve" /\ late[p] = "no"
         /\ watchdog[p] \in {"idle", "binding"} \/ late[p] = "hung" => fresh[p] = None

\* No file is in two hands.
DistinctOK ==
    \A p, q \in Daemons :
        /\ mine[p] # None => mine[p] # fresh[q] /\ (p # q => mine[p] # mine[q])
        /\ fresh[p] # None /\ p # q => fresh[p] # fresh[q]

\* Who listens.
Listens(p) ==
    /\ mine[p] \in open <=> phase[p] \in {"bound", "serve"}
    /\ fresh[p] \in open <=> watchdog[p] = "bound" \/ late[p] = "bound"
OpenOK == \A p \in Daemons : Listens(p)

\* A file that is found stale stays so, and a lost one does not come back.
PathOK ==
    \A p \in Daemons :
        /\ phase[p] \in {"probe", "compare", "remove"} => seen[p] # None
        /\ phase[p] \in {"compare", "remove"} /\ socket = seen[p] => seen[p] \notin open
        /\ watchdog[p] \in {"bound", "orphan", "removing"} => socket # mine[p]

IInv ==
    /\ DSTypeOK
    /\ SlotsOK
    /\ DistinctOK
    /\ OpenOK
    /\ AnswersLocked
    /\ PathOK

LEMMA NoneIsNoFile == None \notin Files
BY FilesAssumption DEF Files

\* What two processes' hands have to do with each other.
Hands(p, q) ==
    /\ None \notin open
    /\ mine[q] # None => mine[q] # fresh[p] /\ (p # q => mine[q] # mine[p])
    /\ mine[p] # None => mine[p] # fresh[q]
    /\ fresh[q] # None /\ p # q => fresh[q] # fresh[p]
    /\ Listens(p) /\ Listens(q)
    /\ watchdog[p] # "off" => phase[p] = "serve" /\ late[p] = "no"
    /\ {p, q} \subseteq (DOMAIN phase) \intersect (DOMAIN mine) \intersect (DOMAIN fresh)
    /\ {p, q} \subseteq (DOMAIN watchdog) \intersect (DOMAIN late)

LEMMA HandsApart ==
    ASSUME IInv, NEW p \in Daemons, NEW q \in Daemons
    PROVE  Hands(p, q)
<1>1. None \notin open
    BY NoneIsNoFile DEF IInv, DSTypeOK
<1>2. /\ mine[q] # None => mine[q] # fresh[p] /\ (p # q => mine[q] # mine[p])
      /\ mine[p] # None => mine[p] # fresh[q]
      /\ fresh[q] # None /\ p # q => fresh[q] # fresh[p]
    BY DEF IInv, DistinctOK
<1>3. watchdog[p] # "off" => phase[p] = "serve" /\ late[p] = "no"
    BY DEF IInv, SlotsOK
<1> QED
    BY <1>1, <1>2, <1>3 DEF Hands, IInv, OpenOK, DSTypeOK

LEMMA StepInductive == IInv /\ [DSNext]_vars => IInv'
<1> SUFFICES ASSUME IInv, [DSNext]_vars PROVE IInv'
    OBVIOUS
<1> USE DaemonsAssumption, FilesAssumption
<1>1. ASSUME NEW p \in Daemons, Start(p) PROVE IInv'
    <2> USE <1>1 DEF IInv, Start, Goes, paths, counts,
           Starting, Running, Closing
    <2>1. DSTypeOK'
        BY DEF DSTypeOK
    <2>2. SlotsOK'
        BY DEF DSTypeOK, SlotsOK
    <2>3. DistinctOK'
        BY DEF DSTypeOK, SlotsOK, DistinctOK
    <2>4. OpenOK'
        BY DEF DSTypeOK, SlotsOK, DistinctOK, OpenOK, Listens
    <2>5. AnswersLocked'
        BY DEF DSTypeOK, SlotsOK, OpenOK, Listens, AnswersLocked
    <2>6. PathOK'
        BY DEF DSTypeOK, SlotsOK, OpenOK, Listens, PathOK
    <2> QED
        BY <2>1, <2>2, <2>3, <2>4, <2>5, <2>6
<1>2. ASSUME NEW p \in Daemons, Look(p) PROVE IInv'
    <2> USE <1>2 DEF IInv, Look, paths, counts,
           Starting, Running, Closing
    <2>1. DSTypeOK'
        BY DEF DSTypeOK
    <2>2. SlotsOK'
        BY DEF DSTypeOK, SlotsOK
    <2>3. DistinctOK'
        BY DEF DSTypeOK, SlotsOK, DistinctOK
    <2>4. OpenOK'
        BY DEF DSTypeOK, SlotsOK, DistinctOK, OpenOK, Listens
    <2>5. AnswersLocked'
        BY DEF DSTypeOK, SlotsOK, OpenOK, Listens, AnswersLocked
    <2>6. PathOK'
        BY DEF DSTypeOK, SlotsOK, OpenOK, Listens, PathOK
    <2> QED
        BY <2>1, <2>2, <2>3, <2>4, <2>5, <2>6
<1>3. ASSUME NEW p \in Daemons, ProbeStale(p) PROVE IInv'
    <2> USE <1>3 DEF IInv, ProbeStale, Goes, paths, counts,
           Starting, Running, Closing
    <2>1. DSTypeOK'
        BY DEF DSTypeOK
    <2>2. SlotsOK'
        BY DEF DSTypeOK, SlotsOK
    <2>3. DistinctOK'
        BY DEF DSTypeOK, SlotsOK, DistinctOK
    <2>4. OpenOK'
        BY DEF DSTypeOK, SlotsOK, DistinctOK, OpenOK, Listens
    <2>5. AnswersLocked'
        BY DEF DSTypeOK, SlotsOK, OpenOK, Listens, AnswersLocked
    <2>6. PathOK'
        BY DEF DSTypeOK, SlotsOK, OpenOK, Listens, PathOK
    <2> QED
        BY <2>1, <2>2, <2>3, <2>4, <2>5, <2>6
<1>4. ASSUME NEW p \in Daemons, ProbeLive(p) PROVE IInv'
    <2> USE <1>4 DEF IInv, ProbeLive, Ends, paths, counts,
           Starting, Running, Closing
    <2>1. DSTypeOK'
        BY DEF DSTypeOK
    <2>2. SlotsOK'
        BY DEF DSTypeOK, SlotsOK
    <2>3. DistinctOK'
        BY DEF DSTypeOK, SlotsOK, DistinctOK
    <2>4. OpenOK'
        BY DEF DSTypeOK, SlotsOK, DistinctOK, OpenOK, Listens
    <2>5. AnswersLocked'
        BY DEF DSTypeOK, SlotsOK, OpenOK, Listens, AnswersLocked
    <2>6. PathOK'
        BY DEF DSTypeOK, SlotsOK, OpenOK, Listens, PathOK
    <2> QED
        BY <2>1, <2>2, <2>3, <2>4, <2>5, <2>6
<1>5. ASSUME NEW p \in Daemons, SameFile(p) PROVE IInv'
    <2> USE <1>5 DEF IInv, SameFile, Goes, paths, counts,
           Starting, Running, Closing
    <2>1. DSTypeOK'
        BY DEF DSTypeOK
    <2>2. SlotsOK'
        BY DEF DSTypeOK, SlotsOK
    <2>3. DistinctOK'
        BY DEF DSTypeOK, SlotsOK, DistinctOK
    <2>4. OpenOK'
        BY DEF DSTypeOK, SlotsOK, DistinctOK, OpenOK, Listens
    <2>5. AnswersLocked'
        BY DEF DSTypeOK, SlotsOK, OpenOK, Listens, AnswersLocked
    <2>6. PathOK'
        BY DEF DSTypeOK, SlotsOK, OpenOK, Listens, PathOK
    <2> QED
        BY <2>1, <2>2, <2>3, <2>4, <2>5, <2>6
<1>6. ASSUME NEW p \in Daemons, OtherFile(p) PROVE IInv'
    <2> USE <1>6 DEF IInv, OtherFile, Ends, paths, counts,
           Starting, Running, Closing
    <2>1. DSTypeOK'
        BY DEF DSTypeOK
    <2>2. SlotsOK'
        BY DEF DSTypeOK, SlotsOK
    <2>3. DistinctOK'
        BY DEF DSTypeOK, SlotsOK, DistinctOK
    <2>4. OpenOK'
        BY DEF DSTypeOK, SlotsOK, DistinctOK, OpenOK, Listens
    <2>5. AnswersLocked'
        BY DEF DSTypeOK, SlotsOK, OpenOK, Listens, AnswersLocked
    <2>6. PathOK'
        BY DEF DSTypeOK, SlotsOK, OpenOK, Listens, PathOK
    <2> QED
        BY <2>1, <2>2, <2>3, <2>4, <2>5, <2>6
<1>7. ASSUME NEW p \in Daemons, RemoveStale(p) PROVE IInv'
    <2> USE <1>7 DEF IInv, RemoveStale, Goes, paths, counts,
           Starting, Running, Closing
    <2>1. DSTypeOK'
        BY DEF DSTypeOK
    <2>2. SlotsOK'
        BY DEF DSTypeOK, SlotsOK
    <2>3. DistinctOK'
        BY DEF DSTypeOK, SlotsOK, DistinctOK
    <2>4. OpenOK'
        BY DEF DSTypeOK, SlotsOK, DistinctOK, OpenOK, Listens
    <2>5. AnswersLocked'
        BY DEF DSTypeOK, SlotsOK, OpenOK, Listens, AnswersLocked
    <2>6. PathOK'
        BY DEF DSTypeOK, SlotsOK, OpenOK, Listens, PathOK
    <2> QED
        BY <2>1, <2>2, <2>3, <2>4, <2>5, <2>6
<1>8. ASSUME NEW p \in Daemons, Lock(p) PROVE IInv'
    <2> USE <1>8 DEF IInv, Lock, Goes, paths, counts,
           Starting, Running, Closing
    <2>1. DSTypeOK'
        BY DEF DSTypeOK
    <2>2. SlotsOK'
        BY DEF DSTypeOK, SlotsOK
    <2>3. DistinctOK'
        BY DEF DSTypeOK, SlotsOK, DistinctOK
    <2>4. OpenOK'
        BY DEF DSTypeOK, SlotsOK, DistinctOK, OpenOK, Listens
    <2>5. AnswersLocked'
        BY DEF DSTypeOK, SlotsOK, OpenOK, Listens, AnswersLocked
    <2>6. PathOK'
        BY DEF DSTypeOK, SlotsOK, OpenOK, Listens, PathOK
    <2> QED
        BY <2>1, <2>2, <2>3, <2>4, <2>5, <2>6
<1>9. ASSUME NEW p \in Daemons, LockTaken(p) PROVE IInv'
    <2> USE <1>9 DEF IInv, LockTaken, Ends, paths, counts,
           Starting, Running, Closing
    <2>1. DSTypeOK'
        BY DEF DSTypeOK
    <2>2. SlotsOK'
        BY DEF DSTypeOK, SlotsOK
    <2>3. DistinctOK'
        BY DEF DSTypeOK, SlotsOK, DistinctOK
    <2>4. OpenOK'
        BY DEF DSTypeOK, SlotsOK, DistinctOK, OpenOK, Listens
    <2>5. AnswersLocked'
        BY DEF DSTypeOK, SlotsOK, OpenOK, Listens, AnswersLocked
    <2>6. PathOK'
        BY DEF DSTypeOK, SlotsOK, OpenOK, Listens, PathOK
    <2> QED
        BY <2>1, <2>2, <2>3, <2>4, <2>5, <2>6
<1>10. ASSUME NEW p \in Daemons, Bind(p) PROVE IInv'
    <2> USE <1>10 DEF IInv, Bind, Makes, paths, counts,
           Starting, Running, Closing, Files
    <2>1. DSTypeOK'
        BY DEF DSTypeOK
    <2>2. SlotsOK'
        BY DEF DSTypeOK, SlotsOK
    <2>3. DistinctOK'
        BY DEF DSTypeOK, SlotsOK, DistinctOK
    <2>4. OpenOK'
        BY DEF DSTypeOK, SlotsOK, DistinctOK, OpenOK, Listens
    <2>5. AnswersLocked'
        <3>1. PICK file \in Files :
                 open' = open \union {file} /\ mine' = [mine EXCEPT ![p] = file]
            OBVIOUS
        <3> SUFFICES ASSUME NEW f \in open'
                     PROVE  \/ \E q \in Daemons : late'[q] = "bound" /\ fresh'[q] = f
                            \/ lock' # None /\ f \in {mine'[lock'], fresh'[lock']}
            BY DEF AnswersLocked
        <3>2. CASE f = file
            BY <3>1, <3>2 DEF DSTypeOK, SlotsOK
        <3>3. CASE f \in open
            <4>1. CASE \E q \in Daemons : late[q] = "bound" /\ fresh[q] = f
                BY <3>1, <4>1 DEF DSTypeOK, SlotsOK
            <4>2. CASE lock # None /\ f \in {mine[lock], fresh[lock]}
                BY <3>1, <3>3, <4>2 DEF DSTypeOK, SlotsOK
            <4> QED
                BY <3>3, <4>1, <4>2 DEF AnswersLocked
        <3> QED
            BY <3>1, <3>2, <3>3
    <2>6. PathOK'
        BY DEF DSTypeOK, SlotsOK, OpenOK, Listens, PathOK
    <2> QED
        BY <2>1, <2>2, <2>3, <2>4, <2>5, <2>6
<1>11. ASSUME NEW p \in Daemons, BindFails(p) PROVE IInv'
    <2> USE <1>11 DEF IInv, BindFails, Ends, Event, Strays, paths, counts,
           Starting, Running, Closing, Files
    <2>1. DSTypeOK'
        <3>1. /\ socket' \in Files \union {None}
              /\ made' \in 0 .. MaxFiles
              /\ events' \in 0 .. MaxEvents
            BY DEF DSTypeOK
        <3>2. Ends(p)
            OBVIOUS
        <3> HIDE <1>11
        <3> QED
            BY <3>1, <3>2 DEF DSTypeOK
    <2>2. SlotsOK'
        BY DEF DSTypeOK, SlotsOK
    <2>3. DistinctOK'
        BY DEF DSTypeOK, SlotsOK, DistinctOK
    <2>4. OpenOK'
        BY DEF DSTypeOK, SlotsOK, DistinctOK, OpenOK, Listens
    <2>5. AnswersLocked'
        BY DEF DSTypeOK, SlotsOK, OpenOK, Listens, AnswersLocked
    <2>6. PathOK'
        BY DEF DSTypeOK, SlotsOK, OpenOK, Listens, PathOK
    <2> QED
        BY <2>1, <2>2, <2>3, <2>4, <2>5, <2>6
<1>12. ASSUME NEW p \in Daemons, Serve(p) PROVE IInv'
    <2> USE <1>12 DEF IInv, Serve, paths, counts,
           Starting, Running, Closing
    <2>1. DSTypeOK'
        BY DEF DSTypeOK
    <2>2. SlotsOK'
        BY DEF DSTypeOK, SlotsOK
    <2>3. DistinctOK'
        BY DEF DSTypeOK, SlotsOK, DistinctOK
    <2>4. OpenOK'
        BY DEF DSTypeOK, SlotsOK, DistinctOK, OpenOK, Listens
    <2>5. AnswersLocked'
        BY DEF DSTypeOK, SlotsOK, OpenOK, Listens, AnswersLocked
    <2>6. PathOK'
        BY DEF DSTypeOK, SlotsOK, OpenOK, Listens, PathOK
    <2> QED
        BY <2>1, <2>2, <2>3, <2>4, <2>5, <2>6
<1>13. ASSUME NEW p \in Daemons, StartFails(p) PROVE IInv'
    <2> USE <1>13 DEF IInv, StartFails, Event, paths, counts,
           Starting, Running, Closing
    <2>1. DSTypeOK'
        BY DEF DSTypeOK
    <2>2. SlotsOK'
        BY DEF DSTypeOK, SlotsOK
    <2>3. DistinctOK'
        BY DEF DSTypeOK, SlotsOK, DistinctOK
    <2>4. OpenOK'
        BY DEF DSTypeOK, SlotsOK, DistinctOK, OpenOK, Listens
    <2>5. AnswersLocked'
        BY DEF DSTypeOK, SlotsOK, OpenOK, Listens, AnswersLocked
    <2>6. PathOK'
        BY DEF DSTypeOK, SlotsOK, OpenOK, Listens, PathOK
    <2> QED
        BY <2>1, <2>2, <2>3, <2>4, <2>5, <2>6
<1>14. ASSUME NEW p \in Daemons, WatchdogStops(p) PROVE IInv'
    <2> USE <1>14 DEF IInv, WatchdogStops, Watches, paths, counts,
           Starting, Running, Closing
    <2>1. DSTypeOK'
        BY DEF DSTypeOK
    <2>2. SlotsOK'
        BY DEF DSTypeOK, SlotsOK
    <2>3. DistinctOK'
        BY DEF DSTypeOK, SlotsOK, DistinctOK
    <2>4. OpenOK'
        BY DEF DSTypeOK, SlotsOK, DistinctOK, OpenOK, Listens
    <2>5. AnswersLocked'
        BY DEF DSTypeOK, SlotsOK, OpenOK, Listens, AnswersLocked
    <2>6. PathOK'
        BY DEF DSTypeOK, SlotsOK, OpenOK, Listens, PathOK
    <2> QED
        BY <2>1, <2>2, <2>3, <2>4, <2>5, <2>6
<1>15. ASSUME NEW p \in Daemons, NoticeLoss(p) PROVE IInv'
    <2> USE <1>15 DEF IInv, NoticeLoss, Watches, paths, counts,
           Starting, Running, Closing
    <2>1. DSTypeOK'
        BY DEF DSTypeOK
    <2>2. SlotsOK'
        BY DEF DSTypeOK, SlotsOK
    <2>3. DistinctOK'
        BY DEF DSTypeOK, SlotsOK, DistinctOK
    <2>4. OpenOK'
        BY DEF DSTypeOK, SlotsOK, DistinctOK, OpenOK, Listens
    <2>5. AnswersLocked'
        BY DEF DSTypeOK, SlotsOK, OpenOK, Listens, AnswersLocked
    <2>6. PathOK'
        BY DEF DSTypeOK, SlotsOK, OpenOK, Listens, PathOK
    <2> QED
        BY <2>1, <2>2, <2>3, <2>4, <2>5, <2>6
<1>16. ASSUME NEW p \in Daemons, Rebind(p) PROVE IInv'
    <2> USE <1>16 DEF IInv, Rebind, Makes, Watches, paths, counts,
           Starting, Running, Closing, Files
    <2>1. DSTypeOK'
        BY DEF DSTypeOK
    <2>2. SlotsOK'
        BY DEF DSTypeOK, SlotsOK
    <2>3. DistinctOK'
        BY DEF DSTypeOK, SlotsOK, DistinctOK
    <2>4. OpenOK'
        BY DEF DSTypeOK, SlotsOK, DistinctOK, OpenOK, Listens
    <2>5. AnswersLocked'
        <3>1. PICK file \in Files :
                 open' = open \union {file} /\ fresh' = [fresh EXCEPT ![p] = file]
            OBVIOUS
        <3> SUFFICES ASSUME NEW f \in open'
                     PROVE  \/ \E q \in Daemons : late'[q] = "bound" /\ fresh'[q] = f
                            \/ lock' # None /\ f \in {mine'[lock'], fresh'[lock']}
            BY DEF AnswersLocked
        <3>2. CASE f = file
            BY <3>1, <3>2 DEF DSTypeOK, SlotsOK
        <3>3. CASE f \in open
            <4>1. CASE \E q \in Daemons : late[q] = "bound" /\ fresh[q] = f
                BY <3>1, <4>1 DEF DSTypeOK, SlotsOK
            <4>2. CASE lock # None /\ f \in {mine[lock], fresh[lock]}
                BY <3>1, <3>3, <4>2 DEF DSTypeOK, SlotsOK
            <4> QED
                BY <3>3, <4>1, <4>2 DEF AnswersLocked
        <3> QED
            BY <3>1, <3>2, <3>3
    <2>6. PathOK'
        BY DEF DSTypeOK, SlotsOK, OpenOK, Listens, PathOK
    <2> QED
        BY <2>1, <2>2, <2>3, <2>4, <2>5, <2>6
<1>17. ASSUME NEW p \in Daemons, RebindFails(p) PROVE IInv'
    <2> USE <1>17 DEF IInv, RebindFails, Strays, Event, Watches, paths, counts,
           Starting, Running, Closing, Files
    <2>1. DSTypeOK'
        BY DEF DSTypeOK
    <2>2. SlotsOK'
        BY DEF DSTypeOK, SlotsOK
    <2>3. DistinctOK'
        BY DEF DSTypeOK, SlotsOK, DistinctOK
    <2>4. OpenOK'
        BY DEF DSTypeOK, SlotsOK, DistinctOK, OpenOK, Listens
    <2>5. AnswersLocked'
        BY DEF DSTypeOK, SlotsOK, OpenOK, Listens, AnswersLocked
    <2>6. PathOK'
        BY DEF DSTypeOK, SlotsOK, OpenOK, Listens, PathOK
    <2> QED
        BY <2>1, <2>2, <2>3, <2>4, <2>5, <2>6
<1>18. ASSUME NEW p \in Daemons, RebindTimesOut(p) PROVE IInv'
    <2> USE <1>18 DEF IInv, RebindTimesOut, paths, counts,
           Starting, Running, Closing
    <2>1. DSTypeOK'
        BY DEF DSTypeOK
    <2>2. SlotsOK'
        BY DEF DSTypeOK, SlotsOK
    <2>3. DistinctOK'
        BY DEF DSTypeOK, SlotsOK, DistinctOK
    <2>4. OpenOK'
        BY DEF DSTypeOK, SlotsOK, DistinctOK, OpenOK, Listens
    <2>5. AnswersLocked'
        BY DEF DSTypeOK, SlotsOK, OpenOK, Listens, AnswersLocked
    <2>6. PathOK'
        BY DEF DSTypeOK, SlotsOK, OpenOK, Listens, PathOK
    <2> QED
        BY <2>1, <2>2, <2>3, <2>4, <2>5, <2>6
<1>19. ASSUME NEW p \in Daemons, LateBind(p) PROVE IInv'
    <2> USE <1>19 DEF IInv, LateBind, Makes, paths, counts,
           Starting, Running, Closing, Files
    <2>1. DSTypeOK'
        BY DEF DSTypeOK
    <2>2. SlotsOK'
        BY DEF DSTypeOK, SlotsOK
    <2>3. DistinctOK'
        BY DEF DSTypeOK, SlotsOK, DistinctOK
    <2>4. OpenOK'
        BY DEF DSTypeOK, SlotsOK, DistinctOK, OpenOK, Listens
    <2>5. AnswersLocked'
        <3>1. PICK file \in Files :
                 open' = open \union {file} /\ fresh' = [fresh EXCEPT ![p] = file]
            OBVIOUS
        <3> SUFFICES ASSUME NEW f \in open'
                     PROVE  \/ \E q \in Daemons : late'[q] = "bound" /\ fresh'[q] = f
                            \/ lock' # None /\ f \in {mine'[lock'], fresh'[lock']}
            BY DEF AnswersLocked
        <3>2. CASE f = file
            BY <3>1, <3>2 DEF DSTypeOK, SlotsOK
        <3>3. CASE f \in open
            <4>1. CASE \E q \in Daemons : late[q] = "bound" /\ fresh[q] = f
                BY <3>1, <4>1 DEF DSTypeOK, SlotsOK
            <4>2. CASE lock # None /\ f \in {mine[lock], fresh[lock]}
                BY <3>1, <3>3, <4>2 DEF DSTypeOK, SlotsOK
            <4> QED
                BY <3>3, <4>1, <4>2 DEF AnswersLocked
        <3> QED
            BY <3>1, <3>2, <3>3
    <2>6. PathOK'
        BY DEF DSTypeOK, SlotsOK, OpenOK, Listens, PathOK
    <2> QED
        BY <2>1, <2>2, <2>3, <2>4, <2>5, <2>6
<1>20. ASSUME NEW p \in Daemons, LateFails(p) PROVE IInv'
    <2> USE <1>20 DEF IInv, LateFails, paths, counts,
           Starting, Running, Closing
    <2>1. DSTypeOK'
        BY DEF DSTypeOK
    <2>2. SlotsOK'
        BY DEF DSTypeOK, SlotsOK
    <2>3. DistinctOK'
        BY DEF DSTypeOK, SlotsOK, DistinctOK
    <2>4. OpenOK'
        BY DEF DSTypeOK, SlotsOK, DistinctOK, OpenOK, Listens
    <2>5. AnswersLocked'
        BY DEF DSTypeOK, SlotsOK, OpenOK, Listens, AnswersLocked
    <2>6. PathOK'
        BY DEF DSTypeOK, SlotsOK, OpenOK, Listens, PathOK
    <2> QED
        BY <2>1, <2>2, <2>3, <2>4, <2>5, <2>6
<1>21. ASSUME NEW p \in Daemons, LateClose(p) PROVE IInv'
    <2> USE <1>21 DEF IInv, LateClose, paths, counts,
           Starting, Running, Closing
    <2>1. DSTypeOK'
        BY DEF DSTypeOK
    <2>2. SlotsOK'
        BY DEF DSTypeOK, SlotsOK
    <2>3. DistinctOK'
        BY DEF DSTypeOK, SlotsOK, DistinctOK
    <2>4. OpenOK'
        <3> SUFFICES ASSUME NEW q \in Daemons PROVE Listens(q)'
            BY DEF OpenOK
        <3>1. Hands(p, q)
            BY HandsApart
        <3> HIDE DEF IInv
        <3>2. CASE q = p
            BY <3>1, <3>2 DEF Hands, Listens
        <3>3. CASE q # p
            BY <3>1, <3>3 DEF Hands, Listens
        <3> QED
            BY <3>2, <3>3
    <2>5. AnswersLocked'
        BY DEF DSTypeOK, SlotsOK, OpenOK, Listens, AnswersLocked
    <2>6. PathOK'
        BY DEF DSTypeOK, SlotsOK, OpenOK, Listens, PathOK
    <2> QED
        BY <2>1, <2>2, <2>3, <2>4, <2>5, <2>6
<1>22. ASSUME NEW p \in Daemons, Install(p) PROVE IInv'
    <2> USE <1>22 DEF IInv, Install, Watches, paths, counts,
           Starting, Running, Closing
    <2>1. DSTypeOK'
        BY DEF DSTypeOK
    <2>2. SlotsOK'
        BY DEF DSTypeOK, SlotsOK
    <2>3. DistinctOK'
        BY DEF DSTypeOK, SlotsOK, DistinctOK
    <2>4. OpenOK'
        <3> SUFFICES ASSUME NEW q \in Daemons PROVE Listens(q)'
            BY DEF OpenOK
        <3>1. Hands(p, q)
            BY HandsApart
        <3> HIDE DEF IInv
        <3>2. CASE q = p
            BY <3>1, <3>2 DEF Hands, Listens
        <3>3. CASE q # p
            BY <3>1, <3>3 DEF Hands, Listens
        <3> QED
            BY <3>2, <3>3
    <2>5. AnswersLocked'
        BY DEF DSTypeOK, SlotsOK, OpenOK, Listens, AnswersLocked
    <2>6. PathOK'
        BY DEF DSTypeOK, SlotsOK, OpenOK, Listens, PathOK
    <2> QED
        BY <2>1, <2>2, <2>3, <2>4, <2>5, <2>6
<1>23. ASSUME NEW p \in Daemons, Discard(p) PROVE IInv'
    <2> USE <1>23 DEF IInv, Discard, Watches, paths, counts,
           Starting, Running, Closing
    <2>1. DSTypeOK'
        BY DEF DSTypeOK
    <2>2. SlotsOK'
        BY DEF DSTypeOK, SlotsOK
    <2>3. DistinctOK'
        BY DEF DSTypeOK, SlotsOK, DistinctOK
    <2>4. OpenOK'
        <3> SUFFICES ASSUME NEW q \in Daemons PROVE Listens(q)'
            BY DEF OpenOK
        <3>1. Hands(p, q)
            BY HandsApart
        <3> HIDE DEF IInv
        <3>2. CASE q = p
            BY <3>1, <3>2 DEF Hands, Listens
        <3>3. CASE q # p
            BY <3>1, <3>3 DEF Hands, Listens
        <3> QED
            BY <3>2, <3>3
    <2>5. AnswersLocked'
        BY DEF DSTypeOK, SlotsOK, OpenOK, Listens, AnswersLocked
    <2>6. PathOK'
        BY DEF DSTypeOK, SlotsOK, OpenOK, Listens, PathOK
    <2> QED
        BY <2>1, <2>2, <2>3, <2>4, <2>5, <2>6
<1>24. ASSUME NEW p \in Daemons, DiscardLooks(p) PROVE IInv'
    <2> USE <1>24 DEF IInv, DiscardLooks, Watches, paths, counts,
           Starting, Running, Closing
    <2>1. DSTypeOK'
        BY DEF DSTypeOK
    <2>2. SlotsOK'
        BY DEF DSTypeOK, SlotsOK
    <2>3. DistinctOK'
        BY DEF DSTypeOK, SlotsOK, DistinctOK
    <2>4. OpenOK'
        BY DEF DSTypeOK, SlotsOK, DistinctOK, OpenOK, Listens
    <2>5. AnswersLocked'
        BY DEF DSTypeOK, SlotsOK, OpenOK, Listens, AnswersLocked
    <2>6. PathOK'
        BY DEF DSTypeOK, SlotsOK, OpenOK, Listens, PathOK
    <2> QED
        BY <2>1, <2>2, <2>3, <2>4, <2>5, <2>6
<1>25. ASSUME NEW p \in Daemons, DiscardRemoves(p) PROVE IInv'
    <2> USE <1>25 DEF IInv, DiscardRemoves, Watches, paths, counts,
           Starting, Running, Closing
    <2>1. DSTypeOK'
        BY DEF DSTypeOK
    <2>2. SlotsOK'
        BY DEF DSTypeOK, SlotsOK
    <2>3. DistinctOK'
        BY DEF DSTypeOK, SlotsOK, DistinctOK
    <2>4. OpenOK'
        <3> SUFFICES ASSUME NEW q \in Daemons PROVE Listens(q)'
            BY DEF OpenOK
        <3>1. Hands(p, q)
            BY HandsApart
        <3> HIDE DEF IInv
        <3>2. CASE q = p
            BY <3>1, <3>2 DEF Hands, Listens
        <3>3. CASE q # p
            BY <3>1, <3>3 DEF Hands, Listens
        <3> QED
            BY <3>2, <3>3
    <2>5. AnswersLocked'
        BY DEF DSTypeOK, SlotsOK, OpenOK, Listens, AnswersLocked
    <2>6. PathOK'
        BY DEF DSTypeOK, SlotsOK, OpenOK, Listens, PathOK
    <2> QED
        BY <2>1, <2>2, <2>3, <2>4, <2>5, <2>6
<1>26. ASSUME NEW p \in Daemons, CloseListener(p) PROVE IInv'
    <2> USE <1>26 DEF IInv, CloseListener, Goes, paths, counts,
           Starting, Running, Closing
    <2>1. DSTypeOK'
        BY DEF DSTypeOK
    <2>2. SlotsOK'
        BY DEF DSTypeOK, SlotsOK
    <2>3. DistinctOK'
        BY DEF DSTypeOK, SlotsOK, DistinctOK
    <2>4. OpenOK'
        <3> SUFFICES ASSUME NEW q \in Daemons PROVE Listens(q)'
            BY DEF OpenOK
        <3>1. Hands(p, q)
            BY HandsApart
        <3> HIDE DEF IInv
        <3>2. CASE q = p
            BY <3>1, <3>2 DEF Hands, Listens
        <3>3. CASE q # p
            BY <3>1, <3>3 DEF Hands, Listens
        <3> QED
            BY <3>2, <3>3
    <2>5. AnswersLocked'
        BY DEF DSTypeOK, SlotsOK, OpenOK, Listens, AnswersLocked
    <2>6. PathOK'
        BY DEF DSTypeOK, SlotsOK, OpenOK, Listens, PathOK
    <2> QED
        BY <2>1, <2>2, <2>3, <2>4, <2>5, <2>6
<1>27. ASSUME NEW p \in Daemons, LookAtOwn(p) PROVE IInv'
    <2> USE <1>27 DEF IInv, LookAtOwn, Goes, paths, counts,
           Starting, Running, Closing
    <2>1. DSTypeOK'
        BY DEF DSTypeOK
    <2>2. SlotsOK'
        BY DEF DSTypeOK, SlotsOK
    <2>3. DistinctOK'
        BY DEF DSTypeOK, SlotsOK, DistinctOK
    <2>4. OpenOK'
        BY DEF DSTypeOK, SlotsOK, DistinctOK, OpenOK, Listens
    <2>5. AnswersLocked'
        BY DEF DSTypeOK, SlotsOK, OpenOK, Listens, AnswersLocked
    <2>6. PathOK'
        BY DEF DSTypeOK, SlotsOK, OpenOK, Listens, PathOK
    <2> QED
        BY <2>1, <2>2, <2>3, <2>4, <2>5, <2>6
<1>28. ASSUME NEW p \in Daemons, Unlock(p) PROVE IInv'
    <2> USE <1>28 DEF IInv, Unlock, Goes, paths, counts,
           Starting, Running, Closing
    <2>1. DSTypeOK'
        BY DEF DSTypeOK
    <2>2. SlotsOK'
        BY DEF DSTypeOK, SlotsOK
    <2>3. DistinctOK'
        BY DEF DSTypeOK, SlotsOK, DistinctOK
    <2>4. OpenOK'
        BY DEF DSTypeOK, SlotsOK, DistinctOK, OpenOK, Listens
    <2>5. AnswersLocked'
        BY DEF DSTypeOK, SlotsOK, OpenOK, Listens, AnswersLocked
    <2>6. PathOK'
        BY DEF DSTypeOK, SlotsOK, OpenOK, Listens, PathOK
    <2> QED
        BY <2>1, <2>2, <2>3, <2>4, <2>5, <2>6
<1>29. ASSUME NEW p \in Daemons, Exit(p) PROVE IInv'
    <2> USE <1>29 DEF IInv, Exit, Ends, paths, counts,
           Starting, Running, Closing
    <2>1. DSTypeOK'
        BY DEF DSTypeOK
    <2>2. SlotsOK'
        BY DEF DSTypeOK, SlotsOK
    <2>3. DistinctOK'
        BY DEF DSTypeOK, SlotsOK, DistinctOK
    <2>4. OpenOK'
        <3> SUFFICES ASSUME NEW q \in Daemons PROVE Listens(q)'
            BY DEF OpenOK
        <3>1. Hands(p, q)
            BY HandsApart
        <3> HIDE DEF IInv
        <3>2. CASE q = p
            BY <3>1, <3>2 DEF Hands, Listens
        <3>3. CASE q # p
            BY <3>1, <3>3 DEF Hands, Listens
        <3> QED
            BY <3>2, <3>3
    <2>5. AnswersLocked'
        BY DEF DSTypeOK, SlotsOK, OpenOK, Listens, AnswersLocked
    <2>6. PathOK'
        BY DEF DSTypeOK, SlotsOK, OpenOK, Listens, PathOK
    <2> QED
        BY <2>1, <2>2, <2>3, <2>4, <2>5, <2>6
<1>30. ASSUME NEW p \in Daemons, Signal(p) PROVE IInv'
    <2> USE <1>30 DEF IInv, Signal, Event, paths, counts,
           Starting, Running, Closing
    <2>1. DSTypeOK'
        BY DEF DSTypeOK
    <2>2. SlotsOK'
        BY DEF DSTypeOK, SlotsOK
    <2>3. DistinctOK'
        BY DEF DSTypeOK, SlotsOK, DistinctOK
    <2>4. OpenOK'
        BY DEF DSTypeOK, SlotsOK, DistinctOK, OpenOK, Listens
    <2>5. AnswersLocked'
        BY DEF DSTypeOK, SlotsOK, OpenOK, Listens, AnswersLocked
    <2>6. PathOK'
        BY DEF DSTypeOK, SlotsOK, OpenOK, Listens, PathOK
    <2> QED
        BY <2>1, <2>2, <2>3, <2>4, <2>5, <2>6
<1>31. ASSUME NEW p \in Daemons, Kill(p) PROVE IInv'
    <2> USE <1>31 DEF IInv, Kill, Ends, Event, paths, counts,
           Starting, Running, Closing
    <2>1. DSTypeOK'
        BY DEF DSTypeOK
    <2>2. SlotsOK'
        BY DEF DSTypeOK, SlotsOK
    <2>3. DistinctOK'
        BY DEF DSTypeOK, SlotsOK, DistinctOK
    <2>4. OpenOK'
        <3> SUFFICES ASSUME NEW q \in Daemons PROVE Listens(q)'
            BY DEF OpenOK
        <3>1. Hands(p, q)
            BY HandsApart
        <3> HIDE DEF IInv
        <3>2. CASE q = p
            BY <3>1, <3>2 DEF Hands, Listens
        <3>3. CASE q # p
            BY <3>1, <3>3 DEF Hands, Listens
        <3> QED
            BY <3>2, <3>3
    <2>5. AnswersLocked'
        BY DEF DSTypeOK, SlotsOK, OpenOK, Listens, AnswersLocked
    <2>6. PathOK'
        BY DEF DSTypeOK, SlotsOK, OpenOK, Listens, PathOK
    <2> QED
        BY <2>1, <2>2, <2>3, <2>4, <2>5, <2>6
<1>32. ASSUME LoseSocket PROVE IInv'
    <2> USE <1>32 DEF IInv, LoseSocket, process
    <2>1. DSTypeOK' /\ SlotsOK'
        BY DEF DSTypeOK, SlotsOK, Event
    <2>2. DistinctOK' /\ OpenOK' /\ AnswersLocked'
        BY DEF DistinctOK, OpenOK, Listens, AnswersLocked
    <2>3. PathOK'
        BY NoneIsNoFile DEF PathOK, SlotsOK, OpenOK, Listens, DSTypeOK
    <2> QED
        BY <2>1, <2>2, <2>3
<1>33. ASSUME NEW p \in Daemons, LateStrays(p) PROVE IInv'
    <2> USE <1>33 DEF IInv, LateStrays, Strays, Event, paths, counts,
           Starting, Running, Closing, Files
    <2>1. DSTypeOK'
        BY DEF DSTypeOK
    <2>2. SlotsOK'
        BY DEF DSTypeOK, SlotsOK
    <2>3. DistinctOK'
        BY DEF DSTypeOK, SlotsOK, DistinctOK
    <2>4. OpenOK'
        BY DEF DSTypeOK, SlotsOK, DistinctOK, OpenOK, Listens
    <2>5. AnswersLocked'
        BY DEF DSTypeOK, SlotsOK, OpenOK, Listens, AnswersLocked
    <2>6. PathOK'
        BY DEF DSTypeOK, SlotsOK, OpenOK, Listens, PathOK
    <2> QED
        BY <2>1, <2>2, <2>3, <2>4, <2>5, <2>6
<1>34. CASE UNCHANGED vars
    BY <1>34 DEF vars, paths, process, counts, IInv, DSTypeOK, SlotsOK, DistinctOK, OpenOK,
       Listens, AnswersLocked, PathOK
<1> QED
    BY <1>1, <1>2, <1>3, <1>4, <1>5, <1>6, <1>7, <1>8, <1>9, <1>10, <1>11,
       <1>12, <1>13, <1>14, <1>15, <1>16, <1>17, <1>18, <1>19, <1>20, <1>21, <1>22,
       <1>23, <1>24, <1>25, <1>26, <1>27, <1>28, <1>29, <1>30, <1>31, <1>32, <1>33,
       <1>34
    DEF DSNext, Starts, Guards, Binds, Lates, Closes

LEMMA InitInductive == DSInit => IInv
<1> SUFFICES ASSUME DSInit PROVE IInv
    OBVIOUS
<1> USE DaemonsAssumption, FilesAssumption
<1>1. DSTypeOK
    BY DEF DSInit, DSTypeOK, Running, Closing
<1> QED
    BY <1>1 DEF DSInit, IInv, SlotsOK, DistinctOK, OpenOK, Listens,
       AnswersLocked, PathOK

LEMMA Inductive == DSSpec => []IInv
<1> QED
    BY InitInductive, StepInductive, PTL DEF DSSpec

\* The path, the lock and what each process holds of them keep their types, for any
\* processes, files and events; one process holds the lock.
THEOREM TypeCorrect == DSSpec => []DSTypeOK
<1>1. IInv => DSTypeOK
    BY DEF IInv
<1> QED
    BY <1>1, Inductive, PTL

\* Whatever answers on a socket of the home holds its lock, except a bind that
\* succeeded after its watchdog had given it up (Close releases the lock last).
THEOREM AnsweringIsLocked == DSSpec => []AnswersLocked
<1>1. IInv => AnswersLocked
    BY DEF IInv
<1> QED
    BY <1>1, Inductive, PTL

\* The step of LiveSocketKept.
Keeps ==
    \A p \in Daemons :
        Reachable(p) /\ ~Reachable(p)' =>
            \/ phase'[p] # phase[p]
            \/ events' # events
            \/ \E q \in Daemons \ {p} : InTheWindow(q, mine[p])

\* Only a step on the path or on its own listener takes a socket away.
LEMMA StepKeeps == IInv /\ [DSNext]_vars => [Keeps]_vars
<1> SUFFICES ASSUME IInv, DSNext, NEW p \in Daemons, Reachable(p), ~Reachable(p)',
                    phase'[p] = phase[p], events' = events
             PROVE  \E q \in Daemons \ {p} : InTheWindow(q, mine[p])
    BY DEF Keeps, vars
<1> USE DaemonsAssumption, FilesAssumption
<1>1. /\ phase[p] \in {"bound", "serve"} /\ mine[p] # None /\ socket = mine[p]
      /\ mine[p] \in open /\ lock = p /\ watchdog[p] \notin {"bound", "orphan", "removing"}
    BY DEF Reachable, IInv, OpenOK, Listens, PathOK, DSTypeOK, Running
<1>2. ASSUME UNCHANGED <<socket, mine>> PROVE FALSE
    BY <1>1, <1>2 DEF Reachable
<1>3. \A q \in Daemons \ {p} : phase[q] \notin Running \union Closing
    BY <1>1 DEF IInv, DSTypeOK
<1>4. ASSUME NEW q \in Daemons, RemoveStale(q) PROVE InTheWindow(q, mine[p]) /\ q # p
    <2>1. phase[q] = "remove"
        BY <1>4 DEF RemoveStale
    <2>2. socket = seen[q] => seen[q] \notin open
        BY <2>1 DEF IInv, PathOK
    <2> QED
        BY <1>1, <2>1, <2>2 DEF InTheWindow
<1>5. ASSUME NEW q \in Daemons, DiscardRemoves(q) \/ CloseListener(q) \/ Install(q)
      PROVE  FALSE
    <2>1. phase[q] \in {"bound", "serve"}
        BY <1>5 DEF DiscardRemoves, CloseListener, Install, IInv, SlotsOK
    <2>2. q = p
        BY <1>3, <2>1 DEF Running
    <2>3. ~CloseListener(p)
        BY <1>1 DEF CloseListener, Goes, IInv, DSTypeOK
    <2> QED
        BY <1>1, <1>5, <2>2, <2>3 DEF DiscardRemoves, Install
<1>6. ASSUME NEW q \in Daemons, Bind(q) \/ Rebind(q) \/ LateBind(q) \/ LateStrays(q)
      PROVE  FALSE
    BY <1>1, <1>6 DEF Bind, Rebind, LateBind, LateStrays, Makes, Strays
<1>7. ASSUME NEW q \in Daemons, Ends(q), UNCHANGED socket PROVE FALSE
    <2>1. CASE q = p
        BY <1>1, <1>7, <2>1 DEF Ends, IInv, DSTypeOK
    <2>2. CASE q # p
        BY <1>2, <1>7, <2>2 DEF Ends, Reachable, IInv, DSTypeOK
    <2> QED
        BY <2>1, <2>2
<1>8. ASSUME events' = events + 1 PROVE FALSE
    BY <1>8 DEF IInv, DSTypeOK
<1>9. ASSUME NEW q \in Daemons,
             ProbeLive(q) \/ OtherFile(q) \/ LockTaken(q) \/ BindFails(q) \/ Exit(q)
      PROVE  FALSE
    <2>1. ASSUME BindFails(q) PROVE FALSE
        BY <1>1, <1>7, <1>8, <2>1 DEF BindFails, Strays, Event
    <2> QED
        BY <1>7, <1>9, <2>1 DEF ProbeLive, OtherFile, LockTaken, Exit
<1>10. ASSUME NEW q \in Daemons,
             \/ Start(q) \/ Look(q) \/ ProbeStale(q) \/ SameFile(q) \/ Lock(q)
             \/ Serve(q) \/ WatchdogStops(q) \/ NoticeLoss(q) \/ RebindFails(q)
             \/ RebindTimesOut(q) \/ Discard(q) \/ DiscardLooks(q) \/ LateFails(q)
             \/ LateClose(q) \/ LookAtOwn(q) \/ Unlock(q)
      PROVE  FALSE
    BY <1>1, <1>2, <1>10 DEF Start, Look, ProbeStale, SameFile, Lock, Serve,
       WatchdogStops, NoticeLoss, RebindFails, Strays, RebindTimesOut, Discard,
       DiscardLooks, LateFails, LateClose, LookAtOwn, Unlock, Goes, Watches, paths
<1>11. ASSUME \/ LoseSocket
              \/ \E q \in Daemons : StartFails(q) \/ Signal(q) \/ Kill(q)
       PROVE  FALSE
    BY <1>8, <1>11 DEF LoseSocket, StartFails, Signal, Kill, Event
<1> QED
    BY <1>4, <1>5, <1>6, <1>9, <1>10, <1>11
    DEF DSNext, Starts, Guards, Binds, Lates, Closes

\* No daemon takes the socket of a serving daemon off the path, but in the window
\* between the comparison and the removal of a start (removeIfSameFileStatus).
THEOREM ServingSocketKept == DSSpec => LiveSocketKept
<1> QED
    BY StepKeeps, Inductive, PTL DEF DSSpec, LiveSocketKept, Keeps
=============================================================================
