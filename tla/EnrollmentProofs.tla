-------------------------- MODULE EnrollmentProofs --------------------------
(* How an agent's credential comes and goes, for any number of enrollments,  *)
(* pairings, installs and faults.  A step of the worker changes one of its   *)
(* fields or ends the work on an enrollment (Goes, Drops); the server's view *)
(* of an enrollment only moves forward (ServerStep).  What is on disk is     *)
(* then known part by part: to the journal, to the server, to the user.      *)
EXTENDS Enrollment, TLAPS

Everything == Enrollments \union {User}
AllExcused == Everything \subseteq excused

\* Where the worker is: in the install of an enrollment, or in its undoing.
Installing == {"prepare", "journal", "write", "verify", "ack"}
Undoing == {"undo", "removeEntry", "restoreEntry", "confirm"}

Entries == [daemon : Daemons \union {None}, wrote : SUBSET Nat, prev : Everything \union {None}]
Listings == SUBSET (Enrollments \X {"pending", "redeemed", "closed"} \X Nat)

Server == [state : Open \union {"none", "installed", "closed", "gone"},
           daemon : Daemons \union {None}, minted : Nat]

Worker == [pc : Places, daemon : Daemons \union {None}, items : SUBSET Enrollments,
           cleanups : SUBSET Enrollments, e : Enrollments \union {None}, n : Nat,
           prev : Everything \union {None}, ack : {None, "installed", "failed", "invalid"},
           undo : BOOLEAN, retry : BOOLEAN, etag : SUBSET Listings,
           waiting : SUBSET Enrollments]

Unpair == [pc : {"none", "revoke", "load", "clean", "forget"}, daemon : Daemons \union {None},
           read : [Enrollments -> Entries], cleaned : SUBSET Enrollments,
           failed : SUBSET Enrollments]

\* The record of an enrollment in a journal.
EntryOK(entry, e) ==
    entry = NoEntry \/ (/\ entry.daemon = srv[e].daemon /\ entry.wrote # {}
                        /\ entry.wrote \subseteq 1 .. srv[e].minted)

Issued(credential) ==
    \/ credential.of \in Enrollments /\ credential.n \in 1 .. srv[credential.of].minted
    \/ credential.of = User /\ credential.n \in 0 .. installs

ServerOK ==
    /\ srv \in [Enrollments -> Server]
    /\ \A e \in Enrollments :
         /\ srv[e].state = "none" <=> srv[e].daemon = None
         /\ srv[e].daemon # None => srv[e].daemon <= paired
         /\ srv[e].state \in {"none", "pending"} => srv[e].minted = 0
         /\ srv[e].state \in {"redeemed", "installed", "closed"} => srv[e].minted >= 1

FilesOK ==
    /\ profile # None => profile \in Credentials /\ Issued(profile)
    /\ backup # None => backup \in Credentials /\ Issued(backup)
    /\ registry \in Everything \union {None}
    /\ ~bot => registry = None
    /\ journal \in [Enrollments -> Entries]
    /\ \A e \in Enrollments : EntryOK(journal[e], e)

WorkerOK ==
    /\ w \in Worker
    /\ w.pc \in {"idle", "next"} <=> w.e = None
    /\ w.pc = "idle" => w.daemon = None /\ w.items = {} /\ w.cleanups = {} /\ ~w.retry
    /\ w.pc # "idle" => w.daemon \in 1 .. paired
    /\ w.pc = "ack" => w.ack \in {"installed", "failed", "invalid"}
    /\ \A e \in w.items : srv[e].state # "none" /\ srv[e].state # "installed"
                            /\ srv[e].daemon = w.daemon
    /\ \A e \in w.cleanups : srv[e].state = "closed" /\ srv[e].daemon = w.daemon
    /\ w.e # None => srv[w.e].daemon = w.daemon /\ w.e \notin w.items \union w.cleanups
    /\ w.pc \in Installing => srv[w.e].state \in {"redeemed", "closed"} /\ w.n = srv[w.e].minted
    /\ w.pc \in {"removeEntry", "restoreEntry"} => bot
    /\ w.pc = "discard" => srv[w.e].state = "installed"
    /\ w.pc \in Undoing => srv[w.e].state = "closed"
    /\ w.pc = "forget" => srv[w.e].state = "gone"

UnpairOK ==
    /\ u \in Unpair
    /\ u.pc \in {"revoke", "load", "clean"} => u.daemon \in 1 .. paired
    /\ u.pc \in {"load", "clean"} => u.daemon \in revoked
    /\ \A e \in Enrollments : EntryOK(u.read[e], e)
    /\ u.cleaned \union u.failed \subseteq OfDaemon
    /\ u.pc # "clean" => u.cleaned = {} /\ u.failed = {}

CountsOK ==
    /\ bot \in BOOLEAN
    /\ paired \in 0 .. MaxPairings /\ installs \in 0 .. MaxInstalls /\ faults \in 0 .. MaxFaults
    /\ revoked \subseteq 1 .. paired
    /\ auth \in (1 .. paired) \union {None}
    /\ excused \subseteq Everything
    /\ owed \in 0 .. MaxInstalls

TypesOK == CountsOK /\ ServerOK /\ FilesOK /\ WorkerOK /\ UnpairOK

\* Every mint of an enrollment after its first follows a failure.
MintsOK ==
    \A e \in Enrollments :
      \/ srv[e].minted <= faults
      \/ /\ srv[e].minted = faults + 1
         /\ \/ srv[e].state \notin Open
            \/ srv[e].daemon \in revoked
            \/ w.e = e /\ w.pc \in Installing /\ (w.pc = "ack" => w.ack = "installed")

-----------------------------------------------------------------------------
(* The worker's memory.                                                     *)

\* What stays while the worker is at one enrollment, or looks at a list.
PassStays == UNCHANGED <<w.daemon, w.items, w.cleanups, w.retry, w.etag>>
WorkStays == UNCHANGED <<w.e, w.n, w.ack, w.undo>>

\* The work on an enrollment goes on at pc, or has ended.
Goes(pc) == w' \in Worker /\ w'.pc = pc /\ WorkStays /\ PassStays
Drops(retry) ==
    /\ w' \in Worker /\ w'.pc = "next" /\ w'.e = None
    /\ w'.retry = (w.retry \/ retry)
    /\ UNCHANGED <<w.daemon, w.items, w.cleanups, w.etag>>

\* The list is one shorter, or the same with another time to wait.
Shortens(e) ==
    /\ w' \in Worker /\ w'.pc = w.pc /\ WorkStays
    /\ UNCHANGED <<w.daemon, w.etag>> /\ w'.retry
    /\ \/ w'.items = w.items \ {e} /\ w'.cleanups = w.cleanups
       \/ w'.items = w.items /\ w'.cleanups = w.cleanups \ {e}

LEMMA Constants ==
    /\ None \notin Nat /\ None \notin Enrollments /\ None \notin Daemons /\ None # User
    /\ None \notin Credentials /\ User \notin Enrollments /\ User \in Nat
    /\ Enrollments \subseteq Nat /\ Daemons \subseteq Nat
    /\ MaxEnrollments \in Nat /\ MaxPairings \in Nat /\ MaxInstalls \in Nat /\ MaxFaults \in Nat
<1>1. MaxEnrollments \in Nat /\ MaxPairings \in Nat /\ MaxInstalls \in Nat /\ MaxFaults \in Nat
    BY EnrollmentAssumption
<1>2. Enrollments \subseteq Nat /\ Daemons \subseteq Nat /\ User \notin Enrollments /\ User \in Nat
    BY <1>1 DEF Enrollments, Daemons, User
<1> QED
    BY <1>1, <1>2, NoneAssumption

LEMMA RestedType == Rested \in Worker
BY DEF Rested, Worker, Places, Listings

LEMMA WorkerEdits ==
    ASSUME w \in Worker
    PROVE  /\ \A pc \in Places : w' = [w EXCEPT !.pc = pc] => Goes(pc)
           /\ \A pc \in Places, prev \in Everything \union {None} :
                w' = [w EXCEPT !.pc = pc, !.prev = prev] => Goes(pc) /\ w'.prev = prev
           /\ \A retry \in BOOLEAN : MovesOn(retry) => Drops(retry)
           /\ (w.e \in Enrollments /\ Failed) => Drops(TRUE)
           /\ \A outcome \in {"installed", "failed", "invalid"}, undo \in BOOLEAN :
                Reports(outcome, undo) =>
                  /\ w' \in Worker /\ PassStays
                  /\ w'.pc = "ack" /\ w'.e = w.e /\ w'.n = w.n /\ w'.ack = outcome
                  /\ w'.undo = undo
<1>1. ASSUME NEW pc \in Places, w' = [w EXCEPT !.pc = pc]
      PROVE  Goes(pc)
    BY <1>1 DEF Goes, PassStays, WorkStays, Worker
<1>2. ASSUME NEW pc \in Places, NEW prev \in Everything \union {None},
             w' = [w EXCEPT !.pc = pc, !.prev = prev]
      PROVE  Goes(pc) /\ w'.prev = prev
    BY <1>2 DEF Goes, PassStays, WorkStays, Worker
<1>3. ASSUME NEW retry \in BOOLEAN, MovesOn(retry)
      PROVE  Drops(retry)
    BY <1>3 DEF MovesOn, Drops, Worker, Places
<1>4. ASSUME w.e \in Enrollments, Failed
      PROVE  Drops(TRUE)
    <2>1. w.waiting \subseteq Enrollments
        BY DEF Worker
    <2>2. PICK waiting \in SUBSET Enrollments :
            w' = [w EXCEPT !.pc = "next", !.e = None, !.n = 0, !.prev = None, !.ack = None,
                           !.undo = FALSE, !.retry = TRUE, !.waiting = waiting]
        BY <1>4, <2>1 DEF Failed, MayWait
    <2> QED
        BY <2>2 DEF Drops, Worker, Places
<1>5. ASSUME NEW outcome \in {"installed", "failed", "invalid"}, NEW undo \in BOOLEAN,
             Reports(outcome, undo)
      PROVE  /\ w' \in Worker /\ PassStays
             /\ w'.pc = "ack" /\ w'.e = w.e /\ w'.n = w.n /\ w'.ack = outcome
             /\ w'.undo = undo
    BY <1>5 DEF Reports, PassStays, Worker, Places
<1> QED
    BY <1>1, <1>2, <1>3, <1>4, <1>5

\* What every action of the worker makes of its memory.
LEMMA Moves ==
    ASSUME TypesOK
    PROVE  /\ Lists => /\ w' \in Worker /\ w'.pc = "next" /\ w'.daemon = auth /\ WorkStays
                       /\ w'.items = {e \in Listed(auth) : srv[e].state \in Open}
                       /\ w'.cleanups = {e \in Listed(auth) : srv[e].state = "closed"}
                       /\ w'.retry = FALSE /\ w'.etag = {Fingerprint(auth)}
           /\ Parks \/ Restarts => w' = Rested
           /\ EndsPass => /\ w' \in Worker /\ w'.pc = "idle" /\ WorkStays
                          /\ w'.daemon = None /\ w'.retry = FALSE
                          /\ UNCHANGED <<w.items, w.cleanups>>
                          /\ w'.etag = IF w.retry THEN {} ELSE w.etag
           /\ \A e \in Enrollments :
                /\ Defers(e) => Shortens(e)
                /\ WindowElapses(e) => w' \in Worker /\ w'.pc = w.pc /\ WorkStays /\ PassStays
                /\ Redeems(e) => /\ w' \in Worker /\ w'.pc = "prepare" /\ w'.e = e
                                 /\ w'.n = srv[e].minted + 1
                                 /\ w'.items = w.items \ {e}
                                 /\ UNCHANGED <<w.daemon, w.cleanups, w.retry, w.etag>>
                /\ RedeemFails(e) => Shortens(e)
                /\ CleanupUnclear(e) => Shortens(e)
                /\ CleanupLooks(e) => /\ w' \in Worker /\ w'.e = e
                                      /\ w'.pc = IF Owns(e) THEN "undo" ELSE "confirm"
                                      /\ w'.cleanups = w.cleanups \ {e}
                                      /\ UNCHANGED <<w.daemon, w.items, w.retry, w.etag>>
           /\ BacksUp => Goes("journal")
           /\ Journals \/ JournalFails => Goes("write")
           /\ Writes => Goes("verify")
           /\ PrepareFails \/ WriteFails \/ VerifyFails =>
                /\ w' \in Worker /\ PassStays /\ UNCHANGED <<w.e, w.n>>
                /\ w'.pc = "ack" /\ w'.ack \in {"failed", "invalid"}
           /\ PrepareFails => ~w'.undo
           /\ WriteFails => w'.undo = (bot => profile # None)
           /\ Verifies => /\ w' \in Worker /\ PassStays /\ UNCHANGED <<w.e, w.n>>
                          /\ w'.pc = "ack" /\ w'.ack = "installed" /\ w'.undo
           /\ VerifyRefused \/ AckFails => Drops(TRUE)
           /\ AckAccepted => IF w.ack = "installed" THEN Goes("discard") ELSE Drops(w.ack = "failed")
           /\ AckClosed => /\ w' \in Worker /\ WorkStays /\ w'.retry
                           /\ w'.pc = IF w.undo THEN "undo" ELSE "confirm"
                           /\ UNCHANGED <<w.daemon, w.items, w.cleanups, w.etag>>
           /\ Discards \/ Forgets => Drops(FALSE)
           /\ UndoFails \/ ConfirmFails => Drops(TRUE)
           /\ Undoes => Goes(IF ~bot THEN "confirm"
                             ELSE IF backup = None THEN "removeEntry" ELSE "restoreEntry")
           /\ RemovesEntry \/ RestoresEntry => Goes("confirm")
           /\ Confirms => Goes("forget")
<1> USE Constants
<1>0. w \in Worker /\ (w.pc \notin {"idle", "next"} => w.e \in Enrollments)
    BY DEF TypesOK, WorkerOK, Worker
<1>1. ASSUME Lists
      PROVE  /\ w' \in Worker /\ w'.pc = "next" /\ w'.daemon = auth /\ WorkStays
             /\ w'.items = {e \in Listed(auth) : srv[e].state \in Open}
             /\ w'.cleanups = {e \in Listed(auth) : srv[e].state = "closed"}
             /\ w'.retry = FALSE /\ w'.etag = {Fingerprint(auth)}
    <2>1. auth \in Daemons
        BY <1>1 DEF Lists, TypesOK, CountsOK, Daemons
    <2>2. Listed(auth) \subseteq Enrollments
        BY DEF Listed
    <2>3. Fingerprint(auth) \in Listings
        <3> SUFFICES ASSUME NEW e \in Listed(auth)
                     PROVE  <<e, srv[e].state, srv[e].minted>> \in
                              Enrollments \X {"pending", "redeemed", "closed"} \X Nat
            BY DEF Fingerprint, Listings
        <3>1. e \in Enrollments /\ srv[e].state \in {"pending", "redeemed", "closed"}
            BY DEF Listed, Open
        <3>2. srv[e].minted \in Nat
            BY <3>1 DEF TypesOK, ServerOK, Server
        <3> QED
            BY <3>1, <3>2
    <2> DEFINE I == {e \in Listed(auth) : srv[e].state \in Open}
               C == {e \in Listed(auth) : srv[e].state = "closed"}
               L == Fingerprint(auth)
    <2>4. /\ I \subseteq Enrollments /\ C \subseteq Enrollments /\ L \in Listings
          /\ w.waiting \cap Listed(auth) \subseteq Enrollments
        BY <1>0, <2>2, <2>3 DEF Worker
    <2>5. w' = [w EXCEPT !.pc = "next", !.daemon = auth, !.items = I, !.cleanups = C,
                         !.retry = FALSE, !.etag = {L},
                         !.waiting = w.waiting \cap Listed(auth)]
        BY <1>0, <1>1 DEF Lists, Worker
    <2> HIDE DEF I, C, L
    <2>6. /\ w' \in Worker /\ w'.pc = "next" /\ w'.daemon = auth /\ WorkStays
          /\ w'.items = I /\ w'.cleanups = C /\ w'.retry = FALSE /\ w'.etag = {L}
        BY <1>0, <2>1, <2>4, <2>5 DEF Worker, Places, WorkStays
    <2> QED
        BY <2>6 DEF I, C, L
<1>2. ASSUME Parks \/ Restarts PROVE w' = Rested
    BY <1>2 DEF Parks, Restarts
<1>3. ASSUME EndsPass
      PROVE  /\ w' \in Worker /\ w'.pc = "idle" /\ WorkStays
             /\ w'.daemon = None /\ w'.retry = FALSE
             /\ UNCHANGED <<w.items, w.cleanups>>
             /\ w'.etag = IF w.retry THEN {} ELSE w.etag
    BY <1>0, <1>3 DEF EndsPass, Worker, Places, WorkStays
<1>4. ASSUME NEW e \in Enrollments, Defers(e) PROVE Shortens(e)
    BY <1>0, <1>4 DEF Defers, Shortens, Worker, WorkStays
<1>5. ASSUME NEW e \in Enrollments, WindowElapses(e)
      PROVE  w' \in Worker /\ w'.pc = w.pc /\ WorkStays /\ PassStays
    BY <1>0, <1>5 DEF WindowElapses, Worker, WorkStays, PassStays
<1>6. ASSUME NEW e \in Enrollments, Redeems(e)
      PROVE  /\ w' \in Worker /\ w'.pc = "prepare" /\ w'.e = e
             /\ w'.n = srv[e].minted + 1
             /\ w'.items = w.items \ {e}
             /\ UNCHANGED <<w.daemon, w.cleanups, w.retry, w.etag>>
    <2>1. srv[e].minted \in Nat
        BY DEF TypesOK, ServerOK, Server
    <2>2. w' = [w EXCEPT !.pc = "prepare", !.items = w.items \ {e}, !.e = e, !.n = srv[e].minted + 1]
        BY <1>0, <1>6 DEF Redeems, Worker
    <2>3. srv[e].minted + 1 \in Nat /\ "prepare" \in Places /\ w.items \ {e} \in SUBSET Enrollments
        BY <1>0, <2>1 DEF Worker, Places
    <2> QED
        BY <1>0, <2>2, <2>3 DEF Worker
<1>7. ASSUME NEW e \in Enrollments, RedeemFails(e) PROVE Shortens(e)
    <2>1. w.waiting \subseteq Enrollments
        BY <1>0 DEF Worker
    <2>2. PICK waiting \in SUBSET Enrollments :
            w' = [w EXCEPT !.items = w.items \ {e}, !.retry = TRUE, !.waiting = waiting]
        BY <1>0, <1>7, <2>1 DEF RedeemFails, MayWait, Worker
    <2> QED
        BY <1>0, <2>2 DEF Shortens, Worker, WorkStays
<1>8. ASSUME NEW e \in Enrollments, CleanupUnclear(e) PROVE Shortens(e)
    BY <1>0, <1>8 DEF CleanupUnclear, Shortens, Worker, WorkStays
<1>9. ASSUME NEW e \in Enrollments, CleanupLooks(e)
      PROVE  /\ w' \in Worker /\ w'.e = e
             /\ w'.pc = IF Owns(e) THEN "undo" ELSE "confirm"
             /\ w'.cleanups = w.cleanups \ {e}
             /\ UNCHANGED <<w.daemon, w.items, w.retry, w.etag>>
    <2> DEFINE pc == IF Owns(e) THEN "undo" ELSE "confirm"
    <2>1. pc \in Places /\ w' = [w EXCEPT !.pc = pc, !.cleanups = w.cleanups \ {e}, !.e = e]
        BY <1>0, <1>9 DEF CleanupLooks, Worker, Places
    <2> HIDE DEF pc
    <2>2. /\ w' \in Worker /\ w'.e = e /\ w'.pc = pc /\ w'.cleanups = w.cleanups \ {e}
          /\ UNCHANGED <<w.daemon, w.items, w.retry, w.etag>>
        BY <1>0, <2>1 DEF Worker
    <2> QED
        BY <2>2 DEF pc
<1>10. ASSUME BacksUp PROVE Goes("journal")
    <2>1. (IF bot /\ Preexists THEN registry ELSE None) \in Everything \union {None}
        BY DEF TypesOK, FilesOK
    <2> QED
        BY <1>0, <1>10, <2>1, WorkerEdits DEF BacksUp, Places
<1>11. ASSUME NEW pc \in Places, w' = [w EXCEPT !.pc = pc] PROVE Goes(pc)
    BY <1>0, <1>11, WorkerEdits
<1>12. /\ Journals \/ JournalFails => Goes("write")
       /\ Writes => Goes("verify")
       /\ RemovesEntry \/ RestoresEntry => Goes("confirm")
       /\ Confirms => Goes("forget")
    BY <1>11 DEF Journals, JournalFails, Writes, RemovesEntry, RestoresEntry, Confirms, Places
<1>13. ASSUME NEW outcome \in {"installed", "failed", "invalid"}, NEW undo \in BOOLEAN,
              Reports(outcome, undo)
       PROVE  /\ w' \in Worker /\ PassStays /\ UNCHANGED <<w.e, w.n>>
              /\ w'.pc = "ack" /\ w'.ack = outcome /\ w'.undo = undo
    BY <1>0, <1>13, WorkerEdits
<1>14. /\ PrepareFails => /\ w' \in Worker /\ PassStays /\ UNCHANGED <<w.e, w.n>> /\ w'.pc = "ack"
                          /\ w'.ack \in {"failed", "invalid"} /\ ~w'.undo
       /\ WriteFails => /\ w' \in Worker /\ PassStays /\ UNCHANGED <<w.e, w.n>> /\ w'.pc = "ack"
                        /\ w'.ack = "failed" /\ w'.undo = (bot => profile # None)
       /\ VerifyFails => /\ w' \in Worker /\ PassStays /\ UNCHANGED <<w.e, w.n>> /\ w'.pc = "ack"
                         /\ w'.ack = "failed"
       /\ Verifies => /\ w' \in Worker /\ PassStays /\ UNCHANGED <<w.e, w.n>> /\ w'.pc = "ack"
                      /\ w'.ack = "installed" /\ w'.undo
    <2>1. PrepareFails => Reports("failed", FALSE) \/ Reports("invalid", FALSE)
        BY DEF PrepareFails
    <2>2. WriteFails => Reports("failed", bot => profile # None)
        BY DEF WriteFails
    <2>3. VerifyFails => Reports("failed", TRUE)
        BY DEF VerifyFails
    <2>4. Verifies => Reports("installed", TRUE)
        BY DEF Verifies
    <2>5. (bot => profile # None) \in BOOLEAN
        BY DEF TypesOK, CountsOK
    <2> QED
        BY <1>13, <2>1, <2>2, <2>3, <2>4, <2>5
<1>15. /\ VerifyRefused \/ AckFails => Drops(TRUE)
       /\ Discards \/ Forgets => Drops(FALSE)
       /\ UndoFails \/ ConfirmFails => Drops(TRUE)
    BY <1>0, WorkerEdits DEF VerifyRefused, AckFails, Discards, Forgets, UndoFails, ConfirmFails
<1>16. ASSUME AckAccepted
       PROVE  IF w.ack = "installed" THEN Goes("discard") ELSE Drops(w.ack = "failed")
    <2>1. w.ack \in {"installed", "failed", "invalid"} /\ w.e \in Enrollments
        BY <1>0, <1>16 DEF AckAccepted, TypesOK, WorkerOK, Worker
    <2>2. /\ w.ack = "installed" => w' = [w EXCEPT !.pc = "discard"]
          /\ w.ack = "invalid" => MovesOn(FALSE)
          /\ w.ack = "failed" => Failed
        BY <1>16 DEF AckAccepted
    <2> QED
        BY <1>0, <1>11, <2>1, <2>2, WorkerEdits DEF Places
<1>17. ASSUME AckClosed
       PROVE  /\ w' \in Worker /\ WorkStays /\ w'.retry
              /\ w'.pc = IF w.undo THEN "undo" ELSE "confirm"
              /\ UNCHANGED <<w.daemon, w.items, w.cleanups, w.etag>>
    BY <1>0, <1>17 DEF AckClosed, Worker, Places, WorkStays
<1>18. ASSUME Undoes
       PROVE  Goes(IF ~bot THEN "confirm"
                   ELSE IF backup = None THEN "removeEntry" ELSE "restoreEntry")
    BY <1>11, <1>18 DEF Undoes, Places
<1> QED
    BY <1>1, <1>2, <1>3, <1>4, <1>5, <1>6, <1>7, <1>8, <1>9, <1>10, <1>12, <1>14, <1>15, <1>16,
       <1>17, <1>18

-----------------------------------------------------------------------------
(* The server's view of an enrollment moves forward.                        *)

Same(s, t) == t.daemon = s.daemon /\ t.minted = s.minted

Enrolled(s, t) == s.state = "none" /\ t.state = "pending" /\ t.daemon = auth /\ auth # None
                    /\ t.minted = 0
ClosedNow(s, t) == /\ s.state \in Open /\ Same(s, t)
                   /\ t.state = IF s.state = "pending" THEN "gone" ELSE "closed"
Minted(e, s, t) == /\ s.state \in Open /\ s.daemon \notin revoked /\ w.pc = "next" /\ e \in w.items
                   /\ t.state = "redeemed" /\ t.daemon = s.daemon /\ t.minted = s.minted + 1
                   /\ Redeems(e) \/ Fault
Answered(e, s, t) == /\ AckAccepted \/ AckFails
                     /\ w.pc = "ack" /\ w.e = e /\ w.daemon \notin revoked
                     /\ s.state = "redeemed" /\ Same(s, t)
                     /\ \/ w.ack = "installed" /\ t.state = "installed"
                        \/ w.ack = "invalid" /\ t.state = "closed"
Drained(e, s, t) == /\ Confirms \/ ConfirmFails
                    /\ w.pc = "confirm" /\ w.e = e
                    /\ s.state = "closed" /\ t.state = "gone" /\ Same(s, t)

ServerStep(e, s, t) ==
    \/ t = s \/ Enrolled(s, t) \/ ClosedNow(s, t) \/ Minted(e, s, t) \/ Answered(e, s, t)
    \/ Drained(e, s, t)

LEMMA ServerSteps ==
    ASSUME TypesOK, [EnNext]_vars
    PROVE  srv' \in [Enrollments -> Server] /\ \A e \in Enrollments : ServerStep(e, srv[e], srv'[e])
<1> USE DEF cloud, files, history, counts
<1> DEFINE Goal == /\ srv' \in [Enrollments -> Server]
                   /\ \A e \in Enrollments : ServerStep(e, srv[e], srv'[e])
<1>0. /\ srv \in [Enrollments -> Server]
      /\ w.pc \notin {"idle", "next"} => w.e \in Enrollments /\ srv[w.e].daemon = w.daemon
    BY Constants DEF TypesOK, ServerOK, WorkerOK, Worker
<1>a. ASSUME UNCHANGED srv PROVE Goal
    BY <1>0, <1>a DEF ServerStep
<1>b. ASSUME NEW e \in Enrollments, NEW t \in Server, srv' = [srv EXCEPT ![e] = t],
             ServerStep(e, srv[e], t)
      PROVE  Goal
    BY <1>0, <1>b DEF ServerStep
<1>1. ASSUME NEW e \in Enrollments, NEW state \in {"installed", "closed", "gone"},
             srv' = [srv EXCEPT ![e].state = state],
             \A t \in Server : t.state = state /\ Same(srv[e], t) => ServerStep(e, srv[e], t)
      PROVE  Goal
    <2> DEFINE t == [srv[e] EXCEPT !.state = state]
    <2>0. srv[e] \in Server /\ srv' = [srv EXCEPT ![e] = t]
        BY <1>0, <1>1
    <2>1. t \in Server /\ t.state = state
        BY <2>0 DEF Server, Open
    <2>2. Same(srv[e], t)
        BY <2>0 DEF Server, Same
    <2> HIDE DEF t
    <2> QED
        BY <1>b, <1>1, <2>0, <2>1, <2>2
<1>2. ASSUME NEW e \in Enrollments, srv' = Redeemed(e), e \in w.items, w.pc = "next", Redeemable(e),
             Redeems(e) \/ Fault
      PROVE  Goal
    <2> DEFINE t == [srv[e] EXCEPT !.state = "redeemed", !.minted = srv[e].minted + 1]
    <2>0. srv[e].minted + 1 \in Nat
        BY <1>0 DEF Server
    <2>1. t \in Server /\ t.state = "redeemed" /\ t.minted = srv[e].minted + 1 /\ t.daemon = srv[e].daemon
        <3>1. srv[e] \in Server
            BY <1>0
        <3> QED
            BY <2>0, <3>1 DEF Server, Open
    <2>2. srv' = [srv EXCEPT ![e] = t]
        BY <1>0, <1>2 DEF Redeemed
    <2>3. srv[e].daemon = w.daemon
        BY <1>2 DEF TypesOK, WorkerOK
    <2> HIDE DEF t
    <2>4. ServerStep(e, srv[e], t)
        BY <1>2, <2>1, <2>3 DEF ServerStep, Minted, Redeemable
    <2> QED
        BY <1>b, <2>1, <2>2, <2>4
<1>3. ASSUME NEW e \in Enrollments, Redeems(e) \/ RedeemFails(e)
      PROVE  Goal
    BY <1>2, <1>a, <1>3 DEF Redeems, RedeemFails, Takes
<1>4. ASSUME Acknowledged, w.pc = "ack", AckAccepted \/ AckFails
      PROVE  Goal
    <2>1. w.e \in Enrollments /\ srv[w.e].state = "redeemed" /\ w.daemon \notin revoked
        BY <1>0, <1>4 DEF Acknowledged
    <2>2. w.ack \in {"installed", "invalid", "failed"}
        BY <1>4 DEF TypesOK, WorkerOK, Worker
    <2>3. CASE w.ack = "failed"
        BY <1>4, <1>a, <2>3 DEF Acknowledged
    <2>4. CASE w.ack = "installed"
        <3>1. srv' = [srv EXCEPT ![w.e].state = "installed"]
            BY <1>4, <2>4 DEF Acknowledged
        <3>2. \A t \in Server : t.state = "installed" /\ Same(srv[w.e], t) => ServerStep(w.e, srv[w.e], t)
            BY <1>4, <2>1, <2>4 DEF ServerStep, Answered
        <3> QED
            BY <1>1, <2>1, <3>1, <3>2
    <2>5. CASE w.ack = "invalid"
        <3>1. srv' = [srv EXCEPT ![w.e].state = "closed"]
            BY <1>4, <2>5 DEF Acknowledged
        <3>2. \A t \in Server : t.state = "closed" /\ Same(srv[w.e], t) => ServerStep(w.e, srv[w.e], t)
            BY <1>4, <2>1, <2>5 DEF ServerStep, Answered
        <3> QED
            BY <1>1, <2>1, <3>1, <3>2
    <2> QED
        BY <2>2, <2>3, <2>4, <2>5
<1>5. ASSUME AckAccepted \/ AckFails
      PROVE  Goal
    BY <1>4, <1>a, <1>5 DEF AckAccepted, AckFails
<1>6. ASSUME Confirms \/ ConfirmFails
      PROVE  Goal
    <2>1. w.pc = "confirm" /\ w.e \in Enrollments /\ srv[w.e].state = "closed"
        BY <1>0, <1>6 DEF Confirms, ConfirmFails, TypesOK, WorkerOK, Undoing
    <2>2. \A t \in Server : t.state = "gone" /\ Same(srv[w.e], t) => ServerStep(w.e, srv[w.e], t)
        BY <1>6, <2>1 DEF ServerStep, Drained
    <2>3. srv' = Confirmed => Goal
        BY <1>1, <2>1, <2>2 DEF Confirmed
    <2> QED
        BY <1>6, <1>a, <2>3 DEF Confirms, ConfirmFails
<1>7. ASSUME NEW e \in Enrollments, Enrolls(e)
      PROVE  Goal
    <2> DEFINE t == [state |-> "pending", daemon |-> auth, minted |-> 0]
    <2>0. auth \in Daemons /\ srv[e].state = "none" /\ srv' = [srv EXCEPT ![e] = t] /\ auth # None
        BY <1>7, Constants DEF Enrolls, TypesOK, CountsOK, Daemons
    <2>1. t \in Server
        BY <2>0 DEF Server, Open
    <2>2. ServerStep(e, srv[e], t)
        BY <2>0 DEF ServerStep, Enrolled
    <2> HIDE DEF t
    <2> QED
        BY <1>b, <2>0, <2>1, <2>2
<1>8. ASSUME NEW e \in Enrollments, Closes(e)
      PROVE  Goal
    <2> DEFINE state == IF srv[e].state = "pending" THEN "gone" ELSE "closed"
    <2>1. srv[e].state \in Open /\ srv' = [srv EXCEPT ![e].state = state]
        BY <1>0, <1>8 DEF Closes
    <2>2. \A t \in Server : t.state = state /\ Same(srv[e], t) => ServerStep(e, srv[e], t)
        BY <2>1 DEF ServerStep, ClosedNow
    <2>3. state \in {"installed", "closed", "gone"}
        OBVIOUS
    <2> HIDE DEF state
    <2> QED
        BY <1>1, <2>1, <2>2, <2>3
<1> HIDE DEF Goal
<1>9. ASSUME \/ Lists \/ Parks \/ EndsPass \/ BacksUp \/ PrepareFails \/ Journals \/ JournalFails
             \/ Writes \/ WriteFails \/ Verifies \/ VerifyRefused \/ VerifyFails \/ AckClosed
             \/ Discards \/ Undoes \/ UndoFails \/ RemovesEntry \/ RestoresEntry \/ Forgets
             \/ \E e \in Enrollments : Defers(e) \/ CleanupLooks(e) \/ CleanupUnclear(e)
                                         \/ WindowElapses(e)
      PROVE  UNCHANGED srv
    BY <1>9 DEF Lists, Parks, EndsPass, BacksUp, PrepareFails, Journals, JournalFails, Writes,
                WriteFails, Verifies, VerifyRefused, VerifyFails, AckClosed, Discards, Undoes,
                UndoFails, RemovesEntry, RestoresEntry, Forgets, Defers, CleanupLooks,
                CleanupUnclear, WindowElapses, WorkerOnly
<1>10. ASSUME \/ Unpairs \/ Pairs \/ PairFails \/ UserInstalls \/ Restarts
              \/ \E daemon \in Daemons : Revokes(daemon)
       PROVE  UNCHANGED srv
    BY <1>10 DEF Unpairs, UnpairBegins, UnpairRevokes, UnpairUnconfirmed, UnpairLoads, UnpairCleans,
                 UnpairCleanFails, UnpairSaves, UnpairForgets, UnpairKilled, Pairs, PairFails,
                 UserInstalls, Restarts, Revokes
<1>11. ASSUME UNCHANGED vars PROVE UNCHANGED srv
    BY <1>11 DEF vars
<1> QED
    BY <1>3, <1>5, <1>6, <1>7, <1>8, <1>9, <1>10, <1>11, <1>a DEF EnNext, Works, World, Goal

-----------------------------------------------------------------------------
(* Types.                                                                   *)

Grows == /\ paired <= paired' /\ installs <= installs' /\ faults <= faults'
         /\ revoked \subseteq revoked' /\ excused \subseteq excused' /\ bot' = bot

LEMMA CountsNext ==
    ASSUME TypesOK, [EnNext]_vars
    PROVE  CountsOK' /\ Grows
<1> USE DEF cloud, files, history, counts
<1> DEFINE Goal == CountsOK' /\ Grows
<1>0. /\ CountsOK
      /\ paired \in Nat /\ installs \in Nat /\ faults \in Nat
      /\ MaxPairings \in Nat /\ MaxInstalls \in Nat /\ MaxFaults \in Nat
    BY Constants DEF TypesOK, CountsOK
<1>1. ASSUME \/ Fault
             \/ UNCHANGED counts
      PROVE  /\ paired' = paired /\ installs' = installs /\ faults' \in 0 .. MaxFaults
             /\ faults <= faults'
    BY <1>0, <1>1 DEF Fault, CountsOK
<1>2. ASSUME Fault \/ UNCHANGED counts, UNCHANGED bot,
             revoked' \subseteq 1 .. paired, revoked \subseteq revoked',
             auth' \in {auth, None},
             excused' \subseteq Everything, excused \subseteq excused', owed' \in {owed, 0}
      PROVE  Goal
    BY <1>0, <1>1, <1>2 DEF CountsOK, Grows
<1>3. ASSUME Fault \/ UNCHANGED counts, UNCHANGED <<bot, revoked, auth, history>>
      PROVE  Goal
    BY <1>0, <1>2, <1>3 DEF CountsOK
<1>4. ASSUME NEW met \in BOOLEAN, Meets(met)
      PROVE  excused' \subseteq Everything /\ excused \subseteq excused' /\ owed' \in {owed, 0}
    BY <1>0, <1>4 DEF Meets, CountsOK, Everything
<1>5. ASSUME \/ Lists \/ Parks \/ EndsPass \/ Journals
             \/ Writes \/ WriteFails \/ Verifies \/ VerifyRefused \/ VerifyFails
             \/ Discards \/ Undoes \/ UndoFails \/ RemovesEntry \/ RestoresEntry \/ Forgets
             \/ Confirms \/ ConfirmFails
             \/ \E e \in Enrollments : \/ Defers(e) \/ CleanupUnclear(e) \/ WindowElapses(e)
                                       \/ RedeemFails(e) \/ Enrolls(e) \/ Closes(e)
      PROVE  (Fault \/ UNCHANGED counts) /\ UNCHANGED <<bot, revoked, auth, history>>
    BY <1>5 DEF Lists, Parks, EndsPass, Journals, Writes,
                WriteFails, Verifies, VerifyRefused, VerifyFails, Discards, Undoes,
                UndoFails, RemovesEntry, RestoresEntry, Forgets, Confirms, ConfirmFails,
                Defers, CleanupUnclear, WindowElapses, RedeemFails, Enrolls, Closes, WorkerOnly
<1>6. ASSUME NEW e \in Enrollments, Redeems(e) \/ CleanupLooks(e)
      PROVE  Goal
    <2>1. UnpairCleansUp \in BOOLEAN
        BY DEF UnpairCleansUp
    <2> QED
        BY <1>0, <1>2, <1>4, <1>6, <2>1 DEF Redeems, CleanupLooks, CountsOK
<1>7. ASSUME BacksUp
      PROVE  Goal
    <2>1. Preexists => profile.of \in Everything
        BY DEF Preexists, TypesOK, FilesOK, Credentials, Everything
    <2> QED
        BY <1>0, <1>2, <1>7, <2>1 DEF BacksUp, CountsOK
<1>8. ASSUME JournalFails \/ AckClosed
      PROVE  Goal
    <2>1. w.e \in Everything
        BY <1>8, Constants DEF JournalFails, AckClosed, TypesOK, WorkerOK, Worker, Everything
    <2> QED
        BY <1>0, <1>2, <1>8, <2>1 DEF JournalFails, AckClosed, CountsOK
<1>9. ASSUME AckAccepted \/ AckFails
      PROVE  Goal
    BY <1>0, <1>2, <1>9 DEF AckAccepted, AckFails, Acknowledged, CountsOK
<1>10. ASSUME UnpairRevokes \/ UnpairUnconfirmed
       PROVE  Goal
    <2>1. u.daemon \in 1 .. paired
        BY <1>10 DEF UnpairRevokes, UnpairUnconfirmed, TypesOK, UnpairOK
    <2>2. (w.e # None) \in BOOLEAN
        OBVIOUS
    <2> QED
        BY <1>0, <1>2, <1>4, <1>10, <2>1, <2>2 DEF UnpairRevokes, UnpairUnconfirmed, CountsOK
<1>11. ASSUME \/ UnpairBegins \/ UnpairLoads \/ UnpairSaves \/ UnpairKilled
              \/ \E e \in Enrollments : UnpairCleans(e) \/ UnpairCleanFails(e)
       PROVE  (Fault \/ UNCHANGED counts) /\ UNCHANGED <<bot, revoked, auth, history>>
    BY <1>11 DEF UnpairBegins, UnpairLoads, UnpairSaves, UnpairKilled, UnpairCleans, UnpairCleanFails
<1>12. ASSUME UnpairForgets
       PROVE  Goal
    BY <1>0, <1>2, <1>12 DEF UnpairForgets, CountsOK
<1>13. ASSUME Pairs
       PROVE  Goal
    <2>1. /\ paired' = paired + 1 /\ auth' = paired + 1 /\ paired < MaxPairings
          /\ UNCHANGED <<bot, revoked, excused, owed, installs, faults>>
        BY <1>13 DEF Pairs
    <2> QED
        BY <1>0, <2>1 DEF CountsOK, Grows
<1>14. ASSUME PairFails
       PROVE  Goal
    <2>1. /\ paired' = paired + 1 /\ revoked' = revoked \union {paired + 1} /\ paired < MaxPairings
          /\ faults' = faults + 1 /\ faults < MaxFaults
          /\ UNCHANGED <<bot, auth, excused, owed, installs>>
        BY <1>14 DEF PairFails
    <2> QED
        BY <1>0, <2>1 DEF CountsOK, Grows
<1>15. ASSUME UserInstalls
       PROVE  Goal
    <2>1. /\ installs < MaxInstalls /\ installs' = installs + 1 /\ owed' \in {installs + 1, 0}
          /\ excused' \in {excused, excused \union {User}}
          /\ UNCHANGED <<bot, revoked, auth, paired, faults>>
        BY <1>15 DEF UserInstalls
    <2> QED
        BY <1>0, <2>1 DEF CountsOK, Grows, Everything
<1>16. ASSUME NEW daemon \in Daemons, Revokes(daemon)
       PROVE  Goal
    <2>1. daemon \in 1 .. paired
        BY <1>0, <1>16, Constants DEF Revokes, Daemons
    <2> QED
        BY <1>0, <1>2, <1>16, <2>1 DEF Revokes, CountsOK
<1>17. CASE UNCHANGED vars
    BY <1>3, <1>17 DEF vars
<1>18. ASSUME PrepareFails \/ Restarts
       PROVE  Goal
    <2>1. Fault /\ UNCHANGED <<bot, revoked, auth, excused>> /\ owed' \in {owed, 0}
        BY <1>18 DEF PrepareFails, Restarts, BackupTears
    <2> QED
        BY <1>0, <1>2, <2>1 DEF CountsOK
<1> HIDE DEF Goal
<1> QED
    BY <1>3, <1>5, <1>6, <1>7, <1>8, <1>9, <1>10, <1>11, <1>12, <1>13, <1>14, <1>15, <1>16, <1>17,
       <1>18
    DEF EnNext, Works, Unpairs, World, Goal

LEMMA ServerNext ==
    ASSUME TypesOK, [EnNext]_vars
    PROVE  ServerOK'
<1>1. srv' \in [Enrollments -> Server]
    BY ServerSteps
<1>2. ASSUME NEW e \in Enrollments
      PROVE  /\ srv'[e].state = "none" <=> srv'[e].daemon = None
             /\ srv'[e].daemon # None => srv'[e].daemon <= paired'
             /\ srv'[e].state \in {"none", "pending"} => srv'[e].minted = 0
             /\ srv'[e].state \in {"redeemed", "installed", "closed"} => srv'[e].minted >= 1
    <2> DEFINE s == srv[e]
               t == srv'[e]
    <2>1. /\ s \in Server /\ t \in Server
          /\ s.state = "none" <=> s.daemon = None
          /\ s.daemon # None => s.daemon <= paired
          /\ s.state \in {"none", "pending"} => s.minted = 0
          /\ s.state \in {"redeemed", "installed", "closed"} => s.minted >= 1
        BY <1>1 DEF TypesOK, ServerOK
    <2>2. ServerStep(e, s, t)
        BY ServerSteps
    <2>3. paired <= paired' /\ paired \in Nat /\ paired' \in Nat /\ auth \in (1 .. paired) \union {None}
        BY CountsNext DEF Grows, TypesOK, CountsOK
    <2>4. s.minted \in Nat /\ t.minted \in Nat /\ (s.daemon # None => s.daemon \in Nat)
        BY <2>1, Constants DEF Server
    <2> HIDE DEF s, t
    <2>5. /\ t.state = "none" <=> t.daemon = None
          /\ t.daemon # None => t.daemon <= paired'
          /\ t.state \in {"none", "pending"} => t.minted = 0
          /\ t.state \in {"redeemed", "installed", "closed"} => t.minted >= 1
        BY <2>1, <2>2, <2>3, <2>4, Constants
        DEF ServerStep, Enrolled, ClosedNow, Minted, Answered, Drained, Same, Open
    <2> QED
        BY <2>5 DEF t
<1> QED
    BY <1>1, <1>2 DEF ServerOK

LEMMA MintsNext ==
    ASSUME TypesOK, MintsOK, [EnNext]_vars
    PROVE  MintsOK'
<1> USE DEF cloud, files, history, counts
<1> DEFINE Tried(e) == w.e = e /\ w.pc \in Installing /\ (w.pc = "ack" => w.ack = "installed")
           TriedNext(e) == /\ w'.e = e /\ w'.pc \in Installing
                           /\ w'.pc = "ack" => w'.ack = "installed"
           Over(e) == srv[e].state \notin Open \/ srv[e].daemon \in revoked
           Goal(e) == TriedNext(e) \/ Over(e) \/ srv'[e].state \notin Open
<1>0. /\ faults \in Nat /\ faults' \in Nat /\ faults <= faults' /\ revoked \subseteq revoked'
      /\ w \in Worker /\ (w.e # None => w.e \in Enrollments)
    BY CountsNext, Constants DEF Grows, TypesOK, CountsOK, WorkerOK, Worker
<1>1. ASSUME NEW e \in Enrollments, Tried(e), faults' = faults
      PROVE  Goal(e)
    <2>0. /\ srv[e].state \in {"redeemed", "closed"} /\ w.n = srv[e].minted
          /\ srv[e].daemon = w.daemon /\ w.pc \in Installing /\ w.e = e /\ ~Fault
          /\ w.pc = "ack" => w.ack = "installed"
        BY <1>0, <1>1, Constants DEF TypesOK, WorkerOK, Fault
    <2>1. ASSUME UNCHANGED w PROVE Goal(e)
        BY <1>1, <2>1
    <2>2. ASSUME \/ Lists \/ Parks \/ EndsPass \/ Discards \/ Undoes \/ UndoFails \/ RemovesEntry
                 \/ RestoresEntry \/ Confirms \/ ConfirmFails \/ Forgets
                 \/ \E f \in Enrollments : \/ Defers(f) \/ Redeems(f) \/ RedeemFails(f)
                                           \/ CleanupLooks(f) \/ CleanupUnclear(f)
          PROVE FALSE
        BY <2>0, <2>2 DEF Lists, Parks, EndsPass, Discards, Undoes, UndoFails, RemovesEntry,
                 RestoresEntry, Confirms, ConfirmFails, Forgets, Defers, Redeems, RedeemFails, Takes,
                 CleanupLooks, CleanupUnclear, Installing
    <2>3. ASSUME PrepareFails \/ JournalFails \/ WriteFails \/ VerifyFails \/ Restarts
          PROVE FALSE
        BY <2>0, <2>3 DEF PrepareFails, JournalFails, WriteFails, VerifyFails, Restarts
    <2>4. ASSUME BacksUp \/ Journals \/ Writes \/ Verifies PROVE Goal(e)
        BY <2>0, <2>4, Moves DEF Goes, WorkStays, Installing
    <2>5. CASE VerifyRefused
        <3>1. ~Alive(Credential(e, w.n))
            BY <2>0, <2>5 DEF VerifyRefused
        <3> QED
            BY <2>0, <3>1, Constants DEF Alive, Credential, Open
    <2>6. CASE AckAccepted
        <3>1. w.ack = "installed" /\ srv' = [srv EXCEPT ![e].state = "installed"] /\ w.pc = "ack"
            BY <2>0, <2>6 DEF AckAccepted, Acknowledged
        <3>2. srv'[e].state = "installed"
            BY <3>1 DEF TypesOK, ServerOK, Server
        <3> QED
            BY <3>2 DEF Open
    <2>7. CASE AckFails
        BY <2>0, <2>7 DEF AckFails
    <2>8. CASE AckClosed
        BY <2>0, <2>8 DEF AckClosed, Open
    <2>9. ASSUME NEW f \in Enrollments, WindowElapses(f) PROVE Goal(e)
        BY <1>1, <2>9, Moves DEF WorkStays
    <2>10. ASSUME \/ Unpairs \/ Pairs \/ PairFails \/ UserInstalls
                  \/ \E daemon \in Daemons : Revokes(daemon)
                  \/ \E f \in Enrollments : Enrolls(f) \/ Closes(f)
           PROVE  UNCHANGED w
        BY <2>10 DEF Unpairs, UnpairBegins, UnpairRevokes, UnpairUnconfirmed, UnpairLoads,
                     UnpairCleans, UnpairCleanFails, UnpairSaves, UnpairForgets, UnpairKilled,
                     Pairs, PairFails, UserInstalls, Revokes, Enrolls, Closes
    <2>11. ASSUME UNCHANGED vars PROVE UNCHANGED w
        BY <2>11 DEF vars
    <2> HIDE DEF Goal
    <2> QED
        BY <2>1, <2>2, <2>3, <2>4, <2>5, <2>6, <2>7, <2>8, <2>9, <2>10, <2>11
        DEF EnNext, Works, World
<1>2. ASSUME NEW e \in Enrollments
      PROVE  \/ srv'[e].minted <= faults'
             \/ /\ srv'[e].minted = faults' + 1
                /\ srv'[e].state \notin Open \/ srv'[e].daemon \in revoked' \/ TriedNext(e)
    <2> DEFINE s == srv[e]
               t == srv'[e]
    <2>1. s.minted \in Nat /\ t.minted \in Nat /\ (s.state # "none" \/ s.minted = 0)
        BY ServerSteps DEF TypesOK, ServerOK, Server
    <2>2. ServerStep(e, s, t)
        BY ServerSteps
    <2>3. /\ s.minted <= faults \/ (s.minted = faults + 1 /\ (Over(e) \/ Tried(e)))
          /\ faults' = faults /\ Tried(e) => Goal(e)
          /\ faults' # faults => faults + 1 <= faults'
        BY <1>0, <1>1 DEF MintsOK
    <2>4. CASE t = s
        BY <1>0, <2>1, <2>3, <2>4
    <2>5. CASE Enrolled(s, t)
        <3>1. srv'[e].minted = 0
            BY <2>5 DEF Enrolled
        <3>2. 0 <= faults'
            BY <1>0
        <3> QED
            BY <3>1, <3>2
    <2>6. CASE ClosedNow(s, t) \/ Answered(e, s, t) \/ Drained(e, s, t)
        <3>1. t.minted = s.minted /\ t.state \notin Open
            BY <2>6 DEF ClosedNow, Answered, Drained, Same, Open
        <3> QED
            BY <1>0, <2>1, <2>3, <3>1
    <2>7. CASE Minted(e, s, t)
        <3>1. s.minted <= faults /\ t.minted = s.minted + 1 /\ (Redeems(e) \/ Fault)
            BY <2>3, <2>7 DEF Minted, Installing
        <3>2. CASE Fault
            BY <1>0, <2>1, <3>1, <3>2 DEF Fault
        <3>3. CASE Redeems(e)
            <4>1. TriedNext(e)
                BY <3>3, Moves DEF Installing
            <4> QED
                BY <1>0, <2>1, <3>1, <4>1
        <3> QED
            BY <3>1, <3>2, <3>3
    <2> QED
        BY <2>2, <2>4, <2>5, <2>6, <2>7 DEF ServerStep
<1> QED
    BY <1>2 DEF MintsOK

\* What is known of a credential or a record stays true.
IssuedNext(credential) ==
    \/ credential.of \in Enrollments /\ credential.n \in 1 .. srv'[credential.of].minted
    \/ credential.of = User /\ credential.n \in 0 .. installs'

EntryNext(entry, e) ==
    entry = NoEntry \/ (/\ entry.daemon = srv'[e].daemon /\ entry.wrote # {}
                        /\ entry.wrote \subseteq 1 .. srv'[e].minted)

LEMMA Persist ==
    ASSUME TypesOK, [EnNext]_vars
    PROVE  /\ \A e \in Enrollments :
                /\ srv[e].minted \in Nat /\ srv'[e].minted \in Nat /\ srv[e].minted <= srv'[e].minted
                /\ srv[e].state # "none" => srv'[e].daemon = srv[e].daemon
           /\ \A credential : Issued(credential) => IssuedNext(credential)
           /\ \A e \in Enrollments : \A entry : EntryOK(entry, e) => EntryNext(entry, e)
<1>1. ASSUME NEW e \in Enrollments
      PROVE  /\ srv[e].minted \in Nat /\ srv'[e].minted \in Nat /\ srv[e].minted <= srv'[e].minted
             /\ srv[e].state # "none" => srv'[e].daemon = srv[e].daemon
    <2> DEFINE s == srv[e]
               t == srv'[e]
    <2>1. ServerStep(e, s, t)
        BY ServerSteps
    <2>2. s.minted \in Nat /\ t.minted \in Nat /\ (s.state = "none" => s.minted = 0)
        BY ServerSteps DEF TypesOK, ServerOK, Server
    <2> HIDE DEF s, t
    <2>3. s.minted <= t.minted /\ (s.state # "none" => t.daemon = s.daemon)
        BY <2>1, <2>2 DEF ServerStep, Enrolled, ClosedNow, Minted, Answered, Drained, Same
    <2> QED
        BY <2>2, <2>3 DEF s, t
<1>2. ASSUME NEW credential, Issued(credential)
      PROVE  IssuedNext(credential)
    <2>1. installs \in Nat /\ installs' \in Nat /\ installs <= installs'
        BY CountsNext DEF Grows, TypesOK, CountsOK
    <2> QED
        BY <1>1, <1>2, <2>1 DEF Issued, IssuedNext
<1>3. ASSUME NEW e \in Enrollments, NEW entry, EntryOK(entry, e)
      PROVE  EntryNext(entry, e)
    <2>1. CASE entry = NoEntry
        BY <2>1 DEF EntryNext
    <2>2. CASE entry # NoEntry
        <3>1. /\ entry.daemon = srv[e].daemon /\ entry.wrote # {}
              /\ entry.wrote \subseteq 1 .. srv[e].minted
            BY <1>3, <2>2 DEF EntryOK
        <3>2. srv[e].minted # 0
            BY <1>1, <3>1
        <3>3. srv[e].state # "none"
            BY <3>2 DEF TypesOK, ServerOK
        <3> QED
            BY <1>1, <3>1, <3>3 DEF EntryNext
    <2> QED
        BY <2>1, <2>2
<1> QED
    BY <1>1, <1>2, <1>3

\* The credential the worker is about to write is one the server has issued.
LEMMA WritesIssued ==
    ASSUME TypesOK, MintsOK, w.pc \in Installing
    PROVE  /\ w.e \in Enrollments /\ w.n \in Mints /\ w.n \in 1 .. srv[w.e].minted
           /\ Credential(w.e, w.n) \in Credentials /\ Issued(Credential(w.e, w.n))
           /\ Credential(w.e, w.n) # None
<1>1. /\ w.e \in Enrollments /\ w.n = srv[w.e].minted /\ srv[w.e].minted >= 1
      /\ srv[w.e].minted \in Nat
    BY Constants DEF TypesOK, WorkerOK, ServerOK, Server, Worker, Installing
<1>2. srv[w.e].minted <= faults + 1 /\ faults \in 0 .. MaxFaults
    BY <1>1 DEF MintsOK, TypesOK, CountsOK
<1>3. w.n \in 1 .. (MaxFaults + 1) /\ w.n \in 1 .. srv[w.e].minted
    BY <1>1, <1>2, Constants
<1>4. Credential(w.e, w.n) \in Credentials
    BY <1>1, <1>3 DEF Credential, Credentials, Mints
<1> QED
    BY <1>1, <1>3, <1>4, Constants DEF Credential, Issued, Mints

LEMMA NoEntryType == NoEntry \in Entries
BY DEF NoEntry, Entries

LEMMA FilesNext ==
    ASSUME TypesOK, MintsOK, [EnNext]_vars
    PROVE  FilesOK'
<1> USE DEF cloud, files, history, counts
<1> DEFINE File(file) == file # None => file \in Credentials /\ Issued(file)
           FileNext(file) == file # None => file \in Credentials /\ IssuedNext(file)
<1>0. /\ File(profile) /\ File(backup) /\ registry \in Everything \union {None} /\ bot' = bot
      /\ ~bot => registry = None
      /\ journal \in [Enrollments -> Entries] /\ \A e \in Enrollments : EntryOK(journal[e], e)
    BY CountsNext DEF TypesOK, FilesOK, Grows
<1>a. \A file : File(file) => FileNext(file)
    BY Persist
<1>b. File(None)
    OBVIOUS
<1>c. File(Torn)
    <2>1. MaxInstalls \in Nat /\ installs \in Nat
        BY Constants DEF TypesOK, CountsOK
    <2> QED
        BY <2>1 DEF Torn, Credential, Credentials, Issued
<1>1. ASSUME profile' \in {profile, backup, None}, backup' \in {profile, backup, None, Torn},
             registry' \in {registry, None}, UNCHANGED journal
      PROVE  FilesOK'
    <2>1. FileNext(profile')
        BY <1>0, <1>1, <1>a, <1>b
    <2>2. FileNext(backup')
        BY <1>0, <1>1, <1>a, <1>b, <1>c
    <2>3. \A e \in Enrollments : EntryNext(journal[e], e)
        BY <1>0, Persist
    <2> QED
        BY <1>0, <1>1, <2>1, <2>2, <2>3 DEF FilesOK, Issued, IssuedNext, EntryOK, EntryNext
<1>2. ASSUME UNCHANGED <<profile, backup, registry>>, journal' \in [Enrollments -> Entries],
             \A e \in Enrollments : EntryOK(journal'[e], e)
      PROVE  FilesOK'
    <2>1. FileNext(profile) /\ FileNext(backup)
        BY <1>0, <1>a
    <2>2. \A e \in Enrollments : EntryNext(journal'[e], e)
        BY <1>2, Persist
    <2> QED
        BY <1>0, <1>2, <2>1, <2>2 DEF FilesOK, Issued, IssuedNext, EntryOK, EntryNext
<1>3. ASSUME NEW credential \in Credentials, IssuedNext(credential), profile' = credential,
             NEW of \in Everything, registry' = IF bot THEN of ELSE registry,
             UNCHANGED <<backup, journal>>
      PROVE  FilesOK'
    <2>1. FileNext(profile') /\ FileNext(backup)
        BY <1>0, <1>3, <1>a
    <2>2. \A e \in Enrollments : EntryNext(journal[e], e)
        BY <1>0, Persist
    <2> QED
        BY <1>0, <1>3, <2>1, <2>2 DEF FilesOK, Issued, IssuedNext, EntryOK, EntryNext
<1>4. ASSUME NEW of \in Everything \union {None}, registry' = of, bot,
             UNCHANGED <<profile, journal>>, backup' \in {backup, Torn}
      PROVE  FilesOK'
    <2>1. FileNext(profile) /\ FileNext(backup')
        BY <1>0, <1>4, <1>a, <1>c
    <2>2. \A e \in Enrollments : EntryNext(journal[e], e)
        BY <1>0, Persist
    <2> QED
        BY <1>0, <1>4, <2>1, <2>2 DEF FilesOK, Issued, IssuedNext, EntryOK, EntryNext
<1>5. CASE Writes
    <2>1. w.pc \in Installing
        BY <1>5 DEF Writes, Installing
    <2>2. w.e \in Everything
        BY <2>1, WritesIssued DEF Everything
    <2>3. IssuedNext(Credential(w.e, w.n))
        BY <2>1, WritesIssued, Persist
    <2> QED
        BY <1>3, <1>5, <2>1, <2>2, <2>3, WritesIssued DEF Writes
<1>6. CASE UserInstalls
    <2>1. installs' = installs + 1 /\ installs + 1 \in 1 .. MaxInstalls
        BY <1>6, Constants DEF UserInstalls, TypesOK, CountsOK
    <2>2. Credential(User, installs + 1) \in Credentials /\ IssuedNext(Credential(User, installs + 1))
        BY <2>1 DEF Credentials, Credential, IssuedNext
    <2>3. User \in Everything
        BY DEF Everything
    <2> QED
        BY <1>3, <1>6, <2>2, <2>3 DEF UserInstalls
<1>7. CASE Journals
    <2>1. w.pc \in Installing /\ w.pc = "journal"
        BY <1>7 DEF Journals, Installing
    <2>2. /\ w.e \in Enrollments /\ w.n \in 1 .. srv[w.e].minted /\ w.n \in Nat
          /\ w.daemon \in Daemons /\ srv[w.e].daemon = w.daemon
        BY <2>1, WritesIssued, Constants DEF TypesOK, WorkerOK, CountsOK, Daemons, Mints
    <2>3. /\ journal[w.e].wrote \subseteq 1 .. srv[w.e].minted /\ journal[w.e].wrote \subseteq Nat
          /\ journal[w.e].prev \in Everything \union {None}
        BY <1>0, <2>2 DEF EntryOK, NoEntry, Entries
    <2> DEFINE prev == IF w.prev = None THEN journal[w.e].prev ELSE w.prev
               wrote == journal[w.e].wrote \union {w.n}
    <2>4. prev \in Everything \union {None} /\ wrote \in SUBSET Nat /\ wrote # {}
          /\ wrote \subseteq 1 .. srv[w.e].minted
        BY <2>2, <2>3 DEF TypesOK, WorkerOK, Worker
    <2>5. Recorded(w.e) = [daemon |-> w.daemon, wrote |-> wrote, prev |-> prev]
        BY DEF Recorded
    <2> HIDE DEF prev, wrote
    <2>6. Recorded(w.e) \in Entries /\ EntryOK(Recorded(w.e), w.e)
        BY <2>2, <2>4, <2>5 DEF Entries, EntryOK
    <2>7. journal' = [journal EXCEPT ![w.e] = Recorded(w.e)] /\ UNCHANGED <<profile, backup, registry>>
        BY <1>7 DEF Journals
    <2>8. journal' \in [Enrollments -> Entries] /\ \A e \in Enrollments : EntryOK(journal'[e], e)
        BY <1>0, <2>6, <2>7
    <2> QED
        BY <1>2, <2>7, <2>8
<1>8. CASE Forgets
    <2>1. EntryOK(NoEntry, w.e)
        BY DEF EntryOK
    <2>2. journal' = journal \/ journal' = [journal EXCEPT ![w.e] = NoEntry]
        BY <1>8 DEF Forgets
    <2>3. UNCHANGED <<profile, backup, registry>>
        BY <1>8 DEF Forgets
    <2>4. journal' \in [Enrollments -> Entries] /\ \A e \in Enrollments : EntryOK(journal'[e], e)
        BY <1>0, <2>1, <2>2, NoEntryType
    <2> QED
        BY <1>2, <2>3, <2>4
<1>9. CASE UnpairSaves
    <2>1. u.read \in [Enrollments -> Entries] /\ \A e \in Enrollments : EntryOK(u.read[e], e)
        BY DEF TypesOK, UnpairOK, Unpair
    <2>2. \/ journal' = journal
          \/ journal' = [e \in Enrollments |-> IF e \in OfDaemon \ u.failed THEN NoEntry ELSE u.read[e]]
        BY <1>9 DEF UnpairSaves
    <2>3. UNCHANGED <<profile, backup, registry>>
        BY <1>9 DEF UnpairSaves
    <2>4. journal' \in [Enrollments -> Entries]
        BY <1>0, <2>1, <2>2, NoEntryType
    <2>5. \A e \in Enrollments : EntryOK(journal'[e], e)
        <3> SUFFICES ASSUME NEW e \in Enrollments PROVE EntryOK(journal'[e], e)
            OBVIOUS
        <3>1. journal'[e] \in {journal[e], NoEntry, u.read[e]}
            BY <2>2
        <3> QED
            BY <1>0, <2>1, <3>1 DEF EntryOK
    <2> QED
        BY <1>2, <2>3, <2>4, <2>5
<1>10. CASE RestoresEntry
    <2>1. bot /\ w.e \in Enrollments
        BY <1>10, Constants DEF RestoresEntry, TypesOK, WorkerOK, Worker
    <2>2. journal[w.e].prev \in Everything \union {None}
        BY <1>0, <2>1 DEF Entries
    <2>3. registry' \in Everything \union {None} /\ UNCHANGED <<profile, backup, journal>>
        BY <1>0, <1>10, <2>2 DEF RestoresEntry
    <2> QED
        BY <1>4, <2>1, <2>3
<1>11. CASE Restarts
    <2>1. w.pc = "write" => w.e \in Everything
        BY Constants DEF TypesOK, WorkerOK, Worker, Everything
    <2>2. /\ UNCHANGED <<profile, journal>> /\ backup' \in {backup, Torn}
          /\ registry' = registry \/ (bot /\ registry' \in Everything)
        BY <1>11, <2>1 DEF Restarts, BackupTears
    <2> QED
        BY <1>1, <1>4, <2>2
<1>12. ASSUME \/ BacksUp \/ PrepareFails \/ Discards \/ Undoes \/ RemovesEntry
              \/ \E e \in Enrollments : UnpairCleans(e) \/ UnpairCleanFails(e)
       PROVE  FilesOK'
    BY <1>1, <1>12 DEF BacksUp, PrepareFails, BackupTears, Discards, Undoes, RemovesEntry, UnpairCleans, UnpairCleanFails,
                       RestoresOrRemoves
<1>13. ASSUME \/ Lists \/ Parks \/ EndsPass \/ JournalFails \/ WriteFails
              \/ Verifies \/ VerifyRefused \/ VerifyFails \/ AckAccepted \/ AckFails \/ AckClosed
              \/ UndoFails \/ Confirms \/ ConfirmFails
              \/ \E e \in Enrollments : \/ Defers(e) \/ Redeems(e) \/ RedeemFails(e) \/ CleanupLooks(e)
                                        \/ CleanupUnclear(e) \/ WindowElapses(e)
       PROVE  UNCHANGED <<profile, backup, registry, journal>>
    BY <1>13 DEF Lists, Parks, EndsPass, JournalFails, WriteFails, Verifies,
                 VerifyRefused, VerifyFails, AckAccepted, AckFails, AckClosed, UndoFails, Confirms,
                 ConfirmFails, Defers, Redeems, RedeemFails, CleanupLooks, CleanupUnclear,
                 WindowElapses, WorkerOnly
<1>14. ASSUME \/ UnpairBegins \/ UnpairRevokes \/ UnpairUnconfirmed \/ UnpairLoads \/ UnpairForgets
              \/ UnpairKilled \/ Pairs \/ PairFails
              \/ \E e \in Enrollments : Enrolls(e) \/ Closes(e)
              \/ \E daemon \in Daemons : Revokes(daemon)
       PROVE  UNCHANGED <<profile, backup, registry, journal>>
    BY <1>14 DEF UnpairBegins, UnpairRevokes, UnpairUnconfirmed, UnpairLoads, UnpairForgets,
                 UnpairKilled, Pairs, PairFails, Enrolls, Closes, Revokes
<1>15. CASE UNCHANGED vars
    BY <1>1, <1>15 DEF vars
<1>16. ASSUME UNCHANGED <<profile, backup, registry, journal>>
       PROVE  FilesOK'
    BY <1>1, <1>16
<1> QED
    BY <1>5, <1>6, <1>7, <1>8, <1>9, <1>10, <1>11, <1>12, <1>13, <1>14, <1>15, <1>16
    DEF EnNext, Works, Unpairs, World

\* What the worker knows of its list stays true, and of the enrollment it is at.
LEMMA ListsNext ==
    ASSUME TypesOK, [EnNext]_vars,
           w'.items \subseteq w.items, w'.cleanups \subseteq w.cleanups, w'.daemon = w.daemon
    PROVE  /\ \A e \in w'.items : srv'[e].state # "none" /\ srv'[e].state # "installed"
                                    /\ srv'[e].daemon = w'.daemon
           /\ \A e \in w'.cleanups : srv'[e].state = "closed" /\ srv'[e].daemon = w'.daemon
<1>0. w.items \union w.cleanups \subseteq Enrollments
    BY DEF TypesOK, WorkerOK, Worker
<1>1. ASSUME NEW e \in w.items \union w.cleanups
      PROVE  /\ srv'[e].daemon = srv[e].daemon
             /\ srv[e].state = "closed" => srv'[e].state = "closed"
             /\ srv'[e].state # "none" /\ srv'[e].state # "installed"
    <2> DEFINE s == srv[e]
               t == srv'[e]
    <2>1. ServerStep(e, s, t)
        BY <1>0, ServerSteps
    <2>2. w.e # e /\ s.state # "none" /\ s.state # "installed"
        BY <1>0, Constants DEF TypesOK, WorkerOK
    <2> HIDE DEF s, t
    <2>3. /\ t.daemon = s.daemon /\ t.state # "none" /\ t.state # "installed"
          /\ s.state = "closed" => t.state = "closed"
        BY <2>1, <2>2 DEF ServerStep, Enrolled, ClosedNow, Minted, Answered, Drained, Same, Open
    <2> QED
        BY <2>3 DEF s, t
<1>2. /\ \A e \in w.items : srv[e].daemon = w.daemon
      /\ \A e \in w.cleanups : srv[e].state = "closed" /\ srv[e].daemon = w.daemon
    BY DEF TypesOK, WorkerOK
<1> QED
    BY <1>1, <1>2

Answering == AckAccepted \/ AckFails \/ Confirms \/ ConfirmFails

LEMMA HereNext ==
    ASSUME TypesOK, [EnNext]_vars, w.e # None, ~Answering
    PROVE  /\ w.e \in Enrollments
           /\ srv'[w.e].daemon = srv[w.e].daemon /\ srv'[w.e].minted = srv[w.e].minted
           /\ srv[w.e].state \in {"closed", "installed", "gone"} => srv'[w.e].state = srv[w.e].state
           /\ srv[w.e].state = "redeemed" => srv'[w.e].state \in {"redeemed", "closed"}
           /\ srv[w.e].state \in {"closed", "installed", "gone", "redeemed"}
<1>1. w.e \in Enrollments /\ w.pc # "next" /\ srv[w.e].state \in {"closed", "installed", "gone", "redeemed"}
    BY DEF TypesOK, WorkerOK, Worker, Places, Installing, Undoing
<1> DEFINE s == srv[w.e]
           t == srv'[w.e]
<1>2. ServerStep(w.e, s, t)
    BY <1>1, ServerSteps
<1>3. s.state \in {"closed", "installed", "gone", "redeemed"}
    BY <1>1
<1> HIDE DEF s, t
<1>4. /\ t.daemon = s.daemon /\ t.minted = s.minted
      /\ s.state \in {"closed", "installed", "gone"} => t.state = s.state
      /\ s.state = "redeemed" => t.state \in {"redeemed", "closed"}
    BY <1>1, <1>2, <1>3
    DEF ServerStep, Enrolled, ClosedNow, Minted, Answered, Drained, Same, Open, Answering
<1> QED
    BY <1>1, <1>4 DEF s, t

\* The actions that are not the worker's leave its memory alone.
LEMMA NotTheWorker ==
    \/ Unpairs \/ Pairs \/ PairFails \/ UserInstalls \/ UNCHANGED vars
    \/ \E daemon \in Daemons : Revokes(daemon)
    \/ \E f \in Enrollments : Enrolls(f) \/ Closes(f)
    => UNCHANGED w
BY DEF Unpairs, UnpairBegins, UnpairRevokes, UnpairUnconfirmed, UnpairLoads,
       UnpairCleans, UnpairCleanFails, UnpairSaves, UnpairForgets, UnpairKilled,
       Pairs, PairFails, UserInstalls, Revokes, Enrolls, Closes, vars

LEMMA WorkerNext ==
    ASSUME TypesOK, [EnNext]_vars
    PROVE  WorkerOK'
<1> USE Constants
<1>0. /\ w \in Worker
      /\ w.pc \in {"idle", "next"} <=> w.e = None
      /\ w.pc = "idle" => w.daemon = None /\ w.items = {} /\ w.cleanups = {} /\ ~w.retry
      /\ w.pc # "idle" => w.daemon \in 1 .. paired
      /\ w.pc = "ack" => w.ack \in {"installed", "failed", "invalid"}
      /\ w.e # None => srv[w.e].daemon = w.daemon /\ w.e \notin w.items \union w.cleanups
      /\ w.pc \in Installing => srv[w.e].state \in {"redeemed", "closed"} /\ w.n = srv[w.e].minted
      /\ w.pc \in {"removeEntry", "restoreEntry"} => bot
      /\ w.pc = "discard" => srv[w.e].state = "installed"
      /\ w.pc \in Undoing => srv[w.e].state = "closed"
      /\ w.pc = "forget" => srv[w.e].state = "gone"
    BY DEF TypesOK, WorkerOK
<1>1. bot' = bot /\ \A daemon \in 1 .. paired : daemon \in 1 .. paired'
    BY CountsNext DEF Grows, TypesOK, CountsOK
<1> DEFINE ListNext == /\ \A e \in w'.items : srv'[e].state # "none" /\ srv'[e].state # "installed"
                                                /\ srv'[e].daemon = w'.daemon
                       /\ \A e \in w'.cleanups : srv'[e].state = "closed" /\ srv'[e].daemon = w'.daemon
           Fewer == w'.items \subseteq w.items /\ w'.cleanups \subseteq w.cleanups /\ w'.daemon = w.daemon
<1>2. Fewer => ListNext
    BY ListsNext
<1> HIDE DEF ListNext
<1>3. ASSUME w' \in Worker, w'.pc = "next", w'.e = None, w.pc # "idle", Fewer
      PROVE  WorkerOK'
    BY <1>0, <1>1, <1>2, <1>3 DEF WorkerOK, ListNext, Installing, Undoing
<1>4. ASSUME w' \in Worker, w'.e = w.e, w.e # None, Fewer, ~Answering,
             w'.pc \notin {"idle", "next"}, w'.pc = "ack" => w'.ack \in {"installed", "failed", "invalid"},
             w'.n = w.n,
             w'.pc \in Installing => w.pc \in Installing,
             w'.pc \in Undoing => srv[w.e].state = "closed",
             w'.pc \in {"removeEntry", "restoreEntry"} => bot,
             w'.pc = "discard" => srv[w.e].state = "installed",
             w'.pc = "forget" => srv[w.e].state = "gone"
      PROVE  WorkerOK'
    <2>1. /\ srv'[w'.e].daemon = srv[w.e].daemon /\ srv'[w'.e].minted = srv[w.e].minted
          /\ srv[w.e].state \in {"closed", "installed", "gone"} => srv'[w'.e].state = srv[w.e].state
          /\ srv[w.e].state = "redeemed" => srv'[w'.e].state \in {"redeemed", "closed"}
        BY <1>4, HereNext
    <2>2. w.daemon \in 1 .. paired
        BY <1>0, <1>4
    <2> QED
        BY <1>0, <1>1, <1>2, <1>4, <2>1, <2>2 DEF WorkerOK, ListNext
<1>5. ASSUME UNCHANGED w \/ \E e \in Enrollments : WindowElapses(e), ~Answering
      PROVE  WorkerOK'
    <2>1. w' \in Worker /\ w'.pc = w.pc /\ WorkStays /\ PassStays
        BY <1>0, <1>5, Moves DEF WorkStays, PassStays
    <2>2. Fewer
        BY <2>1 DEF PassStays
    <2>3. CASE w.e # None
        BY <1>0, <1>4, <1>5, <2>1, <2>2, <2>3 DEF WorkStays
    <2>4. CASE w.e = None
        BY <1>0, <1>1, <1>2, <2>1, <2>2, <2>4 DEF WorkerOK, ListNext, WorkStays, PassStays, Installing, Undoing
    <2> QED
        BY <2>3, <2>4
<1>6. CASE Lists
    <2>1. /\ w' \in Worker /\ w'.pc = "next" /\ w'.daemon = auth /\ w'.e = w.e
          /\ w'.items = {e \in Listed(auth) : srv[e].state \in Open}
          /\ w'.cleanups = {e \in Listed(auth) : srv[e].state = "closed"}
        BY <1>6, Moves DEF WorkStays
    <2>2. srv' = srv /\ w.e = None /\ auth \in 1 .. paired
        BY <1>0, <1>6 DEF Lists, WorkerOnly, cloud, TypesOK, CountsOK
    <2>3. ListNext
        BY <2>1, <2>2 DEF ListNext, Listed, Open
    <2> QED
        BY <1>1, <2>1, <2>2, <2>3 DEF WorkerOK, ListNext, Installing, Undoing
<1>7. CASE Parks \/ Restarts
    <2>1. w' = Rested
        BY <1>7, Moves
    <2> QED
        BY <2>1, RestedType DEF WorkerOK, Rested, Installing, Undoing
<1>8. CASE EndsPass
    <2>1. /\ w' \in Worker /\ w'.pc = "idle" /\ w'.daemon = None /\ w'.retry = FALSE
          /\ w'.items = {} /\ w'.cleanups = {} /\ w'.e = None
        BY <1>0, <1>8, Moves DEF WorkStays, EndsPass
    <2> QED
        BY <2>1 DEF WorkerOK, Installing, Undoing
<1>9. ASSUME NEW e \in Enrollments, Defers(e) \/ RedeemFails(e) \/ CleanupUnclear(e)
      PROVE  WorkerOK'
    <2>1. Shortens(e) /\ w.pc = "next"
        BY <1>9, Moves DEF Defers, RedeemFails, CleanupUnclear, Takes
    <2> QED
        BY <1>0, <1>3, <2>1 DEF Shortens, WorkStays
<1>10. ASSUME NEW e \in Enrollments, Redeems(e)
       PROVE  WorkerOK'
    <2>1. /\ w' \in Worker /\ w'.pc = "prepare" /\ w'.e = e /\ w'.n = srv[e].minted + 1
          /\ w'.items = w.items \ {e} /\ w'.cleanups = w.cleanups /\ w'.daemon = w.daemon
        BY <1>10, Moves
    <2>2. e \in w.items /\ w.pc = "next" /\ srv' = Redeemed(e) /\ srv[e].state \in Open
        BY <1>10 DEF Redeems, Takes, Redeemable
    <2>3. /\ srv[e].daemon = w.daemon /\ e \notin w.cleanups
          /\ srv \in [Enrollments -> Server]
        BY <2>2 DEF TypesOK, WorkerOK, Open, ServerOK
    <2>4. /\ srv'[e].state = "redeemed" /\ srv'[e].minted = srv[e].minted + 1
          /\ srv'[e].daemon = w.daemon
        BY <2>2, <2>3 DEF Redeemed, Server
    <2>5. Fewer
        BY <2>1
    <2> QED
        BY <1>0, <1>1, <1>2, <2>1, <2>2, <2>3, <2>4, <2>5 DEF WorkerOK, ListNext, Undoing
<1>11. ASSUME NEW e \in Enrollments, CleanupLooks(e)
       PROVE  WorkerOK'
    <2>1. /\ w' \in Worker /\ w'.e = e /\ w'.pc \in {"undo", "confirm"}
          /\ w'.items = w.items /\ w'.cleanups = w.cleanups \ {e} /\ w'.daemon = w.daemon
        BY <1>11, Moves
    <2>2. e \in w.cleanups /\ w.pc = "next" /\ srv' = srv /\ w.items = {}
        BY <1>11 DEF CleanupLooks, cloud
    <2>3. srv[e].daemon = w.daemon /\ srv[e].state = "closed"
        BY <2>2 DEF TypesOK, WorkerOK
    <2>4. Fewer
        BY <2>1
    <2> QED
        BY <1>0, <1>1, <1>2, <2>1, <2>2, <2>3, <2>4 DEF WorkerOK, ListNext, Installing
<1>12. ASSUME BacksUp \/ Journals \/ JournalFails \/ Writes, ~Answering
       PROVE  WorkerOK'
    <2>1. /\ w' \in Worker /\ PassStays /\ UNCHANGED <<w.e, w.n>>
          /\ w'.pc \in {"journal", "write", "verify"}
        BY <1>12, Moves DEF Goes, WorkStays
    <2>2. w.pc \in Installing
        BY <1>12 DEF BacksUp, Journals, JournalFails, Writes, Installing
    <2>3. Fewer /\ w.e # None
        BY <1>0, <2>1, <2>2 DEF PassStays, Installing
    <2> QED
        BY <1>4, <1>12, <2>1, <2>2, <2>3 DEF Undoing
<1>13. ASSUME PrepareFails \/ WriteFails \/ Verifies \/ VerifyFails, ~Answering
       PROVE  WorkerOK'
    <2>1. /\ w' \in Worker /\ PassStays /\ UNCHANGED <<w.e, w.n>>
          /\ w'.pc = "ack" /\ w'.ack \in {"failed", "invalid", "installed"}
        BY <1>13, Moves
    <2>2. w.pc \in Installing
        BY <1>13 DEF PrepareFails, WriteFails, Verifies, VerifyFails, Installing
    <2>3. Fewer /\ w.e # None
        BY <1>0, <2>1, <2>2 DEF PassStays, Installing
    <2> QED
        BY <1>4, <1>13, <2>1, <2>2, <2>3 DEF Undoing
<1>14. ASSUME AckAccepted
       PROVE  WorkerOK'
    <2>1. w.pc = "ack" /\ w.e # None
        BY <1>0, <1>14 DEF AckAccepted
    <2>2. CASE w.ack # "installed"
        BY <1>3, <1>14, <2>1, <2>2, Moves DEF Drops
    <2>3. CASE w.ack = "installed"
        <3>1. w' \in Worker /\ w'.pc = "discard" /\ w'.e = w.e /\ Fewer
            BY <1>14, <2>3, Moves DEF Goes, WorkStays, PassStays
        <3>2. /\ srv' = [srv EXCEPT ![w.e].state = "installed"] /\ w.e \in Enrollments
              /\ srv \in [Enrollments -> Server]
            BY <1>0, <1>14, <2>1, <2>3 DEF AckAccepted, Acknowledged, TypesOK, ServerOK, Worker
        <3>3. srv'[w.e].state = "installed" /\ srv'[w.e].daemon = srv[w.e].daemon
            BY <3>2 DEF Server
        <3> QED
            BY <1>0, <1>1, <1>2, <2>1, <3>1, <3>3 DEF WorkerOK, ListNext, Installing, Undoing
    <2> QED
        BY <2>2, <2>3
<1>15. ASSUME VerifyRefused \/ AckFails \/ Discards \/ Forgets \/ UndoFails \/ ConfirmFails
       PROVE  WorkerOK'
    <2>1. w.pc \notin {"idle", "next"}
        BY <1>15 DEF VerifyRefused, AckFails, Discards, Forgets, UndoFails, ConfirmFails
    <2>2. w' \in Worker /\ w'.pc = "next" /\ w'.e = None /\ Fewer
        BY <1>15, Moves DEF Drops
    <2> QED
        BY <1>3, <2>1, <2>2
<1>16. ASSUME AckClosed, ~Answering
       PROVE  WorkerOK'
    <2>1. w.pc = "ack" /\ w.e # None /\ srv[w.e].state = "closed"
        BY <1>0, <1>16 DEF AckClosed
    <2>2. w' \in Worker /\ WorkStays /\ w'.pc \in {"undo", "confirm"} /\ Fewer
        BY <1>16, Moves
    <2> QED
        BY <1>4, <1>16, <2>1, <2>2 DEF WorkStays, Installing
<1>17. ASSUME Undoes \/ RemovesEntry \/ RestoresEntry, ~Answering
       PROVE  WorkerOK'
    <2>1. w.pc \in Undoing /\ w.e # None
        BY <1>0, <1>17 DEF Undoes, RemovesEntry, RestoresEntry, Undoing
    <2>2. /\ w' \in Worker /\ WorkStays /\ Fewer
          /\ \/ w'.pc = "confirm"
             \/ bot /\ w'.pc \in {"removeEntry", "restoreEntry"}
        BY <1>17, Moves DEF Goes, PassStays, TypesOK, CountsOK
    <2> QED
        BY <1>0, <1>4, <1>17, <2>1, <2>2 DEF WorkStays, Installing
<1>18. ASSUME Confirms
       PROVE  WorkerOK'
    <2>1. w.pc = "confirm" /\ w.e \in Enrollments /\ w.e # None
        BY <1>0, <1>18 DEF Confirms, Worker
    <2>2. w' \in Worker /\ w'.pc = "forget" /\ w'.e = w.e /\ Fewer
        BY <1>18, Moves DEF Goes, WorkStays, PassStays
    <2>3. srv' = [srv EXCEPT ![w.e].state = "gone"] /\ srv \in [Enrollments -> Server]
        BY <1>18 DEF Confirms, Confirmed, TypesOK, ServerOK
    <2>4. srv'[w.e].state = "gone" /\ srv'[w.e].daemon = srv[w.e].daemon
        BY <2>1, <2>3 DEF Server
    <2> QED
        BY <1>0, <1>1, <1>2, <2>1, <2>2, <2>4 DEF WorkerOK, ListNext, Installing, Undoing
<1> HIDE DEF Fewer
<1>19. CASE Answering
    BY <1>14, <1>15, <1>18, <1>19 DEF Answering
<1>20. CASE ~Answering
    BY <1>5, <1>6, <1>7, <1>8, <1>9, <1>10, <1>11, <1>12, <1>13, <1>15, <1>16, <1>17, <1>20,
       NotTheWorker DEF EnNext, Works, World, Answering
<1> QED
    BY <1>19, <1>20

LEMMA UnpairNext ==
    ASSUME TypesOK, [EnNext]_vars
    PROVE  UnpairOK'
<1> USE Constants DEF cloud, files, history, counts
<1>0. /\ u \in Unpair
      /\ u.pc \in {"revoke", "load", "clean"} => u.daemon \in 1 .. paired
      /\ u.pc \in {"load", "clean"} => u.daemon \in revoked
      /\ \A e \in Enrollments : EntryOK(u.read[e], e)
      /\ u.cleaned \union u.failed \subseteq OfDaemon
      /\ u.pc # "clean" => u.cleaned = {} /\ u.failed = {}
    BY DEF TypesOK, UnpairOK
<1>1. /\ \A daemon \in 1 .. paired : daemon \in 1 .. paired'
      /\ revoked \subseteq revoked'
    BY CountsNext DEF Grows, TypesOK, CountsOK
<1>2. \A e \in Enrollments : \A entry : EntryOK(entry, e) => EntryNext(entry, e)
    BY Persist
<1>3. ASSUME u' \in Unpair, u'.read = u.read \/ u'.read = NoUnpair.read,
             u'.daemon = u.daemon \/ OfDaemon' = {},
             u'.pc \in {"revoke", "load", "clean"} => u'.daemon \in 1 .. paired,
             u'.pc \in {"load", "clean"} => u'.daemon \in revoked',
             u'.cleaned \union u'.failed \subseteq OfDaemon',
             u'.pc # "clean" => u'.cleaned = {} /\ u'.failed = {}
      PROVE  UnpairOK'
    <2>1. \A e \in Enrollments : EntryNext(u'.read[e], e)
        <3>1. CASE u'.read = u.read
            BY <1>0, <1>2, <3>1
        <3>2. CASE u'.read = NoUnpair.read
            BY <3>2 DEF NoUnpair, EntryNext
        <3> QED
            BY <1>3, <3>1, <3>2
    <2> QED
        BY <1>1, <1>3, <2>1 DEF UnpairOK, EntryOK, EntryNext
<1>4. NoUnpair \in Unpair /\ [NoUnpair EXCEPT !.pc = "forget"] \in Unpair
    <2>1. [e \in Enrollments |-> NoEntry] \in [Enrollments -> Entries]
        BY NoEntryType
    <2> QED
        BY <2>1 DEF NoUnpair, Unpair
<1>5. ASSUME u' = NoUnpair \/ u' = [NoUnpair EXCEPT !.pc = "forget"]
      PROVE  UnpairOK'
    <2>1. /\ u' \in Unpair /\ u'.read = NoUnpair.read /\ u'.pc \in {"none", "forget"}
          /\ u'.cleaned = {} /\ u'.failed = {}
        <3>1. CASE u' = NoUnpair
            BY <1>4, <3>1 DEF NoUnpair
        <3>2. CASE u' = [NoUnpair EXCEPT !.pc = "forget"]
            BY <1>4, <3>2 DEF NoUnpair
        <3> QED
            BY <1>5, <3>1, <3>2
    <2>2. OfDaemon' = {}
        BY <2>1 DEF OfDaemon, NoUnpair
    <2> QED
        BY <1>3, <2>1, <2>2
<1>6. ASSUME UNCHANGED u
      PROVE  UnpairOK'
    <2>1. OfDaemon' = OfDaemon
        BY <1>6 DEF OfDaemon
    <2> QED
        BY <1>0, <1>1, <1>3, <1>6, <2>1
<1>7. CASE UnpairBegins
    <2>1. auth \in 1 .. paired /\ u' = [u EXCEPT !.pc = "revoke", !.daemon = auth] /\ u.pc = "none"
        BY <1>7 DEF UnpairBegins, TypesOK, CountsOK
    <2>2. auth \in Daemons
        BY <1>7 DEF UnpairBegins, TypesOK, CountsOK, Daemons
    <2>3. /\ u' \in Unpair /\ u'.pc = "revoke" /\ u'.daemon = auth /\ u'.read = u.read
          /\ u'.cleaned = {} /\ u'.failed = {}
        BY <1>0, <2>1, <2>2 DEF Unpair
    <2>4. \A e \in Enrollments : EntryNext(u'.read[e], e)
        BY <1>0, <1>2, <2>3
    <2> QED
        BY <1>1, <2>1, <2>3, <2>4 DEF UnpairOK, EntryOK, EntryNext
<1>8. CASE UnpairRevokes
    <2>1. /\ u.pc = "revoke" /\ u' = [u EXCEPT !.pc = "load"]
          /\ revoked' = revoked \union {u.daemon}
        BY <1>8 DEF UnpairRevokes
    <2>2. /\ u' \in Unpair /\ u'.pc = "load" /\ u'.daemon = u.daemon /\ u'.read = u.read
          /\ u'.cleaned = {} /\ u'.failed = {}
        BY <1>0, <2>1 DEF Unpair
    <2> QED
        BY <1>0, <1>3, <2>1, <2>2
<1>9. CASE UnpairLoads
    <2>1. CASE u' = [u EXCEPT !.pc = "clean", !.read = journal]
        <3>1. u.pc = "load" /\ journal \in [Enrollments -> Entries]
            BY <1>9 DEF UnpairLoads, TypesOK, FilesOK
        <3>2. /\ u' \in Unpair /\ u'.pc = "clean" /\ u'.read = journal /\ u'.daemon = u.daemon
              /\ u'.cleaned = {} /\ u'.failed = {}
            BY <1>0, <2>1, <3>1 DEF Unpair
        <3>3. \A e \in Enrollments : EntryNext(journal[e], e)
            BY <1>2 DEF TypesOK, FilesOK
        <3> QED
            BY <1>0, <1>1, <3>1, <3>2, <3>3 DEF UnpairOK, EntryOK, EntryNext
    <2> QED
        BY <1>5, <1>9, <2>1 DEF UnpairLoads
<1>10. ASSUME NEW e \in Enrollments, UnpairCleans(e) \/ UnpairCleanFails(e)
       PROVE  UnpairOK'
    <2>1. /\ u.pc = "clean" /\ e \in OfDaemon
          /\ u' = [u EXCEPT !.cleaned = @ \union {e}] \/ u' = [u EXCEPT !.failed = @ \union {e}]
        BY <1>10 DEF UnpairCleans, UnpairCleanFails, ToClean
    <2>2. /\ u' \in Unpair /\ u'.pc = "clean" /\ u'.daemon = u.daemon /\ u'.read = u.read
          /\ u'.cleaned \union u'.failed \subseteq OfDaemon
        BY <1>0, <2>1 DEF Unpair
    <2>3. OfDaemon' = OfDaemon
        BY <2>2 DEF OfDaemon
    <2> QED
        BY <1>0, <1>1, <1>3, <2>1, <2>2, <2>3
<1>11. CASE UnpairUnconfirmed \/ UnpairSaves \/ UnpairForgets \/ UnpairKilled
    BY <1>5, <1>11 DEF UnpairUnconfirmed, UnpairSaves, UnpairForgets, UnpairKilled
<1>12. CASE World \/ UNCHANGED vars
    BY <1>6, <1>12 DEF World, Pairs, PairFails, UserInstalls, Restarts, Enrolls, Closes,
                       WindowElapses, Revokes, WorkerOnly, vars
<1>13. CASE Works
    <2>1. UNCHANGED u
        BY <1>13 DEF Works, Lists, Parks, EndsPass, Defers, Redeems, RedeemFails, CleanupLooks,
                     CleanupUnclear, BacksUp, PrepareFails, Journals, JournalFails, Writes,
                     WriteFails, Verifies, VerifyRefused, VerifyFails, AckAccepted, AckFails,
                     AckClosed, Discards, Undoes, UndoFails, RemovesEntry, RestoresEntry, Confirms,
                     ConfirmFails, Forgets, WorkerOnly
    <2> QED
        BY <1>6, <2>1
<1> QED
    BY <1>7, <1>8, <1>9, <1>10, <1>11, <1>12, <1>13 DEF EnNext, Unpairs

LEMMA TypesNext ==
    ASSUME TypesOK, MintsOK, [EnNext]_vars
    PROVE  TypesOK'
BY CountsNext, ServerNext, FilesNext, WorkerNext, UnpairNext DEF TypesOK

-----------------------------------------------------------------------------
(* What a step changes.                                                     *)

\* An unpair at the entry of an enrollment, or the worker undoing one.
CleansUp(e) == UnpairCleans(e) \/ UnpairCleanFails(e)
Restores ==
    /\ profile' = backup /\ backup' = None
    /\ \/ Undoes
       \/ \E e \in Enrollments : CleansUp(e) /\ e \in ToClean /\ u.pc = "clean"

LEMMA ChangesOnDisk ==
    ASSUME TypesOK, [EnNext]_vars
    PROVE  /\ profile' = profile \/ Writes \/ UserInstalls \/ Restores
           /\ backup' = backup \/ BacksUp \/ BackupTears \/ Discards \/ Restores
           /\ \/ registry' = registry \/ Writes \/ UserInstalls \/ RemovesEntry
              \/ RestoresEntry \/ Restarts \/ \E e \in Enrollments : UnpairCleans(e)
           /\ journal' = journal \/ Journals \/ Forgets \/ UnpairSaves
<1> USE DEF cloud, files, history, counts
<1> DEFINE Goal == /\ profile' = profile \/ Writes \/ UserInstalls \/ Restores
                   /\ backup' = backup \/ BacksUp \/ BackupTears \/ Discards \/ Restores
                   /\ \/ registry' = registry \/ Writes \/ UserInstalls \/ RemovesEntry
                      \/ RestoresEntry \/ Restarts \/ \E e \in Enrollments : UnpairCleans(e)
                   /\ journal' = journal \/ Journals \/ Forgets \/ UnpairSaves
<1>1. CASE \/ Journals \/ Forgets \/ UnpairSaves \/ BacksUp \/ PrepareFails \/ Discards
           \/ RemovesEntry \/ RestoresEntry \/ Restarts \/ Writes \/ UserInstalls
    BY <1>1 DEF Journals, Forgets, UnpairSaves, BacksUp, PrepareFails, Discards, RemovesEntry, RestoresEntry,
                Restarts, Writes, UserInstalls
<1>2. CASE Undoes
    BY <1>2 DEF Undoes, Restores, RestoresOrRemoves
<1>3. ASSUME NEW e \in Enrollments, CleansUp(e)
      PROVE  Goal
    BY <1>3 DEF CleansUp, UnpairCleans, UnpairCleanFails, Restores, RestoresOrRemoves
<1>4. ASSUME \/ Lists \/ Parks \/ EndsPass \/ JournalFails \/ WriteFails
             \/ Verifies \/ VerifyRefused \/ VerifyFails \/ AckAccepted \/ AckFails \/ AckClosed
             \/ UndoFails \/ Confirms \/ ConfirmFails
             \/ \E e \in Enrollments : \/ Defers(e) \/ Redeems(e) \/ RedeemFails(e) \/ CleanupLooks(e)
                                       \/ CleanupUnclear(e) \/ WindowElapses(e)
      PROVE  UNCHANGED <<profile, backup, registry, journal>>
    BY <1>4 DEF Lists, Parks, EndsPass, JournalFails, WriteFails, Verifies,
                VerifyRefused, VerifyFails, AckAccepted, AckFails, AckClosed, UndoFails, Confirms,
                ConfirmFails, Defers, Redeems, RedeemFails, CleanupLooks, CleanupUnclear,
                WindowElapses, WorkerOnly
<1>5. ASSUME \/ UnpairBegins \/ UnpairRevokes \/ UnpairUnconfirmed \/ UnpairLoads \/ UnpairForgets
             \/ UnpairKilled \/ Pairs \/ PairFails \/ UNCHANGED vars
             \/ \E e \in Enrollments : Enrolls(e) \/ Closes(e)
             \/ \E daemon \in Daemons : Revokes(daemon)
      PROVE  UNCHANGED <<profile, backup, registry, journal>>
    BY <1>5 DEF UnpairBegins, UnpairRevokes, UnpairUnconfirmed, UnpairLoads, UnpairForgets,
                UnpairKilled, Pairs, PairFails, Enrolls, Closes, Revokes, vars
<1> QED
    BY <1>1, <1>2, <1>3, <1>4, <1>5 DEF EnNext, Works, Unpairs, World, CleansUp

\* The worker stays where it is, has left the enrollment, or goes a step on.
SamePlace == w'.pc = w.pc /\ WorkStays
Left == w'.e = None /\ w'.pc \in {"idle", "next"}

LEMMA Turns ==
    ASSUME TypesOK, [EnNext]_vars
    PROVE  \/ SamePlace \/ Left
           \/ \E e \in Enrollments : Redeems(e) \/ CleanupLooks(e)
           \/ BacksUp \/ PrepareFails \/ Journals \/ JournalFails \/ Writes \/ WriteFails
           \/ Verifies \/ VerifyFails \/ (AckAccepted /\ w.ack = "installed") \/ AckClosed
           \/ Undoes \/ RemovesEntry \/ RestoresEntry \/ Confirms
<1>0. w.pc \in {"idle", "next"} <=> w.e = None
    BY DEF TypesOK, WorkerOK
<1>1. ASSUME \/ VerifyRefused \/ AckFails \/ Discards \/ Forgets \/ UndoFails \/ ConfirmFails
             \/ (AckAccepted /\ w.ack # "installed")
      PROVE  Left
    BY <1>1, Moves DEF Left, Drops
<1>2. ASSUME Lists \/ EndsPass
      PROVE  Left
    BY <1>0, <1>2, Moves DEF Left, WorkStays, Lists, EndsPass
<1>3. ASSUME Parks \/ Restarts
      PROVE  Left
    BY <1>3, Moves DEF Left, Rested
<1>4. ASSUME NEW e \in Enrollments,
             Defers(e) \/ RedeemFails(e) \/ CleanupUnclear(e) \/ WindowElapses(e)
      PROVE  SamePlace
    BY <1>4, Moves DEF Shortens, SamePlace
<1>5. UNCHANGED w => SamePlace
    BY DEF SamePlace, WorkStays
<1> QED
    BY <1>1, <1>2, <1>3, <1>4, <1>5, NotTheWorker DEF EnNext, Works, World

\* What an unpair remembers changes only by its own steps.
LEMMA UnpairTurns ==
    ASSUME TypesOK, [EnNext]_vars
    PROVE  \/ u' = u
           \/ u'.pc \notin {"load", "clean"} /\ Unpairs
           \/ UnpairRevokes /\ u'.pc = "load"
           \/ UnpairLoads /\ u'.pc = "clean" /\ u'.read = journal /\ u'.cleaned = {} /\ u'.failed = {}
           \/ \E e \in Enrollments :
                /\ CleansUp(e) /\ u.pc = "clean" /\ u'.pc = "clean" /\ u'.read = u.read
                /\ e \in OfDaemon /\ u'.daemon = u.daemon
                /\ \/ UnpairCleans(e) /\ u'.cleaned = u.cleaned \union {e} /\ u'.failed = u.failed
                   \/ UnpairCleanFails(e) /\ u'.cleaned = u.cleaned /\ u'.failed = u.failed \union {e}
<1> USE DEF cloud, files, history, counts
<1>0. u \in Unpair /\ (u.pc # "clean" => u.cleaned = {} /\ u.failed = {})
    BY DEF TypesOK, UnpairOK
<1>1. ASSUME UnpairBegins \/ UnpairUnconfirmed \/ UnpairSaves \/ UnpairForgets \/ UnpairKilled
      PROVE  u'.pc \notin {"load", "clean"}
    <2>1. CASE UnpairBegins
        BY <1>0, <2>1 DEF UnpairBegins, Unpair
    <2>2. CASE u' = NoUnpair
        BY <2>2 DEF NoUnpair
    <2>3. CASE u' = [NoUnpair EXCEPT !.pc = "forget"]
        BY <2>3 DEF NoUnpair
    <2> QED
        BY <1>1, <2>1, <2>2, <2>3
        DEF UnpairUnconfirmed, UnpairSaves, UnpairForgets, UnpairKilled
<1>2. ASSUME UnpairLoads
      PROVE  \/ u'.pc \notin {"load", "clean"}
             \/ u'.pc = "clean" /\ u'.read = journal /\ u'.cleaned = {} /\ u'.failed = {}
    BY <1>0, <1>2 DEF UnpairLoads, NoUnpair, Unpair
<1>3. ASSUME UnpairRevokes
      PROVE  u'.pc = "load"
    BY <1>0, <1>3 DEF UnpairRevokes, Unpair
<1>4. ASSUME NEW e \in Enrollments, CleansUp(e)
      PROVE  /\ u.pc = "clean" /\ u'.pc = "clean" /\ u'.read = u.read
             /\ e \in OfDaemon /\ u'.daemon = u.daemon
             /\ \/ UnpairCleans(e) /\ u'.cleaned = u.cleaned \union {e} /\ u'.failed = u.failed
                \/ UnpairCleanFails(e) /\ u'.cleaned = u.cleaned /\ u'.failed = u.failed \union {e}
    BY <1>0, <1>4 DEF CleansUp, UnpairCleans, UnpairCleanFails, ToClean, Unpair
<1>5. CASE World \/ UNCHANGED vars
    BY <1>5 DEF World, Pairs, PairFails, UserInstalls, Restarts, Enrolls, Closes,
                WindowElapses, Revokes, WorkerOnly, vars
<1>6. CASE Works
    BY <1>6 DEF Works, Lists, Parks, EndsPass, Defers, Redeems, RedeemFails, CleanupLooks,
                CleanupUnclear, BacksUp, PrepareFails, Journals, JournalFails, Writes,
                WriteFails, Verifies, VerifyRefused, VerifyFails, AckAccepted, AckFails,
                AckClosed, Discards, Undoes, UndoFails, RemovesEntry, RestoresEntry, Confirms,
                ConfirmFails, Forgets, WorkerOnly
<1> QED
    BY <1>1, <1>2, <1>3, <1>4, <1>5, <1>6 DEF EnNext, Unpairs, CleansUp

\* Only the user's next install is owed anew.
LEMMA OwedTurns ==
    ASSUME [EnNext]_vars
    PROVE  owed' = owed \/ owed' = 0 \/ UserInstalls
<1> USE DEF cloud, files, history, counts
<1>1. CASE Works
    BY <1>1 DEF Works, Lists, Parks, EndsPass, Defers, Redeems, RedeemFails, CleanupLooks,
                CleanupUnclear, BacksUp, PrepareFails, Journals, JournalFails, Writes,
                WriteFails, Verifies, VerifyRefused, VerifyFails, AckAccepted, AckFails,
                AckClosed, Discards, Undoes, UndoFails, RemovesEntry, RestoresEntry, Confirms,
                ConfirmFails, Forgets, WorkerOnly, Acknowledged, BackupTears, Meets
<1>2. CASE Unpairs
    BY <1>2 DEF Unpairs, UnpairBegins, UnpairRevokes, UnpairUnconfirmed, UnpairLoads, UnpairCleans,
                UnpairCleanFails, UnpairSaves, UnpairForgets, UnpairKilled, Meets
<1>3. CASE World \/ UNCHANGED vars
    BY <1>3 DEF World, Pairs, PairFails, Restarts, BackupTears, Enrolls, Closes, WindowElapses,
                Revokes, WorkerOnly, vars
<1> QED
    BY <1>1, <1>2, <1>3 DEF EnNext

-----------------------------------------------------------------------------
(* The worker and `comment bus unpair` meet.                                *)

MeetingOK ==
    /\ w.e # None /\ UnpairCleansUp => owed = 0 /\ AllExcused
    /\ u.pc = "clean" => AllExcused \/ u.read = journal

LEMMA MeetingNext ==
    ASSUME TypesOK, MeetingOK, [EnNext]_vars
    PROVE  MeetingOK'
<1> USE DEF cloud, files, history, counts
<1>0. /\ AllExcused => AllExcused'
      /\ w.pc \in {"idle", "next"} <=> w.e = None
    BY CountsNext DEF Grows, AllExcused, Everything, TypesOK, WorkerOK
<1>1. ASSUME w'.e # None, UnpairCleansUp'
      PROVE  owed' = 0 /\ AllExcused'
    <2>1. CASE w.e # None
        <3>1. CASE UnpairRevokes
            BY <2>1, <3>1 DEF UnpairRevokes, Meets, AllExcused, Everything
        <3>2. CASE ~UnpairRevokes
            <4>1. UnpairCleansUp
                <5>1. CASE UnpairLoads
                    BY <5>1 DEF UnpairLoads, UnpairCleansUp
                <5>2. CASE ~UnpairLoads
                    BY <1>1, <3>2, <5>2, UnpairTurns DEF UnpairCleansUp
                <5> QED
                    BY <5>1, <5>2
            <4>2. owed = 0 /\ AllExcused
                BY <2>1, <4>1 DEF MeetingOK
            <4>3. UserInstalls => owed' = 0
                BY <1>0, <2>1 DEF UserInstalls
            <4> QED
                BY <1>0, <4>2, <4>3, OwedTurns
        <3> QED
            BY <3>1, <3>2
    <2>2. CASE w.e = None
        <3>1. PICK e \in Enrollments : Redeems(e) \/ CleanupLooks(e)
            BY <1>0, <1>1, <2>2, Turns
            DEF SamePlace, WorkStays, Left, BacksUp, PrepareFails, Journals, JournalFails, Writes,
                WriteFails, Verifies, VerifyFails, AckAccepted, AckClosed, Undoes, RemovesEntry,
                RestoresEntry, Confirms
        <3>2. u' = u /\ Meets(UnpairCleansUp)
            BY <3>1 DEF Redeems, CleanupLooks
        <3>3. UnpairCleansUp
            BY <1>1, <3>2 DEF UnpairCleansUp
        <3> QED
            BY <3>2, <3>3 DEF Meets, AllExcused, Everything
    <2> QED
        BY <2>1, <2>2
<1>2. ASSUME u'.pc = "clean"
      PROVE  AllExcused' \/ u'.read = journal'
    <2>1. CASE Journals \/ Forgets
        <3>1. w.e # None /\ u' = u
            BY <1>0, <2>1 DEF Journals, Forgets
        <3>2. AllExcused
            BY <1>2, <3>1 DEF MeetingOK, UnpairCleansUp
        <3> QED
            BY <1>0, <3>2
    <2>2. CASE UnpairLoads
        <3>1. journal' = journal
            BY <2>2 DEF UnpairLoads
        <3>2. u'.read = journal
            BY <1>2, <2>2 DEF UnpairLoads, NoUnpair, TypesOK, UnpairOK, Unpair
        <3> QED
            BY <3>1, <3>2
    <2>3. CASE ~Journals /\ ~Forgets /\ ~UnpairLoads
        <3>1. ~UnpairSaves
            BY <1>2 DEF UnpairSaves, NoUnpair
        <3>2. journal' = journal
            BY <2>3, <3>1, ChangesOnDisk
        <3>3. u.pc = "clean" /\ u'.read = u.read
            BY <1>2, <2>3, UnpairTurns
        <3> QED
            BY <1>0, <3>2, <3>3 DEF MeetingOK
    <2> QED
        BY <2>1, <2>2, <2>3
<1> QED
    BY <1>1, <1>2 DEF MeetingOK

\* In the middle of a pass an unpair finds everything excused.
LEMMA Met ==
    ASSUME TypesOK, MeetingOK, w.e # None, NEW e \in Enrollments, CleansUp(e) \/ UnpairSaves
    PROVE  owed = 0 /\ AllExcused
BY DEF MeetingOK, UnpairCleansUp, CleansUp, UnpairCleans, UnpairCleanFails, UnpairSaves

-----------------------------------------------------------------------------
(* What is owed to the user.                                                *)

\* The install that is owed is backed up before the profile is written over.
InPlace == profile = Credential(User, owed) /\ backup = None
OwedOK ==
    owed # 0 =>
      /\ backup = Credential(User, owed) \/ InPlace
      /\ InPlace => /\ w.pc \notin {"journal", "write", "verify", "undo"}
                    /\ ~(w.pc = "ack" /\ w.undo)
      /\ w.pc # "discard"

LEMMA OwedNext ==
    ASSUME TypesOK, MeetingOK, OwedOK, [EnNext]_vars
    PROVE  OwedOK'
<1> USE Constants DEF cloud, files, history, counts
<1>0. /\ w.pc \in {"idle", "next"} <=> w.e = None
      /\ w.e \in Enrollments \union {None}
    BY DEF TypesOK, WorkerOK, Worker
<1>1. CASE UserInstalls
    <2>1. /\ profile' = Credential(User, installs + 1) /\ UNCHANGED <<backup, w>>
          /\ owed' = 0 \/ (owed' = installs + 1 /\ backup = None /\ w.pc \in {"idle", "next"})
        BY <1>1 DEF UserInstalls
    <2> QED
        BY <2>1 DEF OwedOK, InPlace
<1>2. ASSUME ~UserInstalls, owed' # 0
      PROVE  OwedOK'
    <2>1. owed' = owed /\ owed # 0
        BY <1>2, OwedTurns
    <2> DEFINE mine == Credential(User, owed)
    <2>2. mine.of = User /\ mine # None /\ mine.of \notin Enrollments
        <3>1. owed \in 1 .. MaxInstalls
            BY <2>1 DEF TypesOK, CountsOK
        <3>2. mine \in Credentials
            BY <3>1 DEF Credential, Credentials
        <3> QED
            BY <3>2 DEF Credential
    <2>3. /\ backup = mine \/ (profile = mine /\ backup = None)
          /\ profile = mine /\ backup = None =>
               w.pc \notin {"journal", "write", "verify", "undo"} /\ ~(w.pc = "ack" /\ w.undo)
          /\ w.pc # "discard"
        BY <2>1 DEF OwedOK, InPlace
    <2> HIDE DEF mine
    <2>4. ASSUME Restores
          PROVE  OwedOK'
        <3>1. CASE Undoes
            <4>1. backup = mine
                BY <2>3, <3>1 DEF Undoes
            <4>2. w'.pc \in {"confirm", "removeEntry", "restoreEntry"}
                BY <3>1, Moves DEF Goes
            <4> QED
                BY <2>1, <2>4, <4>1, <4>2 DEF Restores, OwedOK, InPlace, mine
        <3>2. ASSUME NEW e \in Enrollments, CleansUp(e), e \in ToClean
              PROVE  OwedOK'
            <4>1. w.e = None /\ w' = w
                BY <2>1, <3>2, Met DEF CleansUp, UnpairCleans, UnpairCleanFails
            <4>2. profile # mine
                BY <2>2, <3>2 DEF ToClean, Matches, EntryLeft
            <4>3. backup = mine
                BY <2>3, <4>2
            <4> QED
                BY <1>0, <2>1, <2>4, <4>1, <4>3 DEF Restores, OwedOK, InPlace, mine
        <3> QED
            BY <2>4, <3>1, <3>2 DEF Restores
    <2>5. CASE BacksUp
        <3>1. profile = mine => Preexists
            BY <1>0, <2>2 DEF Preexists, Owned, Matches, Journaled
        <3>2. profile' = profile /\ backup' = mine
            BY <2>2, <2>3, <2>5, <3>1 DEF BacksUp
        <3>3. w'.pc = "journal"
            BY <2>5, Moves DEF Goes
        <3> QED
            BY <2>1, <2>2, <3>2, <3>3 DEF OwedOK, InPlace, mine
    <2>6. CASE Writes
        <3>1. backup' = mine
            BY <2>3, <2>6 DEF Writes
        <3>2. w'.pc = "verify"
            BY <2>6, Moves DEF Goes
        <3> QED
            BY <2>1, <2>2, <3>1, <3>2 DEF OwedOK, InPlace, mine
    <2>7. ASSUME ~Restores, ~BacksUp, ~Writes
          PROVE  OwedOK'
        <3>1. UNCHANGED <<profile, backup>>
            BY <1>2, <2>3, <2>7, ChangesOnDisk DEF Discards, BackupTears
        <3>2. /\ profile = mine /\ backup = None =>
                   /\ w'.pc \notin {"journal", "write", "verify", "undo"}
                   /\ ~(w'.pc = "ack" /\ w'.undo)
              /\ w'.pc # "discard"
            <4>1. CASE SamePlace \/ Left
                BY <2>3, <4>1 DEF SamePlace, WorkStays, Left
            <4>2. ASSUME NEW e \in Enrollments, Redeems(e) PROVE w'.pc = "prepare"
                BY <4>2, Moves
            <4>3. ASSUME NEW e \in Enrollments, CleanupLooks(e)
                  PROVE  w'.pc = "confirm" \/ (w'.pc = "undo" /\ profile # mine)
                BY <2>2, <4>3, Moves DEF Owns, Matches
            <4>4. CASE PrepareFails
                BY <4>4, Moves
            <4>5. ASSUME \/ Journals \/ JournalFails \/ WriteFails \/ Verifies \/ VerifyFails
                         \/ Undoes
                  PROVE  (w.pc \in {"journal", "write", "verify", "undo"}) /\ w'.pc # "discard"
                BY <4>5, Moves DEF Journals, JournalFails, WriteFails, Verifies, VerifyFails,
                                   Goes, Undoes
            <4>6. CASE AckAccepted /\ w.ack = "installed"
                BY <1>2, <4>6 DEF AckAccepted, Acknowledged
            <4>7. CASE AckClosed
                BY <2>3, <4>7, Moves DEF AckClosed
            <4>8. CASE RemovesEntry \/ RestoresEntry \/ Confirms
                BY <4>8, Moves DEF Goes
            <4> QED
                BY <2>3, <2>7, <4>1, <4>2, <4>3, <4>4, <4>5, <4>6, <4>7, <4>8, Turns
        <3> QED
            BY <2>1, <2>3, <3>1, <3>2 DEF OwedOK, InPlace, mine
    <2> QED
        BY <2>4, <2>5, <2>6, <2>7
<1> QED
    BY <1>1, <1>2 DEF OwedOK

\* What is set aside is the user's, or of an enrollment that is excused.
BackupOK == backup # None => backup.of \in excused \union {User}

LEMMA BackupNext ==
    ASSUME TypesOK, BackupOK, [EnNext]_vars
    PROVE  BackupOK'
<1>1. excused \subseteq excused'
    BY CountsNext DEF Grows
<1>2. CASE BacksUp
    <2>1. \/ backup' = backup
          \/ /\ backup' = profile
             /\ excused' = IF profile.of # User THEN excused \union {profile.of} ELSE excused
        BY <1>2 DEF BacksUp
    <2> QED
        BY <1>1, <2>1 DEF BackupOK
<1>3. CASE ~BacksUp
    <2>1. Torn.of = User
        BY DEF Torn, Credential
    <2>2. BackupTears => BackupOK'
        BY <2>1 DEF BackupTears, BackupOK
    <2> QED
        BY <1>1, <1>3, <2>2, ChangesOnDisk DEF BackupOK, Discards, Restores
<1> QED
    BY <1>2, <1>3

-----------------------------------------------------------------------------
(* What the journal and the server know of what is on disk.                 *)

Unexcused(file) == file # None /\ file.of \in Enrollments \ excused

\* The journal knows every credential of an enrollment that is or will be on disk.
JournalOK ==
    /\ Unexcused(profile) => profile.n \in journal[profile.of].wrote
    /\ w.pc = "write" => w.n \in journal[w.e].wrote \/ w.e \in excused

\* What was undone is not on disk.
UndoneOK ==
    /\ w.pc \in {"removeEntry", "restoreEntry", "confirm", "forget"} /\ Unexcused(profile)
         => profile.of # w.e
    /\ u.pc = "clean" /\ Unexcused(profile) => profile.of \notin u.cleaned

\* What the server takes for installed is the credential on disk, and what it
\* has drained is not there.
InstalledOK ==
    /\ Unexcused(profile) =>
         /\ srv[profile.of].state # "gone"
         /\ srv[profile.of].state = "installed" => profile.n = srv[profile.of].minted
    /\ (w.pc = "verify" \/ (w.pc = "ack" /\ w.ack = "installed"))
         /\ Unexcused(profile) /\ profile.of = w.e => profile.n = w.n

\* An unexcused credential is new on disk only when the worker writes it.
LEMMA UnexcusedNext ==
    ASSUME TypesOK, BackupOK, [EnNext]_vars, Unexcused(profile)'
    PROVE  Writes \/ (profile' = profile /\ Unexcused(profile) /\ ~Restores /\ ~UserInstalls)
<1>0. excused \subseteq excused' /\ Enrollments' = Enrollments
    BY CountsNext DEF Grows
<1>1. ~Restores
    BY <1>0, Constants DEF Restores, BackupOK, Unexcused
<1>2. ~UserInstalls
    BY Constants DEF UserInstalls, Credential, Unexcused
<1> QED
    BY <1>0, <1>1, <1>2, ChangesOnDisk DEF Unexcused

LEMMA JournalNext ==
    ASSUME TypesOK, MeetingOK, BackupOK, JournalOK, UndoneOK, [EnNext]_vars
    PROVE  JournalOK'
<1> USE Constants DEF cloud, files, history, counts
<1>0. /\ w.e \in Enrollments \union {None} /\ (w.pc \in {"idle", "next"} <=> w.e = None)
      /\ journal \in [Enrollments -> Entries]
      /\ excused \subseteq excused'
    BY CountsNext DEF TypesOK, WorkerOK, Worker, FilesOK, Grows
<1>1. ASSUME Unexcused(profile)'
      PROVE  profile'.n \in journal'[profile'.of].wrote
    <2>1. CASE Writes
        <3>1. /\ w.pc = "write" /\ profile' = Credential(w.e, w.n) /\ UNCHANGED <<journal, excused>>
            BY <2>1 DEF Writes
        <3>2. profile'.of = w.e /\ profile'.n = w.n
            BY <3>1 DEF Credential
        <3> QED
            BY <1>1, <3>1, <3>2 DEF JournalOK, Unexcused
    <2>2. CASE ~Writes
        <3>1. profile' = profile /\ Unexcused(profile) /\ profile.n \in journal[profile.of].wrote
            BY <1>1, <2>2, UnexcusedNext DEF JournalOK
        <3> DEFINE e == profile.of
        <3>2. e \in Enrollments
            BY <3>1 DEF Unexcused
        <3>3. CASE Journals
            <4>1. journal' = [journal EXCEPT ![w.e] = Recorded(w.e)]
                BY <3>3 DEF Journals
            <4>2. journal'[e] = journal[e] \/ (e = w.e /\ journal'[e] = Recorded(w.e))
                BY <1>0, <3>2, <4>1
            <4> QED
                BY <3>1, <4>2 DEF Recorded
        <3>4. CASE Forgets
            <4>1. e # w.e
                BY <3>1, <3>4 DEF Forgets, UndoneOK
            <4>2. journal' = journal \/ journal' = [journal EXCEPT ![w.e] = NoEntry]
                BY <3>4 DEF Forgets
            <4> QED
                BY <1>0, <3>1, <3>2, <4>1, <4>2
        <3>5. CASE UnpairSaves
            <4>1. u.pc = "clean" /\ ToClean = {}
                BY <3>5 DEF UnpairSaves
            <4>2. u.read = journal
                BY <3>1, <4>1 DEF MeetingOK, AllExcused, Everything, Unexcused
            <4>3. Matches(u.read[e], e)
                BY <3>1, <4>2 DEF Matches, Unexcused
            <4>4. e \notin u.cleaned
                BY <3>1, <4>1 DEF UndoneOK
            <4>5. e \notin OfDaemon \ u.failed
                BY <4>1, <4>3, <4>4 DEF ToClean
            <4>6. \/ journal' = journal
                  \/ journal' = [f \in Enrollments |->
                                   IF f \in OfDaemon \ u.failed THEN NoEntry ELSE u.read[f]]
                BY <3>5 DEF UnpairSaves
            <4>7. journal'[e] = journal[e]
                BY <3>2, <4>2, <4>5, <4>6
            <4> QED
                BY <3>1, <4>7
        <3> QED
            BY <3>1, <3>3, <3>4, <3>5, ChangesOnDisk
    <2> QED
        BY <2>1, <2>2
<1>2. ASSUME w'.pc = "write"
      PROVE  w'.n \in journal'[w'.e].wrote \/ w'.e \in excused'
    <2>1. CASE SamePlace
        <3>1. w.pc = "write" /\ w'.n = w.n /\ w'.e = w.e /\ w.e # None
            BY <1>0, <1>2, <2>1 DEF SamePlace, WorkStays
        <3>2. CASE UnpairSaves
            BY <1>0, <3>1, <3>2, Met DEF AllExcused, Everything
        <3>3. CASE ~UnpairSaves
            <4>1. journal' = journal
                BY <3>1, <3>3, ChangesOnDisk DEF Journals, Forgets
            <4> QED
                BY <1>0, <3>1, <4>1 DEF JournalOK
        <3> QED
            BY <3>2, <3>3
    <2>2. CASE Journals
        <3>1. w'.n = w.n /\ w'.e = w.e /\ w.e \in Enrollments
            BY <1>0, <2>2, Moves DEF Goes, WorkStays, Journals
        <3>2. journal'[w.e] = Recorded(w.e)
            BY <1>0, <2>2, <3>1 DEF Journals
        <3> QED
            BY <3>1, <3>2 DEF Recorded
    <2>3. CASE JournalFails
        BY <2>3, Moves DEF Goes, WorkStays, JournalFails
    <2>4. CASE ~SamePlace /\ ~Journals /\ ~JournalFails
        <3>1. ~Left
            BY <1>2 DEF Left
        <3>2. \A e \in Enrollments : ~Redeems(e) /\ ~CleanupLooks(e)
            BY <1>2, Moves
        <3>3. ~BacksUp /\ ~Writes /\ ~RemovesEntry /\ ~RestoresEntry /\ ~Confirms /\ ~Undoes
                /\ ~(AckAccepted /\ w.ack = "installed")
            BY <1>2, Moves DEF Goes
        <3>4. ~PrepareFails /\ ~WriteFails /\ ~Verifies /\ ~VerifyFails /\ ~AckClosed
            BY <1>2, Moves
        <3> QED
            BY <2>4, <3>1, <3>2, <3>3, <3>4, Turns
    <2> QED
        BY <2>1, <2>2, <2>3, <2>4
<1> QED
    BY <1>1, <1>2 DEF JournalOK, Unexcused

LEMMA UndoneNext ==
    ASSUME TypesOK, MeetingOK, BackupOK, JournalOK, UndoneOK, [EnNext]_vars
    PROVE  UndoneOK'
<1> USE Constants DEF cloud, files, history, counts
<1>0. /\ w.e \in Enrollments \union {None} /\ (w.pc \in {"idle", "next"} <=> w.e = None)
      /\ journal \in [Enrollments -> Entries]
      /\ excused \subseteq excused'
    BY CountsNext DEF TypesOK, WorkerOK, Worker, FilesOK, Grows
<1>1. ASSUME w'.pc \in {"removeEntry", "restoreEntry", "confirm", "forget"}, Unexcused(profile)'
      PROVE  profile'.of # w'.e
    <2>1. /\ profile' = profile /\ Unexcused(profile) /\ ~Restores /\ ~Writes
        BY <1>1, UnexcusedNext, Moves DEF Goes
    <2>2. CASE SamePlace
        BY <1>1, <2>1, <2>2 DEF SamePlace, WorkStays, UndoneOK
    <2>3. ASSUME NEW e \in Enrollments, CleanupLooks(e) PROVE profile.of # e
        <3>1. ~Owns(e)
            BY <1>1, <2>3, Moves
        <3>2. profile.of = e => Matches(journal[e], e)
            BY <2>1 DEF JournalOK, Matches, Unexcused
        <3>3. Matches(journal[e], e) => e \in Journaled
            BY DEF Matches, Journaled, NoEntry
        <3> QED
            BY <3>1, <3>2, <3>3 DEF Owns
    <2>4. CASE AckClosed
        <3>1. ~w.undo /\ w'.e = w.e
            BY <1>1, <2>4, Moves DEF WorkStays
        <3>2. profile.of = w.e => w.e \in Journaled
            BY <2>1 DEF JournalOK, Journaled, NoEntry, Unexcused
        <3> QED
            BY <1>1, <2>1, <2>4, <3>1, <3>2 DEF AckClosed, Unexcused
    <2>5. CASE RemovesEntry \/ RestoresEntry \/ Confirms
        <3>1. w'.e = w.e /\ w.pc \in {"removeEntry", "restoreEntry", "confirm"}
            BY <2>5, Moves DEF Goes, WorkStays, RemovesEntry, RestoresEntry, Confirms
        <3> QED
            BY <2>1, <3>1 DEF UndoneOK
    <2>6. ~Undoes
        BY <2>1 DEF Undoes, Restores, RestoresOrRemoves
    <2>7. CASE ~SamePlace /\ ~AckClosed /\ ~RemovesEntry /\ ~RestoresEntry /\ ~Confirms
        <3>1. ~Left /\ \A e \in Enrollments : ~Redeems(e)
            BY <1>1, Moves DEF Left
        <3>2. /\ ~BacksUp /\ ~Journals /\ ~JournalFails
              /\ ~(AckAccepted /\ w.ack = "installed")
            BY <1>1, Moves DEF Goes
        <3>3. ~PrepareFails /\ ~WriteFails /\ ~Verifies /\ ~VerifyFails
            BY <1>1, Moves
        <3>4. PICK e \in Enrollments : CleanupLooks(e)
            BY <2>1, <2>6, <2>7, <3>1, <3>2, <3>3, Turns
        <3>5. w'.e = e
            BY <3>4, Moves
        <3> QED
            BY <2>1, <2>3, <3>4, <3>5
    <2> QED
        BY <2>2, <2>4, <2>5, <2>7
<1>2. ASSUME u'.pc = "clean", Unexcused(profile)'
      PROVE  profile'.of \notin u'.cleaned
    <2>1. CASE u' = u
        <3>1. ~Writes
            <4>1. Writes => w.e # None /\ excused' = excused
                BY <1>0 DEF Writes
            <4>2. ~AllExcused'
                BY <1>2 DEF Unexcused, AllExcused, Everything
            <4> QED
                BY <1>2, <2>1, <4>1, <4>2 DEF MeetingOK, UnpairCleansUp, AllExcused, Everything
        <3> QED
            BY <1>2, <2>1, <3>1, UnexcusedNext DEF UndoneOK
    <2>2. ASSUME NEW e \in Enrollments, CleansUp(e), u.pc = "clean",
                 \/ UnpairCleans(e) /\ u'.cleaned = u.cleaned \union {e}
                 \/ u'.cleaned = u.cleaned
          PROVE  profile'.of \notin u'.cleaned
        <3>1. ~Writes
            BY <2>2, Moves DEF Writes, Goes, CleansUp, UnpairCleans, UnpairCleanFails
        <3>2. profile' = profile /\ Unexcused(profile) /\ ~Restores
            BY <1>2, <3>1, UnexcusedNext
        <3>3. ~UnpairCleans(e)
            BY <2>2, <3>2 DEF UnpairCleans, EntryLeft, RestoresOrRemoves, Restores, Unexcused, CleansUp
        <3> QED
            BY <2>2, <3>2, <3>3 DEF UndoneOK
    <2>3. CASE u'.cleaned = {}
        BY <2>3
    <2> QED
        BY <1>2, <2>1, <2>2, <2>3, UnpairTurns
<1> QED
    BY <1>1, <1>2 DEF UndoneOK, Unexcused

LEMMA InstalledNext ==
    ASSUME TypesOK, BackupOK, UndoneOK, InstalledOK, [EnNext]_vars
    PROVE  InstalledOK'
<1> USE Constants DEF cloud, files, history, counts
<1>1. ASSUME Unexcused(profile)'
      PROVE  /\ srv'[profile'.of].state # "gone"
             /\ srv'[profile'.of].state = "installed" => profile'.n = srv'[profile'.of].minted
    <2>1. CASE Writes
        <3>1. profile'.of = w.e /\ srv' = srv /\ w.pc = "write"
            BY <2>1 DEF Writes, Credential
        <3>2. srv[w.e].state \in {"redeemed", "closed"}
            BY <3>1 DEF TypesOK, WorkerOK, Installing
        <3> QED
            BY <3>1, <3>2
    <2>2. CASE ~Writes
        <3>1. profile' = profile /\ Unexcused(profile)
            BY <1>1, <2>2, UnexcusedNext
        <3> DEFINE e == profile.of
                   s == srv[e]
                   t == srv'[e]
        <3>2. /\ e \in Enrollments /\ e # User /\ s.minted \in Nat
              /\ profile.n \in 1 .. s.minted
              /\ s.state # "gone" /\ (s.state = "installed" => profile.n = s.minted)
              /\ s.state \in {"none", "pending"} => s.minted = 0
            BY <3>1 DEF Unexcused, InstalledOK, TypesOK, FilesOK, Issued, ServerOK, Server
        <3>3. ServerStep(e, s, t)
            BY <3>2, ServerSteps
        <3>4. s.state \notin {"none", "pending"}
            BY <3>2
        <3>5. Answered(e, s, t) /\ t.state = "installed" => profile.n = s.minted
            <4> SUFFICES ASSUME w.pc = "ack", w.ack = "installed", w.e = e PROVE profile.n = s.minted
                BY DEF Answered
            <4>2. w.n = s.minted
                BY DEF TypesOK, WorkerOK, Installing
            <4> QED
                BY <3>1, <4>2 DEF InstalledOK
        <3>6. ~Drained(e, s, t)
            BY <3>1 DEF Drained, UndoneOK
        <3> HIDE DEF s, t
        <3>7. t.state # "gone" /\ (t.state = "installed" => profile.n = t.minted)
            BY <3>2, <3>3, <3>4, <3>5, <3>6
            DEF ServerStep, Enrolled, ClosedNow, Minted, Answered, Same, Open
        <3> QED
            BY <3>1, <3>7 DEF t
    <2> QED
        BY <2>1, <2>2
<1>2. ASSUME w'.pc = "verify" \/ (w'.pc = "ack" /\ w'.ack = "installed"),
             Unexcused(profile)', profile'.of = w'.e
      PROVE  profile'.n = w'.n
    <2>1. CASE Writes
        BY <2>1, Moves DEF Writes, Credential, Goes, WorkStays
    <2>2. CASE ~Writes
        <3>1. profile' = profile /\ Unexcused(profile)
            BY <1>2, <2>2, UnexcusedNext
        <3>2. CASE SamePlace
            BY <1>2, <3>1, <3>2 DEF SamePlace, WorkStays, InstalledOK
        <3>3. CASE Verifies
            <4>1. w.pc = "verify" /\ UNCHANGED <<w.e, w.n>>
                BY <3>3, Moves DEF Verifies
            <4> QED
                BY <1>2, <3>1, <4>1 DEF InstalledOK
        <3>4. CASE ~SamePlace /\ ~Verifies
            <4>1. ~Left
                BY <1>2 DEF Left
            <4>2. \A e \in Enrollments : ~Redeems(e) /\ ~CleanupLooks(e)
                BY <1>2, Moves
            <4>3. /\ ~BacksUp /\ ~Journals /\ ~JournalFails /\ ~RemovesEntry /\ ~RestoresEntry
                  /\ ~Confirms /\ ~Undoes /\ ~(AckAccepted /\ w.ack = "installed")
                BY <1>2, Moves DEF Goes
            <4>4. ~PrepareFails /\ ~WriteFails /\ ~VerifyFails /\ ~AckClosed
                BY <1>2, Moves
            <4> QED
                BY <2>2, <3>4, <4>1, <4>2, <4>3, <4>4, Turns
        <3> QED
            BY <3>2, <3>3, <3>4
    <2> QED
        BY <2>1, <2>2
<1> QED
    BY <1>1, <1>2 DEF InstalledOK, Unexcused

-----------------------------------------------------------------------------
(* The list that was read.                                                  *)

\* What is listed no longer, or is listed otherwise, is never as it was again.
Past(t) ==
    LET s == srv[t[1]]
    IN  \/ s.minted > t[3]
        \/ t[2] \in Open /\ s.state \in {"installed", "closed", "gone"}
        \/ t[2] = "closed" /\ s.state = "gone"

\* While the worker keeps the etag, what it has not dealt with is before it.
Before(t) ==
    \/ w.retry
    \/ t[1] \in w.items \union w.cleanups
    \/ w.e = t[1] /\ w.pc \in Undoing

EtagOK ==
    \A F \in w.etag : \A t \in F : srv[t[1]].minted >= t[3] /\ (Past(t) \/ Before(t))

LEMMA PastNext ==
    ASSUME TypesOK, [EnNext]_vars,
           NEW t \in Enrollments \X {"pending", "redeemed", "closed"} \X Nat,
           srv[t[1]].minted >= t[3]
    PROVE  /\ srv'[t[1]].minted >= t[3]
           /\ Past(t) => Past(t)'
           /\ w.e = t[1] /\ Confirms => Past(t)'
           /\ Redeems(t[1]) => Past(t)'
<1>1. t[1] \in Enrollments /\ t[2] \in {"pending", "redeemed", "closed"} /\ t[3] \in Nat
    OBVIOUS
<1> DEFINE a == srv[t[1]]
           b == srv'[t[1]]
<1>2. a.minted \in Nat /\ b.minted \in Nat /\ a.minted <= b.minted
    BY <1>1, Persist
<1>3. b.minted >= t[3]
    BY <1>1, <1>2
<1>4. ServerStep(t[1], a, b)
    BY <1>1, ServerSteps
<1>5. ASSUME Past(t) PROVE Past(t)'
    <2>1. \/ a.minted > t[3]
          \/ t[2] \in Open /\ a.state \in {"installed", "closed", "gone"}
          \/ t[2] = "closed" /\ a.state = "gone"
        BY <1>5 DEF Past
    <2>2. a.state \in {"installed", "gone"} => b.state = a.state
        <3> HIDE DEF a, b
        <3> QED
            BY <1>4 DEF ServerStep, Enrolled, ClosedNow, Minted, Answered, Drained, Same, Open
    <2>3. a.state = "closed" => b.state \in {"closed", "gone"}
        <3> HIDE DEF a, b
        <3> QED
            BY <1>4 DEF ServerStep, Enrolled, ClosedNow, Minted, Answered, Drained, Same, Open
    <2>4. \/ b.minted > t[3]
          \/ t[2] \in Open /\ b.state \in {"installed", "closed", "gone"}
          \/ t[2] = "closed" /\ b.state = "gone"
        BY <1>1, <1>2, <2>1, <2>2, <2>3
    <2> QED
        BY <2>4 DEF Past
<1>6. ASSUME w.e = t[1], Confirms PROVE Past(t)'
    <2>1. srv' = [srv EXCEPT ![w.e].state = "gone"] /\ srv \in [Enrollments -> Server]
        BY <1>6 DEF Confirms, Confirmed, TypesOK, ServerOK
    <2>2. b.state = "gone"
        BY <1>1, <1>6, <2>1 DEF Server
    <2> QED
        BY <1>1, <2>2 DEF Past, Open
<1>7. ASSUME Redeems(t[1]) PROVE Past(t)'
    <2>1. srv' = Redeemed(t[1]) /\ srv \in [Enrollments -> Server]
        BY <1>7 DEF Redeems, TypesOK, ServerOK
    <2>2. b.minted = a.minted + 1
        BY <1>1, <2>1 DEF Server, Redeemed
    <2>3. b.minted > t[3]
        BY <1>1, <1>2, <2>2
    <2> QED
        BY <2>3 DEF Past
<1> QED
    BY <1>3, <1>5, <1>6, <1>7

LEMMA EtagNext ==
    ASSUME TypesOK, EtagOK, [EnNext]_vars
    PROVE  EtagOK'
<1> USE Constants DEF cloud, files, history, counts
<1> DEFINE Rows == Enrollments \X {"pending", "redeemed", "closed"} \X Nat
<1>0. /\ w.etag \subseteq Listings /\ (w.pc \in {"idle", "next"} <=> w.e = None)
      /\ w.pc = "idle" => w.items = {} /\ w.cleanups = {} /\ ~w.retry
    BY DEF TypesOK, WorkerOK, Worker
<1>1. CASE Lists
    <2>1. /\ w'.etag = {Fingerprint(auth)} /\ srv' = srv
          /\ w'.items = {e \in Listed(auth) : srv[e].state \in Open}
          /\ w'.cleanups = {e \in Listed(auth) : srv[e].state = "closed"}
        BY <1>1, Moves DEF Lists, WorkerOnly
    <2>2. ASSUME NEW t \in Fingerprint(auth)
          PROVE  srv'[t[1]].minted >= t[3] /\ Before(t)'
        <3>1. PICK e \in Listed(auth) : t = <<e, srv[e].state, srv[e].minted>>
            BY DEF Fingerprint
        <3>2. e \in Enrollments /\ srv[e].minted \in Nat /\ srv[e].state \in Open \union {"closed"}
            BY DEF Listed, TypesOK, ServerOK, Server
        <3> QED
            BY <2>1, <3>1, <3>2 DEF Before
    <2> QED
        BY <2>1, <2>2 DEF EtagOK
<1>2. CASE Parks \/ Restarts
    BY <1>2, Moves DEF EtagOK, Rested
<1>3. ASSUME ~Lists, ~Parks, ~Restarts,
             NEW F \in w'.etag, NEW t \in F
      PROVE  srv'[t[1]].minted >= t[3] /\ (Past(t)' \/ Before(t)')
    <2> DEFINE Kept == /\ w'.etag = w.etag
                       /\ w.retry => w'.retry
                       /\ w.items \subseteq w'.items /\ w.cleanups \subseteq w'.cleanups
               Goal == srv'[t[1]].minted >= t[3] /\ (Past(t)' \/ Before(t)')
    <2>1. ASSUME F \in w.etag
          PROVE  /\ t \in Rows /\ srv'[t[1]].minted >= t[3] /\ (Past(t) => Past(t)')
                 /\ Past(t) \/ Before(t)
                 /\ w.e = t[1] /\ Confirms => Past(t)'
                 /\ Redeems(t[1]) => Past(t)'
        <3>1. t \in Rows /\ srv[t[1]].minted >= t[3] /\ (Past(t) \/ Before(t))
            BY <1>0, <2>1 DEF EtagOK, Listings
        <3> QED
            BY <3>1, PastNext
    <2>2. ASSUME w'.etag = w.etag, w'.retry
          PROVE  Goal
        BY <1>3, <2>1, <2>2 DEF Before
    <2>3. ASSUME Kept, w.pc \notin Undoing
          PROVE  Goal
        BY <1>3, <2>1, <2>3 DEF Before
    <2>4. ASSUME Kept, w'.e = w.e, w'.pc \in Undoing
          PROVE  Goal
        BY <1>3, <2>1, <2>4 DEF Before
    <2>5. CASE EndsPass
        <3>1. w.pc = "next" /\ w.items = {} /\ w.cleanups = {}
            BY <2>5 DEF EndsPass
        <3>2. w'.etag = {} \/ (w'.etag = w.etag /\ ~w.retry)
            BY <2>5, Moves
        <3> QED
            BY <1>3, <2>1, <3>1, <3>2 DEF Before, Undoing
    <2>6. ASSUME NEW e \in Enrollments, Defers(e) \/ RedeemFails(e) \/ CleanupUnclear(e)
          PROVE  Goal
        BY <2>2, <2>6, Moves DEF Shortens
    <2>7. ASSUME NEW e \in Enrollments, Redeems(e)
          PROVE  Goal
        <3>1. w.pc = "next" /\ w'.etag = w.etag /\ w'.retry = w.retry /\ w'.items = w.items \ {e}
                /\ w'.cleanups = w.cleanups
            BY <2>7, Moves DEF Redeems, Takes
        <3> QED
            BY <1>3, <2>1, <2>7, <3>1 DEF Before, Undoing
    <2>8. ASSUME NEW e \in Enrollments, CleanupLooks(e)
          PROVE  Goal
        <3>1. w.pc = "next" /\ w'.etag = w.etag /\ w'.retry = w.retry /\ w'.items = w.items
                /\ w'.cleanups = w.cleanups \ {e} /\ w'.e = e /\ w'.pc \in Undoing
            BY <2>8, Moves DEF CleanupLooks, Undoing
        <3> QED
            BY <1>3, <2>1, <3>1 DEF Before, Undoing
    <2>9. ASSUME \/ BacksUp \/ Journals \/ JournalFails \/ Writes \/ PrepareFails \/ WriteFails
                 \/ Verifies \/ VerifyFails
          PROVE  Goal
        <3>1. PassStays
            BY <2>9, Moves DEF Goes
        <3>2. w.pc \notin Undoing
            BY <2>9 DEF BacksUp, Journals, JournalFails, Writes, PrepareFails, WriteFails,
                        Verifies, VerifyFails, Undoing
        <3> QED
            BY <2>3, <3>1, <3>2 DEF PassStays
    <2>10. CASE VerifyRefused \/ AckFails \/ UndoFails \/ ConfirmFails \/ AckClosed
        BY <2>2, <2>10, Moves DEF Drops
    <2>11. CASE AckAccepted \/ Discards \/ Forgets
        <3>1. Kept
            BY <2>11, Moves DEF Goes, PassStays, Drops
        <3>2. w.pc \notin Undoing
            BY <2>11 DEF AckAccepted, Discards, Forgets, Undoing
        <3> QED
            BY <2>3, <3>1, <3>2
    <2>12. CASE Undoes \/ RemovesEntry \/ RestoresEntry
        <3>1. Kept /\ w'.e = w.e /\ w'.pc \in Undoing
            BY <2>12, Moves DEF Goes, PassStays, WorkStays, Undoing
        <3> QED
            BY <2>4, <3>1
    <2>13. CASE Confirms
        <3>1. Kept
            BY <2>13, Moves DEF Goes, PassStays
        <3> QED
            BY <1>3, <2>1, <2>13, <3>1 DEF Before
    <2>14. ASSUME UNCHANGED w \/ \E e \in Enrollments : WindowElapses(e)
           PROVE  Goal
        <3>1. Kept /\ w'.e = w.e /\ w'.pc = w.pc
            BY <2>14, Moves DEF PassStays, WorkStays
        <3> QED
            BY <2>3, <2>4, <3>1
    <2>15. ASSUME Works
           PROVE  Goal
        <3> HIDE DEF Goal
        <3>1. CASE EndsPass \/ \E e \in Enrollments : \/ Defers(e) \/ Redeems(e) \/ RedeemFails(e)
                                                      \/ CleanupLooks(e) \/ CleanupUnclear(e)
            BY <2>5, <2>6, <2>7, <2>8, <3>1 DEF Goal
        <3> QED
            BY <1>3, <2>9, <2>10, <2>11, <2>12, <2>13, <2>15, <3>1 DEF Works, Goal
    <2>16. ASSUME Unpairs \/ World \/ UNCHANGED vars
           PROVE  Goal
        BY <1>3, <2>14, <2>16, NotTheWorker DEF World
    <2> QED
        BY <2>15, <2>16 DEF EnNext
<1> QED
    BY <1>1, <1>2, <1>3 DEF EtagOK

-----------------------------------------------------------------------------
(* An entry of the registry without its profile.                            *)

\* The record that stays of an orphaned entry: the entry's own, or one that
\* the unpairing of its daemon or the cleanup of its enrollment comes back to.
Witness(e) ==
    /\ e \in Journaled
    /\ \/ e = registry
       \/ srv[e].daemon \in revoked
       \/ srv[e].state = "closed" /\ ~(w.e = e /\ w.pc \in Installing)

Orphan == registry # None /\ profile = None /\ registry \notin excused

\* Before the worker writes over an install, or undoes what it has written.
Replacing == w.pc \in {"journal", "write", "verify", "undo"} \/ (w.pc = "ack" /\ w.undo)

OrphanOK ==
    /\ Orphan => \E e \in Enrollments : Witness(e)
    /\ w.pc \in {"confirm", "forget"} /\ Orphan =>
         \E e \in Enrollments : e # w.e /\ Witness(e)
    /\ w.pc = "restoreEntry" => profile # None \/ AllExcused
    /\ u.pc = "clean" /\ Orphan => u.cleaned = {} \/ u.failed # {}
    /\ bot /\ Replacing =>
         \/ backup # None \/ w.e \in Journaled \/ registry \in excused \union {None}
         \/ w.pc \in {"journal", "write"} /\ profile = None

\* An install begins with an enrollment that is open.
LEMMA Enters ==
    ASSUME TypesOK, [EnNext]_vars, w'.pc \in Installing
    PROVE  \/ w.pc \in Installing /\ w'.e = w.e
           \/ \E e \in Enrollments : Redeems(e) /\ w'.e = e
<1>1. CASE SamePlace
    BY <1>1 DEF SamePlace, WorkStays
<1>2. ~Left
    BY DEF Left, Installing
<1>3. ASSUME NEW e \in Enrollments, Redeems(e) PROVE w'.e = e
    BY <1>3, Moves
<1>4. ASSUME NEW e \in Enrollments PROVE ~CleanupLooks(e)
    BY Moves DEF Installing
<1>5. /\ ~RemovesEntry /\ ~RestoresEntry /\ ~Confirms /\ ~Undoes /\ ~AckClosed
      /\ ~(AckAccepted /\ w.ack = "installed")
    BY Moves DEF Goes, Installing
<1>6. ASSUME \/ BacksUp \/ PrepareFails \/ Journals \/ JournalFails \/ Writes \/ WriteFails
             \/ Verifies \/ VerifyFails
      PROVE  w.pc \in Installing /\ w'.e = w.e
    <2>1. w'.e = w.e
        BY <1>6, Moves DEF Goes, WorkStays
    <2> QED
        BY <1>6, <2>1 DEF BacksUp, PrepareFails, Journals, JournalFails, Writes, WriteFails,
                          Verifies, VerifyFails, Installing
<1> QED
    BY <1>1, <1>2, <1>3, <1>4, <1>5, <1>6, Turns

\* A record stays a witness as long as it is not removed, its enrollment not
\* drained and the entry not written over.
LEMMA WitnessNext ==
    ASSUME TypesOK, [EnNext]_vars, registry' = registry,
           NEW e \in Enrollments, Witness(e), e \in Journaled',
           ~(w.e = e /\ (Confirms \/ ConfirmFails))
    PROVE  Witness(e)'
<1> DEFINE s == srv[e]
           t == srv'[e]
<1>1. ServerStep(e, s, t)
    BY ServerSteps
<1>2. s.state # "none" /\ s.minted \in Nat
    <2>1. journal[e] # NoEntry /\ EntryOK(journal[e], e) /\ srv[e].minted \in Nat
        BY DEF Witness, Journaled, TypesOK, FilesOK, ServerOK, Server
    <2>2. srv[e].minted # 0
        BY <2>1 DEF EntryOK
    <2> QED
        BY <2>2, <2>1 DEF TypesOK, ServerOK
<1> HIDE DEF s, t
<1>3. t.daemon = s.daemon /\ (s.state = "closed" => t.state = "closed")
    BY <1>1, <1>2 DEF ServerStep, Enrolled, ClosedNow, Minted, Answered, Drained, Same, Open
<1>4. revoked \subseteq revoked'
    BY CountsNext DEF Grows
<1>5. ASSUME s.state = "closed", ~(w.e = e /\ w.pc \in Installing)
      PROVE  ~(w'.e = e /\ w'.pc \in Installing)
    BY <1>5, Enters DEF Redeems, Redeemable, Open, s
<1> QED
    BY <1>3, <1>4, <1>5 DEF Witness, s, t

LEMMA OrphanWitnessed ==
    ASSUME TypesOK, MintsOK, MeetingOK, JournalOK, OrphanOK, [EnNext]_vars, Orphan'
    PROVE  \E e \in Enrollments : Witness(e)' /\ (w'.pc \in {"confirm", "forget"} => e # w'.e)
<1> USE Constants DEF cloud, files, history, counts
<1>0. /\ w.e \in Enrollments \union {None} /\ (w.pc \in {"idle", "next"} <=> w.e = None)
      /\ journal \in [Enrollments -> Entries] /\ registry \in Everything \union {None}
      /\ excused \subseteq excused' /\ revoked \subseteq revoked'
      /\ bot \/ registry = None
    BY CountsNext DEF TypesOK, WorkerOK, Worker, FilesOK, Grows
<1>1. registry' # None /\ profile' = None /\ registry' \notin excused'
    BY DEF Orphan
<1>2. ~AllExcused
    <2>1. registry' \in Everything
        BY <1>1, FilesNext DEF FilesOK, Everything
    <2> QED
        BY <1>0, <1>1, <2>1 DEF AllExcused
<1>3. ASSUME NEW e \in Enrollments, CleansUp(e) \/ UnpairSaves
      PROVE  w.e = None /\ w' = w /\ u.read = journal /\ u.daemon \in revoked
    BY <1>2, <1>3, Met
    DEF MeetingOK, CleansUp, UnpairCleans, UnpairCleanFails, UnpairSaves, TypesOK, UnpairOK
\* A record of the daemon that is unpaired is a witness.
<1>4. ASSUME NEW e \in Enrollments, e \in OfDaemon, u.read = journal, u.daemon \in revoked,
             UNCHANGED <<srv, revoked>>, journal'[e] = journal[e]
      PROVE  Witness(e)'
    <2>1. journal[e] # NoEntry /\ journal[e].daemon = u.daemon
        BY <1>4 DEF OfDaemon
    <2>2. srv[e].daemon = u.daemon
        BY <2>1 DEF TypesOK, FilesOK, EntryOK
    <2> QED
        BY <1>4, <2>1, <2>2 DEF Witness, Journaled
<1>5. CASE Restarts /\ registry' # registry
    <2>1. /\ w.pc = "write" /\ registry' = w.e /\ UNCHANGED <<journal, srv, revoked, excused>>
          /\ w' = Rested
        BY <1>5 DEF Restarts
    <2>2. w.n \in journal[w.e].wrote
        BY <1>1, <2>1 DEF JournalOK
    <2>3. w.e \in Journaled /\ w.e \in Enrollments
        BY <1>0, <2>1, <2>2 DEF Journaled, NoEntry
    <2>4. PICK e \in Enrollments : e = w.e
        BY <2>3
    <2>5. Witness(e)'
        BY <2>1, <2>3, <2>4 DEF Witness, Journaled
    <2> QED
        BY <2>1, <2>5 DEF Rested
<1>6. CASE Undoes
    <2>1. /\ w.pc = "undo" /\ backup = None /\ UNCHANGED <<registry, journal, srv, revoked, excused>>
        BY <1>1, <1>6 DEF Undoes, RestoresOrRemoves
    <2>2. bot /\ w.e \in Enrollments /\ srv[w.e].state = "closed"
        BY <1>0, <1>1, <2>1 DEF TypesOK, WorkerOK, Undoing
    <2>3. w.e \in Journaled
        BY <1>1, <2>1, <2>2 DEF OrphanOK, Replacing
    <2>4. w'.pc = "removeEntry"
        BY <1>6, <2>1, <2>2, Moves DEF Goes
    <2>5. PICK e \in Enrollments : e = w.e
        BY <2>2
    <2>6. Witness(e)'
        BY <2>1, <2>2, <2>3, <2>4, <2>5 DEF Witness, Journaled, Installing
    <2> QED
        BY <2>4, <2>6
<1>7. ASSUME NEW e \in Enrollments, CleansUp(e), e \in ToClean, Restores
      PROVE  Witness(e)' /\ w'.pc \notin {"confirm", "forget"}
    <2>1. w.e = None /\ w' = w /\ u.read = journal /\ u.daemon \in revoked
        BY <1>3, <1>7
    <2>2. e \in OfDaemon /\ UNCHANGED <<srv, revoked, journal>>
        BY <1>7 DEF ToClean, CleansUp, UnpairCleans, UnpairCleanFails
    <2> QED
        BY <1>0, <1>4, <2>1, <2>2
<1>8. ASSUME ~Undoes, ~Restores, ~(Restarts /\ registry' # registry)
      PROVE  \E e \in Enrollments : Witness(e)' /\ (w'.pc \in {"confirm", "forget"} => e # w'.e)
    <2>1. profile' = profile /\ ~Writes /\ ~UserInstalls
        <3>1. ~Writes
            BY <1>1, WritesIssued DEF Writes, Installing
        <3>2. UserInstalls => Credential(User, installs + 1) \in Credentials
            BY DEF UserInstalls, TypesOK, CountsOK, Credential, Credentials
        <3>3. ~UserInstalls
            BY <1>1, <3>2 DEF UserInstalls
        <3> QED
            BY <1>8, <3>1, <3>3, ChangesOnDisk
    <2>2. ~RestoresEntry /\ ~RemovesEntry
        BY <1>1, <1>2, <2>1 DEF OrphanOK, RestoresEntry, RemovesEntry
    <2>3. registry' = registry
        BY <1>1, <1>8, <2>1, <2>2, ChangesOnDisk DEF UnpairCleans
    <2>4. Orphan
        BY <1>0, <1>1, <2>1, <2>3 DEF Orphan
    <2>5. CASE UnpairSaves
        <3>1. /\ u.pc = "clean" /\ ToClean = {} /\ UNCHANGED <<srv, revoked>>
              /\ \/ journal' = journal
                 \/ journal' = [e \in Enrollments |->
                                  IF e \in OfDaemon \ u.failed THEN NoEntry ELSE u.read[e]]
            BY <2>5 DEF UnpairSaves
        <3>2. \E e \in Enrollments : Witness(e)
            BY <2>4 DEF OrphanOK
        <3>3. w.e = None /\ w' = w /\ u.read = journal /\ u.daemon \in revoked
            BY <1>3, <2>5, <3>2
        <3>4. OfDaemon \subseteq u.cleaned \union u.failed
            BY <2>4, <3>1 DEF ToClean, EntryLeft, Orphan
        <3>5. u.cleaned = {} \/ u.failed # {}
            BY <2>4, <3>1 DEF OrphanOK
        <3>6. CASE u.failed # {}
            <4>1. PICK e \in u.failed : TRUE
                BY <3>6
            <4>2. e \in OfDaemon /\ e \in Enrollments
                BY DEF TypesOK, UnpairOK, OfDaemon
            <4>3. journal'[e] = journal[e]
                BY <3>1, <3>3, <4>1, <4>2
            <4> QED
                BY <1>0, <1>4, <3>1, <3>3, <4>2, <4>3
        <3>7. CASE u.failed = {}
            <4>1. OfDaemon = {}
                BY <3>4, <3>5, <3>7
            <4>2. PICK e \in Enrollments : Witness(e)
                BY <3>2
            <4>3. journal'[e] = journal[e]
                BY <3>1, <3>3, <4>1, <4>2
            <4>4. Witness(e)'
                BY <2>3, <3>1, <3>3, <4>2, <4>3 DEF Witness, Journaled
            <4> QED
                BY <1>0, <3>3, <4>4
        <3> QED
            BY <3>6, <3>7
    <2>6. CASE ~UnpairSaves
        <3>1. PICK e \in Enrollments : Witness(e) /\ (w.pc \in {"confirm", "forget"} => e # w.e)
            BY <2>4 DEF OrphanOK
        <3>2. e \in Journaled'
            <4>1. e \in Journaled
                BY <3>1 DEF Witness
            <4>2. CASE Journals
                <5>1. journal' = [journal EXCEPT ![w.e] = Recorded(w.e)]
                    BY <4>2 DEF Journals
                <5>2. Recorded(w.e) # NoEntry
                    BY DEF Recorded, NoEntry
                <5> QED
                    BY <1>0, <4>1, <5>1, <5>2 DEF Journaled
            <4>3. CASE Forgets
                <5>1. e # w.e /\ (journal' = journal \/ journal' = [journal EXCEPT ![w.e] = NoEntry])
                    BY <3>1, <4>3 DEF Forgets
                <5> QED
                    BY <1>0, <4>1, <5>1 DEF Journaled
            <4> QED
                BY <2>6, <4>1, <4>2, <4>3, ChangesOnDisk DEF Journaled
        <3>3. Witness(e)'
            BY <2>3, <3>1, <3>2, WitnessNext DEF Confirms, ConfirmFails
        <3>4. ASSUME w'.pc \in {"confirm", "forget"}
              PROVE  e # w'.e
            <4>1. CASE SamePlace
                BY <3>1, <3>4, <4>1 DEF SamePlace, WorkStays
            <4>2. CASE AckClosed
                <5>1. w.pc = "ack" /\ srv[w.e].daemon = w.daemon /\ w.daemon \notin revoked
                    BY <1>0, <4>2 DEF AckClosed, TypesOK, WorkerOK
                <5>2. w'.e = w.e /\ ~w.undo
                    BY <3>4, <4>2, Moves DEF WorkStays
                <5>3. e = w.e => registry # w.e
                    BY <1>1, <2>3, <3>1, <4>2, <5>2 DEF AckClosed, Witness
                <5> QED
                    BY <3>1, <5>1, <5>2, <5>3 DEF Witness, Installing
            <4>3. ASSUME NEW f \in Enrollments, CleanupLooks(f) PROVE e # w'.e
                <5>1. w'.e = f /\ ~Owns(f)
                    BY <3>4, <4>3, Moves
                <5> QED
                    BY <2>4, <3>1, <5>1 DEF Owns, Orphan, Witness
            <4>4. CASE Confirms
                BY <3>1, <4>4, Moves DEF Confirms, Goes, WorkStays
            <4>5. CASE ~SamePlace /\ ~AckClosed /\ ~Confirms
                <5>1. ~Left /\ \A f \in Enrollments : ~Redeems(f)
                    BY <3>4, Moves DEF Left
                <5>2. /\ ~BacksUp /\ ~Journals /\ ~JournalFails
                      /\ ~(AckAccepted /\ w.ack = "installed")
                    BY <3>4, Moves DEF Goes
                <5>3. ~PrepareFails /\ ~WriteFails /\ ~Verifies /\ ~VerifyFails
                    BY <3>4, Moves
                <5>4. PICK f \in Enrollments : CleanupLooks(f)
                    BY <1>8, <2>1, <2>2, <4>5, <5>1, <5>2, <5>3, Turns
                <5> QED
                    BY <4>3, <5>4
            <4> QED
                BY <4>1, <4>2, <4>4, <4>5
        <3> QED
            BY <3>3, <3>4
    <2> QED
        BY <2>5, <2>6
<1> QED
    BY <1>5, <1>6, <1>7, <1>8 DEF Restores

LEMMA OrphanNext ==
    ASSUME TypesOK, MintsOK, MeetingOK, JournalOK, OrphanOK, [EnNext]_vars
    PROVE  OrphanOK'
<1> USE Constants DEF cloud, files, history, counts
<1>0. /\ w.e \in Enrollments \union {None} /\ (w.pc \in {"idle", "next"} <=> w.e = None)
      /\ journal \in [Enrollments -> Entries] /\ registry \in Everything \union {None}
      /\ excused \subseteq excused' /\ bot' = bot
      /\ registry' \in Everything \union {None}
      /\ AllExcused => AllExcused'
    BY CountsNext, FilesNext DEF TypesOK, WorkerOK, Worker, FilesOK, Grows, AllExcused, Everything
<1>1. AllExcused' => ~Orphan' /\ registry' \in excused' \union {None}
    BY <1>0 DEF Orphan, AllExcused, Everything
<1>2. ASSUME Orphan'
      PROVE  /\ \E e \in Enrollments : Witness(e)'
             /\ w'.pc \in {"confirm", "forget"} => \E e \in Enrollments : e # w'.e /\ Witness(e)'
    BY <1>2, OrphanWitnessed
<1>3. ASSUME NEW e \in Enrollments, CleansUp(e) \/ UnpairSaves, w.e # None
      PROVE  AllExcused'
    BY <1>0, <1>3, Met
<1>4. /\ Writes => profile' # None
      /\ UserInstalls => profile' # None
    <2>1. Writes => profile' # None
        BY WritesIssued DEF Writes, Installing
    <2>2. UserInstalls => Credential(User, installs + 1) \in Credentials
        BY DEF UserInstalls, TypesOK, CountsOK, Credential, Credentials
    <2> QED
        BY <2>1, <2>2 DEF UserInstalls
<1>5. ASSUME w'.pc = "restoreEntry"
      PROVE  profile' # None \/ AllExcused'
    <2>1. CASE Undoes
        BY <1>5, <2>1, Moves DEF Goes, Undoes, RestoresOrRemoves
    <2>2. CASE ~Undoes
        <3>1. SamePlace
            <4>1. ~Left /\ \A e \in Enrollments : ~Redeems(e) /\ ~CleanupLooks(e)
                BY <1>5, Moves DEF Left
            <4>2. /\ ~BacksUp /\ ~Journals /\ ~JournalFails /\ ~Writes /\ ~RemovesEntry
                  /\ ~RestoresEntry /\ ~Confirms /\ ~(AckAccepted /\ w.ack = "installed")
                BY <1>5, Moves DEF Goes
            <4>3. ~PrepareFails /\ ~WriteFails /\ ~Verifies /\ ~VerifyFails /\ ~AckClosed
                BY <1>5, Moves
            <4> QED
                BY <2>2, <4>1, <4>2, <4>3, Turns
        <3>2. w.pc = "restoreEntry" /\ w.e # None
            BY <1>0, <1>5, <3>1 DEF SamePlace
        <3>3. profile # None \/ AllExcused
            BY <3>2 DEF OrphanOK
        <3>4. Restores => AllExcused'
            BY <1>3, <2>2, <3>2 DEF Restores
        <3> QED
            BY <1>0, <1>4, <3>3, <3>4, ChangesOnDisk
    <2> QED
        BY <2>1, <2>2
<1>6. ASSUME u'.pc = "clean", Orphan'
      PROVE  u'.cleaned = {} \/ u'.failed # {}
    <2>1. ~AllExcused'
        BY <1>1, <1>6
    <2>2. ASSUME NEW e \in Enrollments, UnpairCleans(e)
          PROVE  FALSE
        BY <1>6, <2>2 DEF UnpairCleans, Orphan, RestoresOrRemoves, EntryLeft
    <2>3. ASSUME NEW e \in Enrollments, UnpairCleanFails(e)
          PROVE  u'.failed # {}
        BY <2>3 DEF UnpairCleanFails, TypesOK, UnpairOK, Unpair
    <2>4. CASE u' = u /\ \A e \in Enrollments : ~CleansUp(e)
        <3>1. w.e = None
            BY <1>0, <1>6, <2>1, <2>4 DEF MeetingOK, UnpairCleansUp
        <3>2. ~Undoes /\ ~RestoresEntry /\ ~RemovesEntry /\ ~Writes
            BY <1>0, <3>1 DEF Undoes, RestoresEntry, RemovesEntry, Writes
        <3>3. ~UserInstalls
            BY <1>4, <1>6 DEF Orphan
        <3>4. Restarts => registry' = registry
            BY <1>0, <3>1 DEF Restarts
        <3>5. profile' = profile /\ registry' = registry
            BY <2>4, <3>2, <3>3, <3>4, ChangesOnDisk DEF Restores, CleansUp
        <3>6. Orphan
            BY <1>0, <1>6, <3>5 DEF Orphan
        <3> QED
            BY <1>6, <2>4, <3>6 DEF OrphanOK
    <2> QED
        BY <1>6, <2>2, <2>3, <2>4, UnpairTurns DEF CleansUp
<1>7. ASSUME bot, Replacing'
      PROVE  \/ backup' # None \/ w'.e \in Journaled' \/ registry' \in excused' \union {None}
             \/ w'.pc \in {"journal", "write"} /\ profile' = None
    <2> DEFINE Covered == backup # None \/ w.e \in Journaled \/ registry \in excused \union {None}
               CoveredNext == backup' # None \/ w'.e \in Journaled' \/ registry' \in excused' \union {None}
    <2>0. Replacing => Covered \/ (w.pc \in {"journal", "write"} /\ profile = None)
        BY <1>7 DEF OrphanOK
    <2>1. CASE SamePlace
        <3>1. Replacing /\ w.e # None /\ w'.e = w.e /\ w'.pc = w.pc
            BY <1>0, <1>7, <2>1 DEF SamePlace, WorkStays, Replacing
        <3>2. CASE UserInstalls
            BY <1>7, <3>1, <3>2 DEF UserInstalls
        <3>3. ASSUME NEW e \in Enrollments, CleansUp(e) \/ UnpairSaves PROVE registry' \in excused' \union {None}
            BY <1>1, <1>3, <3>1, <3>3
        <3>4. CASE ~UserInstalls /\ ~UnpairSaves /\ \A e \in Enrollments : ~CleansUp(e)
            <4>1. /\ ~Writes /\ ~Journals /\ ~RemovesEntry /\ ~RestoresEntry /\ ~BacksUp
                  /\ ~Undoes
                BY <3>1, Moves DEF Goes, Writes, Journals, RemovesEntry, RestoresEntry, BacksUp, Undoes
            <4>2. ~Discards /\ ~Forgets /\ ~BackupTears
                BY <3>1 DEF Discards, Forgets, BackupTears, Replacing
            <4>3. ~Restarts
                BY <1>7, Moves DEF Rested, Replacing
            <4>4. UNCHANGED <<profile, backup, registry, journal>>
                BY <3>4, <4>1, <4>2, <4>3, ChangesOnDisk DEF Restores, CleansUp
            <4> QED
                BY <1>0, <2>0, <3>1, <4>4 DEF Journaled
        <3>5. UnpairSaves => registry' \in excused' \union {None}
            BY <1>0, <3>1, <3>3
        <3>6. (\E e \in Enrollments : CleansUp(e)) => registry' \in excused' \union {None}
            BY <3>3
        <3> QED
            BY <3>2, <3>4, <3>5, <3>6
    <2>2. ASSUME NEW e \in Enrollments, CleanupLooks(e)
          PROVE  w'.e \in Journaled'
        <3>1. w'.e = e /\ w'.pc = IF Owns(e) THEN "undo" ELSE "confirm"
            BY <2>2, Moves
        <3>2. Owns(e)
            BY <1>7, <3>1 DEF Replacing
        <3>3. journal' = journal
            BY <2>2 DEF CleanupLooks
        <3> QED
            BY <3>1, <3>2, <3>3 DEF Owns, Journaled
    <2>3. CASE BacksUp
        <3>1. w'.e = w.e /\ w'.pc = "journal" /\ UNCHANGED <<profile, journal, registry>>
            BY <2>3, Moves DEF Goes, WorkStays, BacksUp
        <3>2. profile = None \/ Owned(w.e) \/ backup' # None
            BY <2>3 DEF BacksUp, Preexists
        <3> QED
            BY <3>1, <3>2 DEF Owned, Journaled
    <2>4. CASE Journals
        <3>1. /\ w'.e = w.e /\ w.e \in Enrollments
              /\ journal' = [journal EXCEPT ![w.e] = Recorded(w.e)] /\ Recorded(w.e) # NoEntry
            BY <1>0, <2>4, Moves DEF Goes, WorkStays, Journals, Recorded, NoEntry
        <3> QED
            BY <1>0, <3>1 DEF Journaled
    <2>5. CASE Writes
        <3>1. /\ w'.e = w.e /\ w.e \in Enrollments /\ w.pc = "write"
              /\ UNCHANGED <<journal, excused>> /\ registry' = w.e
            BY <1>0, <1>7, <2>5, Moves DEF Goes, WorkStays, Writes
        <3>2. w.n \in journal[w.e].wrote => w.e \in Journaled
            BY <3>1 DEF Journaled, NoEntry
        <3> QED
            BY <3>1, <3>2 DEF JournalOK, Journaled
    <2>6. ASSUME JournalFails \/ WriteFails \/ Verifies \/ VerifyFails \/ AckClosed
          PROVE  CoveredNext \/ (w'.pc \in {"journal", "write"} /\ profile' = None)
        <3>1. Replacing /\ w'.e = w.e /\ UNCHANGED <<profile, backup, registry, journal>>
            BY <1>7, <2>6, Moves
            DEF JournalFails, WriteFails, Verifies, VerifyFails, AckClosed, Goes, WorkStays,
                Replacing, WorkerOnly
        <3>2. w'.pc # "write" => w.pc # "journal" /\ (w.pc = "write" => profile # None)
            BY <1>7, <2>6, Moves
            DEF JournalFails, WriteFails, Verifies, VerifyFails, AckClosed, Goes, Replacing
        <3> QED
            BY <1>0, <2>0, <3>1, <3>2 DEF Journaled
    <2>7. CASE ~SamePlace /\ ~BacksUp /\ ~Journals /\ ~Writes
                 /\ ~(JournalFails \/ WriteFails \/ Verifies \/ VerifyFails \/ AckClosed)
        <3>1. ~Left /\ \A e \in Enrollments : ~Redeems(e)
            BY <1>7, Moves DEF Left, Replacing
        <3>2. /\ ~RemovesEntry /\ ~RestoresEntry /\ ~Confirms /\ ~Undoes
              /\ ~(AckAccepted /\ w.ack = "installed")
            BY <1>7, Moves DEF Goes, Replacing
        <3>3. ~PrepareFails
            BY <1>7, Moves DEF Replacing
        <3>4. PICK e \in Enrollments : CleanupLooks(e)
            BY <2>7, <3>1, <3>2, <3>3, Turns
        <3> QED
            BY <2>2, <3>4
    <2> QED
        BY <2>1, <2>3, <2>4, <2>5, <2>6, <2>7
<1> HIDE DEF Orphan, Witness
<1> QED
    BY <1>0, <1>2, <1>5, <1>6, <1>7 DEF OrphanOK

-----------------------------------------------------------------------------
(* The inductive invariant and what follows from it.                        *)

IInv ==
    /\ TypesOK /\ MintsOK /\ MeetingOK
    /\ OwedOK /\ BackupOK /\ JournalOK /\ UndoneOK /\ InstalledOK
    /\ EtagOK /\ OrphanOK

LEMMA InvInit == EnInit => IInv
<1> SUFFICES ASSUME EnInit PROVE IInv
    OBVIOUS
<1> USE Constants DEF EnInit
<1>1. CountsOK
    BY DEF CountsOK
<1>2. ServerOK
    <2>1. [state |-> "none", daemon |-> None, minted |-> 0] \in Server
        BY DEF Server
    <2> QED
        BY <2>1 DEF ServerOK
<1>3. FilesOK
    BY NoEntryType DEF FilesOK, EntryOK
<1>4. WorkerOK
    BY RestedType DEF WorkerOK, Rested, Installing, Undoing
<1>5. UnpairOK
    <2>1. [e \in Enrollments |-> NoEntry] \in [Enrollments -> Entries]
        BY NoEntryType
    <2>2. NoUnpair \in Unpair
        BY <2>1 DEF NoUnpair, Unpair
    <2> QED
        BY <2>2 DEF UnpairOK, NoUnpair, EntryOK
<1>6. MintsOK
    BY DEF MintsOK
<1>7. MeetingOK
    BY DEF MeetingOK, NoUnpair, UnpairCleansUp
<1>8. OwedOK /\ BackupOK /\ EtagOK
    BY DEF OwedOK, BackupOK, EtagOK, Rested
<1>9. JournalOK /\ UndoneOK /\ InstalledOK
    BY DEF JournalOK, UndoneOK, InstalledOK, Rested, Unexcused
<1>10. OrphanOK
    BY DEF OrphanOK, Orphan, Replacing, Rested
<1> QED
    BY <1>1, <1>2, <1>3, <1>4, <1>5, <1>6, <1>7, <1>8, <1>9, <1>10 DEF IInv, TypesOK

LEMMA InvNext == IInv /\ [EnNext]_vars => IInv'
<1> SUFFICES ASSUME IInv, [EnNext]_vars PROVE IInv'
    OBVIOUS
<1>1. /\ TypesOK /\ MintsOK /\ MeetingOK
      /\ OwedOK /\ BackupOK /\ JournalOK /\ UndoneOK /\ InstalledOK
      /\ EtagOK /\ OrphanOK
    BY DEF IInv
<1>2. TypesOK' /\ MintsOK' /\ MeetingOK'
    BY <1>1, TypesNext, MintsNext, MeetingNext
<1>3. OwedOK' /\ BackupOK' /\ JournalOK' /\ UndoneOK' /\ InstalledOK'
    BY <1>1, OwedNext, BackupNext, JournalNext, UndoneNext, InstalledNext
<1>4. EtagOK' /\ OrphanOK'
    BY <1>1, EtagNext, OrphanNext
<1> QED
    BY <1>2, <1>3, <1>4 DEF IInv

\* However the server closes and revokes, the commands meet, calls fail and
\* processes die: the journal and the server know what is on disk.
THEOREM EnrollInvariant == EnSpec => []IInv
<1> QED
    BY InvInit, InvNext, PTL DEF EnSpec

\* Records, profiles and the worker's memory only name enrollments, pairings
\* and credentials that the server has given out.
THEOREM EnrollTypeCorrect == EnSpec => []EnTypeOK
<1>1. IInv => EnTypeOK
    <2> SUFFICES ASSUME IInv PROVE EnTypeOK
        OBVIOUS
    <2> USE Constants
    <2>1. TypesOK /\ MintsOK
        BY DEF IInv
    <2>2. CountsOK /\ auth \in Daemons \union {None} /\ excused \subseteq Enrollments \union {User}
        <3>1. 1 .. paired \subseteq Daemons
            BY <2>1 DEF TypesOK, CountsOK, Daemons
        <3> QED
            BY <2>1, <3>1 DEF TypesOK, CountsOK, Everything
    <2>3. srv \in [Enrollments -> [state : Open \union {"none", "installed", "closed", "gone"},
                                   daemon : Daemons \union {None}, minted : {0} \union Mints]]
        <3> SUFFICES ASSUME NEW e \in Enrollments PROVE srv[e].minted \in {0} \union Mints
            BY <2>1 DEF TypesOK, ServerOK, Server
        <3>1. srv[e].minted \in Nat /\ srv[e].minted <= faults + 1 /\ faults \in 0 .. MaxFaults
            BY <2>1 DEF TypesOK, CountsOK, MintsOK, ServerOK, Server
        <3> QED
            BY <3>1 DEF Mints
    <2>4. /\ {profile, backup} \subseteq Credentials \union {None}
          /\ registry \in Enrollments \union {User, None}
          /\ ~bot => registry = None
        BY <2>1 DEF TypesOK, FilesOK, Everything
    <2>5. \A e \in Enrollments :
            /\ journal[e].daemon \in {srv[e].daemon, None}
            /\ journal[e].wrote \subseteq 1 .. srv[e].minted
            /\ journal[e].prev \in Enrollments \union {User, None}
        BY <2>1 DEF TypesOK, FilesOK, EntryOK, NoEntry, Entries, Everything
    <2>6. /\ w.pc \in Places
          /\ w.items \union w.cleanups \union w.waiting \subseteq Enrollments
          /\ w.pc \notin {"idle", "next"} => w.e \in Enrollments
        BY <2>1 DEF TypesOK, WorkerOK, Worker
    <2>7. w.pc \in {"prepare", "journal", "write", "verify", "ack"} => w.n \in 1 .. srv[w.e].minted
        BY <2>1, WritesIssued DEF Installing
    <2>8. u.pc \in {"none", "revoke", "load", "clean", "forget"}
        BY <2>1 DEF TypesOK, UnpairOK, Unpair
    <2> QED
        BY <2>2, <2>3, <2>4, <2>5, <2>6, <2>7, <2>8 DEF EnTypeOK, CountsOK
<1> QED
    BY <1>1, EnrollInvariant, PTL

\* No cleanup, no unpair and no failed try removes an install that is owed to
\* the user: it is in its place or set aside.
THEOREM UsersInstallStays == EnSpec => []UsersInstallKept
<1>1. IInv => UsersInstallKept
    BY DEF IInv, OwedOK, InPlace, UsersInstallKept
<1> QED
    BY <1>1, EnrollInvariant, PTL

\* A revoked credential that is left on disk is replaced, redeemed again or
\* still known to the journal and to the server's list of cleanups.
THEOREM DeadInstallsAreNoticed == EnSpec => []NoDeadInstall
<1>1. IInv => NoDeadInstall
    <2> SUFFICES ASSUME IInv, auth # None, auth \notin revoked, profile # None, ~Alive(profile),
                        Installed, profile.of \notin excused
                 PROVE  \/ srv[profile.of].daemon = auth /\ srv[profile.of].state = "redeemed"
                        \/ /\ srv[profile.of].state = "closed"
                           /\ profile.n \in journal[profile.of].wrote
        BY DEF NoDeadInstall
    <2> DEFINE e == profile.of
    <2>1. e \in Enrollments /\ profile.n \in 1 .. srv[e].minted /\ Unexcused(profile)
        BY DEF IInv, TypesOK, FilesOK, Issued, Alive, Unexcused
    <2>2. profile.n \in journal[e].wrote
        BY <2>1 DEF IInv, JournalOK
    <2>3. e \in Journaled /\ Matches(journal[e], e)
        BY <2>1, <2>2 DEF Journaled, NoEntry, Matches
    <2>4. journal[e].daemon = auth
        BY <2>3 DEF Installed, NeedsRefresh
    <2>5. srv[e].daemon = auth
        BY <2>1, <2>3, <2>4 DEF IInv, TypesOK, FilesOK, EntryOK, Journaled
    <2>6. srv[e].state \in {"redeemed", "installed", "closed"}
        BY <2>1 DEF IInv, TypesOK, ServerOK, Server, InstalledOK, Open
    <2>7. srv[e].state # "installed"
        <3>1. srv[e].state = "installed" => profile.n = srv[e].minted
            BY <2>1 DEF IInv, InstalledOK
        <3> QED
            BY <2>5, <3>1 DEF Alive
    <2> QED
        BY <2>2, <2>5, <2>6, <2>7
<1> QED
    BY <1>1, EnrollInvariant, PTL

\* The journal keeps a record for as long as the registry lists a bot whose
\* profile was removed.
THEOREM OrphansAreRecorded == EnSpec => []NoOrphanEntry
<1>1. IInv => NoOrphanEntry
    BY DEF IInv, OrphanOK, Orphan, Witness, NoOrphanEntry
<1> QED
    BY <1>1, EnrollInvariant, PTL

\* The worker never keeps the etag of a list in which something is left to do.
THEOREM UnchangedIsDone == EnSpec => []UnchangedMeansDone
<1>1. IInv => UnchangedMeansDone
    <2> SUFFICES ASSUME IInv, w.pc = "idle", auth # None, w.etag = {Fingerprint(auth)},
                        NEW e \in Listed(auth)
                 PROVE  FALSE
        BY DEF UnchangedMeansDone, Fingerprint
    <2> DEFINE t == <<e, srv[e].state, srv[e].minted>>
    <2>1. t \in Fingerprint(auth) /\ e \in Enrollments /\ srv[e].minted \in Nat
        BY DEF Fingerprint, Listed, IInv, TypesOK, ServerOK, Server
    <2>2. Past(t) \/ Before(t)
        BY <2>1 DEF IInv, EtagOK
    <2>3. ~Before(t)
        BY DEF Before, IInv, TypesOK, WorkerOK, Undoing
    <2>4. srv[e].state \in Open \union {"closed"}
        BY DEF Listed
    <2> QED
        BY <2>1, <2>2, <2>3, <2>4 DEF Past, Open
<1> QED
    BY <1>1, EnrollInvariant, PTL
=============================================================================
