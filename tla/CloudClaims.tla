---------------------------- MODULE CloudClaims ----------------------------
(***************************************************************************)
(* What the daemon does with a message that came from a cloud notification *)
(* (daemon.go, notification_ops.go, repair.go). A claim of the cloud backs *)
(* the local delivery, so an ack, release or renew is journaled as a       *)
(* pending operation, sent to the cloud under its operation id with no     *)
(* lock held, and applied to the store when the cloud has agreed. The      *)
(* journal survives a crash and is replayed by the repair at start-up or   *)
(* on request, while the poller may bring the same notification again      *)
(* under a new claim.                                                      *)
(*                                                                         *)
(* One notification and its message are modelled. Every step that the code *)
(* makes under busMu is one action, guarded by BusFree; a repair holds the *)
(* lock for its whole pass, and the cloud call of one replayed operation   *)
(* is one action with what it decides. Release reasons and lease times of  *)
(* requests are all alike, and requests carry no op_id.                    *)
(***************************************************************************)
EXTENDS MessageStore

CONSTANTS Msg,          \* the message
          Slots,        \* requests that can be in progress at a time
          Kinds,        \* operations that the agents ask for
          MaxClaims,    \* bound: claims the cloud grants on the notification
          MaxOps,       \* bound: operations journaled
          MaxStarts     \* bound: crashes and requested repairs, together

ASSUME CloudAssumption ==
    /\ CloudMessages = {Msg} /\ LocalMessages = {}
    /\ Kinds \subseteq {"ack", "release", "renew"}
    /\ MaxClaims \in Nat /\ MaxOps \in Nat /\ MaxStarts \in Nat

VARIABLES cloud,      \* external: status of the notification, its newest claim
          metadata,   \* claim of the private metadata file, 0 if not readable
          ops,        \* what each operation id stands for
          pending,    \* ids with a file in ops/pending
          done,       \* ids with a file in ops/done
          applied,    \* external: ids the cloud has carried out
          loose,      \* ids sent by a call whose answer nobody reads any more
          calls,      \* the operation each request waits for, or 0
          poller,     \* the notification poller and its journaled lease
          running,    \* sessions that are alive
          repair,     \* the repair pass: operations to replay, blocked message
          starts      \* crashes and repairs so far

journalVars == <<ops, pending, done>>
cloudVars == <<cloud, applied, loose>>
daemonVars == <<metadata, calls, poller, running, repair, starts>>
ccVars == <<storeVars, journalVars, cloudVars, daemonVars>>

OpIds == 1..MaxOps
Claims == 1..MaxClaims

\* A "decline" is a release with the reserved reason declinedDuplicateRelease.
Op == [kind : {"ack", "release", "renew", "decline"}, claim : Claims,
       holder : Holders \cup {None}]
NoOp == [kind |-> "none", claim |-> 0, holder |-> None]

Terminal == {"ack", "release"}

Created == {i \in OpIds : ops[i] # NoOp}

\* Operations without an entry in the done archive, which the lookups skip.
Open == pending \ done
OpenOf(kinds, c) == {i \in Open : ops[i].kind \in kinds /\ ops[i].claim = c}

Idle == [phase |-> "idle", claim |-> 0, op |-> 0, base |-> 0, keep |-> FALSE]
Leased(c) == [Idle EXCEPT !.phase = "leased", !.claim = c]

NoCalls == [x \in Slots |-> 0]
Called == {calls[x] : x \in Slots} \cup {poller.op}
NoRepair == [on |-> FALSE, todo |-> {}, blocked |-> FALSE]

BusFree == ~repair.on

CCInit ==
    /\ StoreInit
    /\ cloud = [status |-> "open", claim |-> 0] /\ metadata = 0
    /\ ops = [i \in OpIds |-> NoOp] /\ pending = {} /\ done = {}
    /\ applied = {} /\ loose = {}
    /\ calls = NoCalls /\ poller = Idle
    /\ running = Sessions /\ repair = NoRepair /\ starts = 0

-----------------------------------------------------------------------------
(* The cloud. *)

\* The lease of a claim runs out, and the notification is open again.
CloudLeaseEnds ==
    /\ cloud.status = "leased"
    /\ cloud' = [cloud EXCEPT !.status = "open"]
    /\ UNCHANGED <<storeVars, journalVars, applied, loose, daemonVars>>

Grants(i) == cloud.status = "leased" /\ cloud.claim = ops[i].claim

CloudAfter(i) ==
    [cloud EXCEPT !.status = CASE ops[i].kind = "ack" -> "acked"
                               [] ops[i].kind = "renew" -> "leased"
                               [] OTHER -> "open"]

\* A request that is on its way reaches the cloud, which carries it out once.
CloudCarriesOut(i) ==
    /\ i \in (loose \cup Called) \ (applied \cup {0})
    /\ Grants(i)
    /\ cloud' = CloudAfter(i)
    /\ applied' = applied \cup {i}
    /\ UNCHANGED <<storeVars, journalVars, loose, daemonVars>>

-----------------------------------------------------------------------------
(* The journal. *)

\* Mutant: the file is there before what it says.
BeginsEmpty(i, kind, c, h) ==
    /\ i \in OpIds \ Created /\ \A j \in OpIds \ Created : i <= j
    /\ pending' = pending \cup {i}
    /\ UNCHANGED ops

\* The pending operation i is there, or is created, for this request.
Begins(i, kind, c, h) ==
    LET reusable == OpenOf({kind}, c)
    IN  IF reusable = {}
        THEN /\ i \in OpIds \ Created
             /\ \A j \in OpIds \ Created : i <= j
             /\ ops' = [ops EXCEPT ![i] = [kind |-> kind, claim |-> c, holder |-> h]]
             /\ pending' = pending \cup {i}
        ELSE /\ i \in reusable /\ ops[i].holder = h
             /\ UNCHANGED <<ops, pending>>

Completes(S) == done' = done \cup S /\ pending' = pending \ S
Abandons(S) == pending' = pending \ S /\ UNCHANGED done

\* The local delivery shows that the operation has taken place.
Reflected(i) ==
    \/ ops[i].kind = "ack" /\ row[Msg].state = "acked" /\ row[Msg].holder = ops[i].holder
    \/ ops[i].kind = "release" /\ row[Msg].state = "released"

\* The store's part of an operation that the cloud agreed to.
Settles(i) ==
    LET next == IF ops[i].kind = "ack" THEN "acked" ELSE "released"
    IN  IF ops[i].kind = "renew"
        THEN \E l \in CloudLeases : RenewCloudMessage(Msg, ops[i].holder, l)
        ELSE \/ row[Msg].state = next /\ UNCHANGED storeVars
             \/ FinishCloudClaimedMessage(Msg, ops[i].holder, next)

CanSettle(i) ==
    \/ ClaimedBy(Msg, ops[i].holder)
    \/ ops[i].kind = "ack" /\ row[Msg].state = "acked"
    \/ ops[i].kind = "release" /\ row[Msg].state = "released"

\* The daemon dies: its calls are not waited for. The start-up repair holds the
\* bus before requests are served; the poller's lease operation is journaled.
Dies(pend) ==
    /\ starts < MaxStarts /\ starts' = starts + 1
    /\ calls' = NoCalls
    /\ loose' = (loose \cup Called) \ {0}
    /\ poller' = IF poller.claim = 0 THEN Idle ELSE Leased(poller.claim)
    /\ repair' = [on |-> TRUE, todo |-> pend, blocked |-> FALSE]

Crash ==
    /\ Dies(pending)
    /\ UNCHANGED <<storeVars, journalVars, cloud, applied, metadata, running>>

-----------------------------------------------------------------------------
(* Requests of sessions and owners. *)

MayAsk(h) == h \in running \cup Owners

\* receiveMessage: a message without metadata is quarantined instead.
Receives(h) ==
    /\ BusFree /\ MayAsk(h)
    /\ WaitReady(Msg)
    /\ IF metadata = 0 THEN QuarantineCloudMessage(Msg) ELSE ClaimMessage(Msg, h)
    /\ UNCHANGED <<journalVars, cloudVars, daemonVars>>

\* Another operation that would end the claim is in progress.
Conflicting(kind, h) ==
    /\ kind \in Terminal
    /\ \E j \in OpenOf(Terminal, metadata) : ops[j].kind # kind \/ ops[j].holder # h

\* Mutant: the preflight for a conflicting ack or release is left out.
AskWithoutPreflight(x, h, kind) ==
    /\ BusFree /\ MayAsk(h) /\ calls[x] = 0 /\ metadata # 0
    /\ ClaimedBy(Msg, h)
    /\ LeaseExpired(Msg) => OpenOf({kind}, metadata) # {}
    /\ \E i \in OpIds : Begins(i, kind, metadata, h) /\ calls' = [calls EXCEPT ![x] = i]
    /\ UNCHANGED <<storeVars, done, cloudVars, metadata, poller, running, repair, starts>>

\* Up to the cloud call of renewCloudMessageLocked and finishCloudMessageLocked.
\* A pending operation is taken up again, also when the lease is over.
Ask(x, h, kind) ==
    /\ BusFree /\ MayAsk(h) /\ calls[x] = 0 /\ metadata # 0
    /\ ClaimedBy(Msg, h)
    /\ LeaseExpired(Msg) => OpenOf({kind}, metadata) # {}
    /\ ~Conflicting(kind, h)
    /\ \E i \in OpIds : Begins(i, kind, metadata, h) /\ calls' = [calls EXCEPT ![x] = i]
    /\ UNCHANGED <<storeVars, done, cloudVars, metadata, poller, running, repair, starts>>

\* A retry finds the delivery done and its operation pending: it completes it.
RecoverLocallyCompleted(h, i) ==
    /\ BusFree /\ MayAsk(h) /\ metadata # 0
    /\ i \in OpenOf(Terminal, metadata) /\ ops[i].holder = h /\ Reflected(i)
    /\ Completes({i})
    /\ UNCHANGED <<storeVars, ops, cloudVars, daemonVars>>

\* The cloud agreed. If the operation is still the pending one of the message's
\* claim, the store is written, then the done archive, then the pending file is
\* removed; the daemon may die between two of these steps, and when the store
\* refuses, the operation stays pending.
LocalCompletion(x) ==
    LET i == calls[x]
        returned == calls' = [calls EXCEPT ![x] = 0]
                    /\ UNCHANGED <<loose, poller, repair, starts>>
    IN  /\ BusFree /\ i # 0 /\ i \in applied
        /\ IF i \notin pending \/ ops[i].claim # metadata \/ ~CanSettle(i)
           THEN returned /\ UNCHANGED <<storeVars, pending, done>>
           ELSE /\ Settles(i)
                /\ \/ Completes({i}) /\ returned
                   \/ done' = done \cup {i} /\ UNCHANGED pending /\ Dies(pending)
                   \/ UNCHANGED <<pending, done>> /\ Dies(pending)
        /\ UNCHANGED <<ops, cloud, applied, metadata, running>>

\* Mutant: no answer is taken for an agreement.
AnswerAssumed(x) ==
    /\ BusFree /\ calls[x] \in pending /\ CanSettle(calls[x])
    /\ Settles(calls[x]) /\ Completes({calls[x]})
    /\ calls' = [calls EXCEPT ![x] = 0]
    /\ UNCHANGED <<ops, cloudVars, metadata, poller, running, repair, starts>>

\* No answer, or one that leaves open what happened: the operation stays.
AnswerUncertain(x) ==
    /\ calls[x] # 0
    /\ calls' = [calls EXCEPT ![x] = 0]
    /\ loose' = loose \cup {calls[x]}
    /\ UNCHANGED <<storeVars, journalVars, cloud, applied, metadata, poller,
                   running, repair, starts>>

\* The cloud says no, which it may for any reason: the operation is abandoned,
\* without taking busMu.
AnswerRefused(x) ==
    /\ calls[x] # 0
    /\ Abandons({calls[x]})
    /\ calls' = [calls EXCEPT ![x] = 0]
    /\ UNCHANGED <<storeVars, ops, cloudVars, metadata, poller, running, repair, starts>>

-----------------------------------------------------------------------------
(* Claims taken from a session, and the repair. *)

Abandoned(h) == LeaseExpired(Msg) \/ h \in Sessions \ running

\* The store's part when the cloud refuses to end an abandoned claim.
ClearsAbandoned(h) ==
    IF LeaseExpired(Msg) THEN FinishCloudClaimedMessage(Msg, h, "released")
    ELSE RequeueCloudMessageLocally(Msg, h)

\* releaseAbandonedCloudClaimLocked, with no terminal operation open: a release
\* is journaled and replayed at once. The renews are abandoned before it.
ReleaseAbandonedCloudClaim(h, renews) ==
    LET rest == pending \ renews
    IN  IF metadata = 0
        THEN /\ QuarantineCloudMessage(Msg)
             /\ pending' = rest /\ UNCHANGED <<ops, done, cloudVars>>
        ELSE \E i \in OpIds \ Created :
               /\ \A j \in OpIds \ Created : i <= j
               /\ ops' = [ops EXCEPT ![i] = [kind |-> "release", claim |-> metadata,
                                             holder |-> h]]
               /\ \/ /\ cloud.status = "leased" /\ cloud.claim = metadata
                     /\ cloud' = [cloud EXCEPT !.status = "open"]
                     /\ applied' = applied \cup {i}
                     /\ FinishCloudClaimedMessage(Msg, h, "released")
                     /\ done' = done \cup {i} /\ pending' = rest
                     /\ UNCHANGED loose
                  \/ /\ pending' = rest \cup {i} /\ loose' = loose \cup {i}
                     /\ UNCHANGED <<storeVars, done, cloud, applied>>
                  \/ /\ ClearsAbandoned(h) /\ pending' = rest
                     /\ UNCHANGED <<done, cloudVars>>

\* Mutant: a message is requeued although its ack is on its way.
StopIgnoresPendingAck(s) ==
    /\ BusFree /\ (s \in running \/ ClaimedBy(Msg, s))
    /\ running' = running \ {s}
    /\ IF ~ClaimedBy(Msg, s) THEN UNCHANGED <<storeVars, pending, done>>
       ELSE Abandons(OpenOf({"renew"}, metadata)) /\ RequeueCloudMessageLocally(Msg, s)
    /\ UNCHANGED <<ops, cloudVars, metadata, calls, poller, repair, starts>>

\* Mutant: the renews of the session stay in the journal.
StopKeepsRenews(s) ==
    /\ BusFree /\ ClaimedBy(Msg, s)
    /\ OpenOf(Terminal, metadata) = {} /\ metadata # 0 /\ ~LeaseExpired(Msg)
    /\ running' = running \ {s}
    /\ RequeueCloudMessageLocally(Msg, s)
    /\ UNCHANGED <<journalVars, cloudVars, metadata, calls, poller, repair, starts>>

\* A session is stopped, reset or found dead (releaseSessionClaimsLocked): its
\* renews are abandoned, and its claim ends unless an ack or a release is on its
\* way.
SessionStops(s) ==
    LET mine == IF metadata = 0 THEN Open ELSE OpenOf(Terminal \cup {"renew"}, metadata)
        renews == {i \in mine : ops[i].kind = "renew"}
        ending == {i \in mine : ops[i].kind \in Terminal}
    IN  /\ BusFree /\ (s \in running \/ ClaimedBy(Msg, s))
        /\ running' = running \ {s}
        /\ IF ~ClaimedBy(Msg, s)
           THEN UNCHANGED <<storeVars, journalVars, cloudVars>>
           ELSE IF ending = {} /\ (metadata = 0 \/ LeaseExpired(Msg))
           THEN ReleaseAbandonedCloudClaim(s, renews)
           ELSE /\ IF ending # {} THEN UNCHANGED storeVars
                   ELSE RequeueCloudMessageLocally(Msg, s)
                /\ Abandons(renews)
                /\ UNCHANGED <<ops, cloudVars>>
        /\ UNCHANGED <<metadata, calls, poller, repair, starts>>

\* A session's terminal is gone and nobody has noticed yet.
SessionDies(s) ==
    /\ s \in running /\ running' = running \ {s}
    /\ UNCHANGED <<storeVars, journalVars, cloudVars, metadata, calls, poller,
                   repair, starts>>

\* The metadata file cannot be read any more.
MetadataLost ==
    /\ metadata # 0 /\ metadata' = 0
    /\ UNCHANGED <<storeVars, journalVars, cloudVars, calls, poller, running,
                   repair, starts>>

\* `bus repair` takes the bus and reads which operations are pending.
RepairStarts ==
    /\ BusFree /\ starts < MaxStarts /\ starts' = starts + 1
    /\ repair' = [on |-> TRUE, todo |-> pending, blocked |-> FALSE]
    /\ UNCHANGED <<storeVars, journalVars, cloudVars, metadata, calls, poller, running>>

RepairGoesOn(i, blocks) ==
    /\ repair' = [repair EXCEPT !.todo = @ \ {i}, !.blocked = @ \/ blocks]
    /\ UNCHANGED <<ops, metadata, calls, poller, running, starts>>

\* An ack also ends a claim that replaced its own on the same notification.
MatchesMetadata(i) ==
    metadata \in {0, ops[i].claim} \/ ops[i].kind \in {"ack", "decline"}

Fresher(i) == ops[i].kind = "ack" /\ \E j \in Open : ops[j].kind = "ack" /\ j > i

\* A renew needs the metadata of its own claim; a decline needs no message.
Replayable(i) ==
    \/ ops[i].kind = "decline"
    \/ /\ MatchesMetadata(i) /\ ClaimedBy(Msg, ops[i].holder)
       /\ ~Reflected(i) /\ ~Fresher(i)
       /\ ops[i].kind = "renew" => metadata # 0

\* The archive or the delivery shows that the operation is done.
RepairCompletes(i) ==
    /\ i \in repair.todo
    /\ i \in done \/ (MatchesMetadata(i) /\ Reflected(i))
    /\ Completes({i})
    /\ RepairGoesOn(i, FALSE)
    /\ UNCHANGED <<storeVars, cloudVars>>

RepairDropsRenew(i) ==
    /\ i \in repair.todo \ done
    /\ ops[i].kind = "renew" /\ metadata = 0
    /\ Abandons({i})
    /\ RepairGoesOn(i, FALSE)
    /\ UNCHANGED <<storeVars, cloudVars>>

\* The operation is sent again. When the cloud refuses an ack or a release, an
\* abandoned claim is cleared as well.
RepairReplays(i) ==
    /\ i \in (repair.todo \cap pending) \ done
    /\ Replayable(i)
    /\ \/ /\ i \in applied \/ Grants(i)
          /\ cloud' = IF i \in applied THEN cloud ELSE CloudAfter(i)
          /\ applied' = applied \cup {i}
          /\ IF ops[i].kind = "decline" THEN UNCHANGED storeVars ELSE Settles(i)
          /\ Completes({i})
          /\ RepairGoesOn(i, FALSE)
          /\ UNCHANGED loose
       \/ /\ loose' = loose \cup {i}
          /\ RepairGoesOn(i, ops[i].kind # "decline")
          /\ UNCHANGED <<storeVars, pending, done, cloud, applied>>
       \/ /\ IF ops[i].kind \in Terminal /\ Abandoned(ops[i].holder)
             THEN ClearsAbandoned(ops[i].holder)
             ELSE UNCHANGED storeVars
          /\ Abandons({i})
          /\ RepairGoesOn(i, FALSE)
          /\ UNCHANGED cloudVars

\* It cannot be replayed: its message is not looked at in this pass.
RepairIsBlocked(i) ==
    /\ i \in repair.todo \ done
    /\ ~Replayable(i) /\ ~(MatchesMetadata(i) /\ Reflected(i))
    /\ ~(ops[i].kind = "renew" /\ metadata = 0)
    /\ RepairGoesOn(i, TRUE)
    /\ UNCHANGED <<storeVars, pending, done, cloudVars>>

\* A request abandoned the operation meanwhile: the pass ends with an error.
RepairFails(i) ==
    /\ i \in repair.todo \ (pending \cup done)
    /\ Replayable(i)
    /\ repair' = NoRepair
    /\ UNCHANGED <<storeVars, journalVars, cloudVars, metadata, calls, poller,
                   running, starts>>

\* With every operation looked at, an abandoned claim ends.
RepairClaims ==
    /\ repair.on /\ repair.todo = {} /\ repair' = NoRepair
    /\ \/ /\ repair.blocked \/ \A h \in Holders : ~(ClaimedBy(Msg, h) /\ Abandoned(h))
          /\ UNCHANGED <<storeVars, journalVars, cloudVars>>
       \/ \E h \in Holders :
            /\ ~repair.blocked /\ ClaimedBy(Msg, h) /\ Abandoned(h)
            /\ \/ ReleaseAbandonedCloudClaim(h, {})
               \/ /\ ~LeaseExpired(Msg) /\ RequeueCloudMessageLocally(Msg, h)
                  /\ UNCHANGED <<journalVars, cloudVars>>
    /\ UNCHANGED <<metadata, calls, poller, running, starts>>
-----------------------------------------------------------------------------
(* The poller. *)

\* A lease on the notification; its operation is journaled until it is ingested.
PollerLeases ==
    /\ BusFree /\ poller = Idle
    /\ cloud.status = "open" /\ cloud.claim < MaxClaims
    /\ cloud' = [status |-> "leased", claim |-> cloud.claim + 1]
    /\ poller' = Leased(cloud.claim + 1)
    /\ UNCHANGED <<storeVars, journalVars, applied, loose, metadata, calls,
                   running, repair, starts>>

\* The lease operation is completed, unless the daemon dies before.
WaitOperationEnds(pend) ==
    \/ poller' = Idle /\ UNCHANGED <<loose, calls, repair, starts>>
    \/ Dies(pend)

\* The claim is of no use and is to be handed back.
Declining(c) == [Leased(c) EXCEPT !.phase = "declines"]

\* shouldAdoptCloudNotificationLease
Adoptable == row[Msg].state # "acked" /\ \A h \in Holders : ClaimedBy(Msg, h) => Abandoned(h)

Ingesting == BusFree /\ poller.phase = "leased"

IngestsNew ==
    /\ Ingesting /\ row[Msg].state = "absent"
    /\ metadata' = poller.claim
    /\ \E l \in CloudLeases : InsertCloudNotificationMessage(Msg, l)
    /\ WaitOperationEnds(pending)
    /\ UNCHANGED <<journalVars, cloud, applied, running>>

\* The message is open, or its claim abandoned: it is offered under the new
\* claim, or declined when the redelivery cap has just stopped it.
IngestsAgain ==
    /\ Ingesting /\ metadata # 0 /\ row[Msg].state # "absent" /\ Adoptable
    /\ OpenOf(Terminal, metadata) = {}
    /\ metadata' = poller.claim
    /\ \E l \in CloudLeases :
         RefreshCloudNotificationLease(Msg, l, row[Msg].state = "claimed")
    /\ LET rest == pending \ OpenOf({"renew"}, metadata)
       IN  /\ pending' = rest
           /\ IF row'[Msg].state = "acked"
              THEN poller' = Declining(poller.claim) /\ UNCHANGED <<loose, calls, repair, starts>>
              ELSE WaitOperationEnds(rest)
    /\ UNCHANGED <<ops, done>>
    /\ UNCHANGED <<cloud, applied, running>>

\* The metadata is written before the store: the store refuses, or the daemon
\* dies between two of these steps. The lease operation stays in the journal.
IngestStops ==
    LET rest == pending \ OpenOf({"renew"}, metadata)
    IN  /\ Ingesting
        /\ \/ row[Msg].state = "absent"
           \/ metadata # 0 /\ Adoptable /\ OpenOf(Terminal, metadata) = {}
        /\ metadata' \in {metadata, poller.claim}
        /\ pending' = rest
        /\ \/ UNCHANGED <<poller, loose, calls, repair, starts>>
           \/ Dies(rest)
        /\ UNCHANGED <<storeVars, ops, done, cloud, applied, running>>

\* The lease is that of the claim under which the message is in live hands.
HasThisClaim == ~Adoptable /\ row[Msg].state = "claimed" /\ metadata = poller.claim

\* Mutant: the duplicate's lease operation is just completed.
DropsDuplicate ==
    /\ Ingesting /\ metadata # 0 /\ row[Msg].state # "absent" /\ ~Adoptable
    /\ OpenOf(Terminal, metadata) = {}
    /\ WaitOperationEnds(pending)
    /\ UNCHANGED <<storeVars, journalVars, cloud, applied, metadata, running>>

\* The message is done or in live hands, and nothing is on its way.
DeclinesDuplicate ==
    /\ Ingesting /\ metadata # 0 /\ row[Msg].state # "absent" /\ ~Adoptable
    /\ OpenOf(Terminal, metadata) = {}
    /\ IF HasThisClaim THEN WaitOperationEnds(pending)
       ELSE poller' = Declining(poller.claim) /\ UNCHANGED <<loose, calls, repair, starts>>
    /\ UNCHANGED <<storeVars, journalVars, cloud, applied, metadata, running>>

\* An ack or a release is on its way: the renews are abandoned. An ack is to be
\* retried, after a release the new claim is of no use.
MeetsPendingTerminal ==
    LET ending == OpenOf(Terminal, metadata)
        acks == {i \in ending : ops[i].kind = "ack"}
        rest == pending \ OpenOf({"renew"}, metadata)
    IN  /\ Ingesting /\ metadata # 0 /\ row[Msg].state # "absent" /\ ending # {}
        /\ pending' = rest
        /\ \/ \E i \in acks :
                /\ poller' = [poller EXCEPT !.phase = "retrying", !.base = i,
                                            !.keep = HasThisClaim]
                /\ UNCHANGED <<loose, calls, repair, starts>>
           \/ /\ acks = {} /\ ~HasThisClaim
              /\ poller' = Declining(poller.claim)
              /\ UNCHANGED <<loose, calls, repair, starts>>
           \/ acks = {} /\ HasThisClaim /\ WaitOperationEnds(rest)
        /\ UNCHANGED <<storeVars, ops, done, cloud, applied, metadata, running>>

\* The notification is known, its metadata cannot be read: the message is not
\* offered any more, unless an ack or a release is on its way.
MissesMetadata ==
    LET renews == {i \in Open : ops[i].kind = "renew"}
        ending == {i \in Open : ops[i].kind \in Terminal}
    IN  /\ Ingesting /\ metadata = 0 /\ row[Msg].state # "absent"
        /\ pending' = pending \ renews
        /\ IF ending = {} /\ row[Msg].state \in {"unclaimed", "claimed"}
           THEN QuarantineCloudMessage(Msg) ELSE UNCHANGED storeVars
        /\ poller' = Declining(poller.claim)
        /\ UNCHANGED <<ops, done, cloudVars, metadata, calls, running, repair, starts>>

\* With no lock, the claim is handed back under a journaled operation.
PollerDeclines ==
    /\ poller.phase = "declines"
    /\ \E i \in OpIds :
         /\ Begins(i, "decline", poller.claim, None)
         /\ poller' = [poller EXCEPT !.phase = "declining", !.op = i]
    /\ UNCHANGED <<storeVars, done, cloudVars, metadata, calls, running, repair, starts>>

\* With no lock: the pending ack is to be made good under the fresh claim, by an
\* ack operation of its own, unless the delivery is not its holder's any more.
RetryUsable(i) ==
    /\ i \in pending \cup done
    /\ metadata = ops[i].claim
    /\ Reflected(i) \/ ClaimedBy(Msg, ops[i].holder)

NotRetried == IF poller.keep THEN Idle ELSE Declining(poller.claim)

PollerRetriesAck ==
    /\ poller.phase = "retrying"
    /\ IF RetryUsable(poller.base)
       THEN \E j \in OpIds :
              /\ Begins(j, "ack", poller.claim, ops[poller.base].holder)
              /\ poller' = [poller EXCEPT !.phase = "acking", !.op = j]
       ELSE poller' = NotRetried /\ UNCHANGED <<ops, pending>>
    /\ UNCHANGED <<storeVars, done, cloudVars, metadata, calls, running, repair, starts>>

\* The claim has been handed back.
DeclineAccepted ==
    /\ poller.phase = "declining" /\ poller.op \in applied
    /\ Completes({poller.op})
    /\ poller' = Idle
    /\ UNCHANGED <<storeVars, ops, cloudVars, metadata, calls, running, repair, starts>>

\* Under the bus: the retried ack and the fresh one are completed together.
RetriedAckAccepted ==
    LET i == poller.base
        again == Leased(poller.claim)
    IN  /\ BusFree /\ poller.phase = "acking" /\ poller.op \in applied
        /\ IF metadata = ops[i].claim /\ Reflected(i) /\ i \in pending \cup done
           THEN /\ Completes(IF i \in pending THEN {i, poller.op} ELSE {poller.op})
                /\ poller' = Idle /\ UNCHANGED storeVars
           ELSE IF metadata = ops[i].claim /\ i \in pending /\ ClaimedBy(Msg, ops[i].holder)
           THEN /\ FinishCloudClaimedMessage(Msg, ops[i].holder, "acked")
                /\ Completes({i, poller.op})
                /\ poller' = Idle
           ELSE poller' = again /\ UNCHANGED <<storeVars, pending, done>>
        /\ UNCHANGED <<ops, cloudVars, metadata, calls, running, repair, starts>>

\* The call of the poller is uncertain: the operation stays in the journal.
PollerUncertain ==
    /\ poller.op # 0
    /\ loose' = loose \cup {poller.op}
    /\ poller' = Idle
    /\ UNCHANGED <<storeVars, journalVars, cloud, applied, metadata, calls,
                   running, repair, starts>>

\* It is refused: a refused decline is over or tried again, after a refused ack
\* the claim is of no use.
PollerRefused ==
    /\ poller.op # 0
    /\ Abandons({poller.op})
    /\ poller' \in IF poller.phase = "acking" THEN {NotRetried}
                   ELSE {Idle, Leased(poller.claim)}
    /\ UNCHANGED <<storeVars, ops, cloudVars, metadata, calls, running, repair, starts>>

-----------------------------------------------------------------------------

PollerNext ==
    \/ PollerLeases \/ IngestsNew \/ IngestsAgain \/ IngestStops
    \/ DeclinesDuplicate \/ MeetsPendingTerminal \/ MissesMetadata \/ PollerDeclines \/ PollerRetriesAck
    \/ DeclineAccepted \/ RetriedAckAccepted \/ PollerUncertain \/ PollerRefused

RepairNext ==
    \/ RepairStarts \/ RepairClaims
    \/ \E i \in OpIds :
         \/ RepairCompletes(i) \/ RepairDropsRenew(i) \/ RepairReplays(i)
         \/ RepairIsBlocked(i) \/ RepairFails(i)

LeaseRunsOutHere ==
    LeaseRunsOut(Msg) /\ UNCHANGED <<journalVars, cloudVars, daemonVars>>

CCNext ==
    \/ CloudLeaseEnds \/ LeaseRunsOutHere \/ MetadataLost \/ Crash
    \/ \E i \in OpIds : CloudCarriesOut(i)
    \/ \E s \in Sessions : SessionStops(s) \/ SessionDies(s)
    \/ \E h \in Holders : Receives(h)
    \/ \E h \in Holders, i \in OpIds : RecoverLocallyCompleted(h, i)
    \/ \E x \in Slots :
         \/ \E h \in Holders, kind \in Kinds : Ask(x, h, kind)
         \/ LocalCompletion(x) \/ AnswerUncertain(x) \/ AnswerRefused(x)
    \/ PollerNext
    \/ RepairNext

CCSpec == CCInit /\ [][CCNext]_ccVars

-----------------------------------------------------------------------------
(* Properties. *)

CCTypeOK ==
    /\ TypeOK
    /\ cloud \in [status : {"open", "leased", "acked"}, claim : 0..MaxClaims]
    /\ metadata \in 0..MaxClaims
    /\ ops \in [OpIds -> Op \cup {NoOp}]
    /\ pending \subseteq Created /\ done \subseteq Created
    /\ applied \subseteq Created /\ loose \subseteq Created
    /\ calls \in [Slots -> Created \cup {0}]
    /\ poller \in [phase : {"idle", "leased", "retrying", "declines", "acking", "declining"},
                   claim : 0..MaxClaims, op : Created \cup {0}, base : Created \cup {0},
                   keep : BOOLEAN]
    /\ running \subseteq Sessions
    /\ repair \in [on : BOOLEAN, todo : SUBSET Created, blocked : BOOLEAN]
    /\ starts \in 0..MaxStarts

\* The daemon never believes in an ack that the cloud has not agreed to: a
\* message acked by a holder, and an ack in the done archive, imply that the
\* notification is acked in the cloud, through crashes, retries under another
\* claim, lost answers and replays.
AckAgreed ==
    (\/ row[Msg].state = "acked" /\ row[Msg].holder # None
     \/ \E i \in done : ops[i].kind = "ack")
    => cloud.status = "acked"

\* At most one operation that would end a claim is on its way, whoever asked for
\* it: an ack and a release of the same claim never race each other to the cloud.
OneTerminalPerClaim ==
    \A i, j \in Open :
        /\ ops[i].kind \in Terminal /\ ops[j].kind \in Terminal
        /\ ops[i].claim = ops[j].claim
        => i = j

\* A message whose ack is on its way is not handed to another session: until the
\* ack is settled, the delivery is claimed or acked by the holder who asked for
\* it, whether that session lives or not. (Only for a message whose ack was never
\* retried under a second claim.)
PendingAckPins ==
    \A i \in Open :
        ops[i].kind = "ack" =>
            \/ row[Msg].state \in {"claimed", "acked"} /\ row[Msg].holder = ops[i].holder
            \/ \E j \in Created : ops[j].kind = "ack" /\ ops[j].claim # ops[i].claim

\* A renew of one session does not outlive its claim to stand in the way of the
\* next holder, who could neither renew nor be repaired: whoever takes the claim
\* away abandons it. (Not so when the same holder's ack or release, also one of an
\* older claim, is settled or refused in its stead, which leaves the renew open.)
NoForeignRenew ==
    \A i \in Open :
        /\ ops[i].kind = "renew" /\ ops[i].claim = metadata
        /\ row[Msg].state = "claimed"
        => \/ row[Msg].holder = ops[i].holder
           \/ \E j \in Created : ops[j].kind \in Terminal /\ ops[j].holder = ops[i].holder

\* No claim is forgotten: while the cloud keeps the notification for a claim, the
\* daemon is about to ingest it, has it in the message's metadata, or has at least
\* journaled an operation that ends it. A claim nobody hands back keeps the
\* notification from everybody until the cloud's lease ends.
NoClaimForgotten ==
    cloud.status = "leased" /\ metadata # 0 =>
        \/ cloud.claim \in {poller.claim, metadata}
        \/ \E i \in Created : ops[i].kind # "renew" /\ ops[i].claim = cloud.claim
=============================================================================
