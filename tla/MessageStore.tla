---------------------------- MODULE MessageStore ----------------------------
(***************************************************************************)
(* The durable message store of the bus daemon (messages.go): the row of   *)
(* every message's recipient, the outbox of idempotent sends and the count *)
(* of cloud redeliveries kept in the event journal. The store has one      *)
(* SQLite connection and every method is one transaction, so a method is   *)
(* one atomic action. A method that returns an error, or that finds its    *)
(* work done already, writes nothing: it is a stuttering step.             *)
(*                                                                         *)
(* Time is abstracted to what the code asks of it: a lease is "live",      *)
(* "expired" or "none" (NULL), and a live lease may expire at any moment.  *)
(* A lease granted by the cloud may already be expired when it is written. *)
(* The session columns of a row are set and cleared with claim_holder, and *)
(* are not null exactly when the holder is a session, so they are not kept *)
(* apart from it.                                                          *)
(***************************************************************************)
EXTENDS Naturals, FiniteSets

CONSTANTS LocalMessages,   \* ids of messages with source "local"
          CloudMessages,   \* ids of messages with source "comment.io"
          Sessions,        \* claim holders "session:<id>:<generation>" of one bot
          Owners,          \* claim holders "owner:<profile>"
          Keys,            \* idempotency keys of local sends
          Requests,        \* senders, recipients and contents of local sends
          RedeliveryCap,   \* cloudRedeliveryCap
          None             \* NULL

ASSUME StoreAssumption ==
    /\ LocalMessages \cap CloudMessages = {}
    /\ Sessions \cap Owners = {}
    /\ None \notin Sessions \cup Owners \cup Keys \cup Requests
    /\ RedeliveryCap \in Nat

VARIABLES row,        \* message_recipients, joined with messages
          requeues,   \* number of "message.requeued" events of a cloud message
          outbox,     \* the outbox row of a key: the request, the messages it sent
          origin,     \* history: the key a local message was sent under
          revived     \* history: claims whose lease was expired when renewed

storeVars == <<row, requeues, outbox, origin, revived>>

Messages == LocalMessages \cup CloudMessages
Holders == Sessions \cup Owners

Row == [state : {"absent", "unclaimed", "claimed", "acked", "released"},
        holder : Holders \cup {None},
        lease : {"none", "live", "expired"}]

NoEntry == [request |-> None, ids |-> {}]
OutboxEntry == [request : Requests \cup {None}, ids : SUBSET LocalMessages]

\* The leases a cloud response can carry by the time they are stored.
CloudLeases == {"live", "expired"}

\* A row that nobody holds and that has no lease.
Cleared(s) == [state |-> s, holder |-> None, lease |-> "none"]

\* A cloud row that can be claimed for as long as its lease lasts.
Offered(l) == [state |-> "unclaimed", holder |-> None, lease |-> l]

LeaseExpired(m) == row[m].lease # "live"

ClaimedBy(m, h) == row[m].state = "claimed" /\ row[m].holder = h

HeldLive(m, h) == ClaimedBy(m, h) /\ ~LeaseExpired(m)

HasActiveSessionClaim(h, exclude) ==
    \E m \in Messages \ {exclude} : HeldLive(m, h)

\* What `message wait` offers a reader.
WaitReady(m) ==
    \/ /\ m \in CloudMessages
       /\ row[m].state = "unclaimed" /\ row[m].lease = "live"
    \/ /\ m \in LocalMessages
       /\ \/ row[m].state = "unclaimed"
          \/ row[m].state = "claimed" /\ row[m].lease = "expired"

StoreInit ==
    /\ row = [m \in Messages |-> Cleared("absent")]
    /\ requeues = [m \in CloudMessages |-> 0]
    /\ outbox = [k \in Keys |-> NoEntry]
    /\ origin = [m \in LocalMessages |-> None]
    /\ revived = {}

\* Most methods write one row, or several rows the same way, and nothing else.
SetRows(S, r) ==
    /\ row' = [m \in Messages |-> IF m \in S THEN r ELSE row[m]]
    /\ UNCHANGED <<requeues, outbox, origin>>

SetRow(m, r) == SetRows({m}, r)

\* A row that is not claimed any more is not a revived claim either.
NoLongerClaimed(S) == revived' = revived \ S

-----------------------------------------------------------------------------
(* Sending and ingesting. *)

\* Mutant: a retry with a known key inserts its messages again.
InsertLocalMessagesWithoutReplay(k, q, ms) ==
    /\ ms # {} /\ \A m \in ms : row[m].state = "absent"
    /\ row' = [m \in Messages |-> IF m \in ms THEN Cleared("unclaimed") ELSE row[m]]
    /\ origin' = [m \in LocalMessages |-> IF m \in ms THEN k ELSE origin[m]]
    /\ outbox' = IF k = None THEN outbox
                 ELSE [outbox EXCEPT ![k] = [request |-> q, ids |-> ms]]
    /\ UNCHANGED <<requeues, revived>>

\* One transaction inserts a message for each recipient and the outbox row.
\* A known key is replayed or, for another request, refused: neither writes.
InsertLocalMessages(k, q, ms) ==
    /\ k # None => outbox[k].request = None
    /\ ms # {} /\ \A m \in ms : row[m].state = "absent"
    /\ row' = [m \in Messages |-> IF m \in ms THEN Cleared("unclaimed") ELSE row[m]]
    /\ origin' = [m \in LocalMessages |-> IF m \in ms THEN k ELSE origin[m]]
    /\ outbox' = IF k = None THEN outbox
                 ELSE [outbox EXCEPT ![k] = [request |-> q, ids |-> ms]]
    /\ UNCHANGED <<requeues, revived>>

InsertCloudNotificationMessage(m, l) ==
    /\ row[m].state = "absent"
    /\ SetRow(m, Offered(l))
    /\ UNCHANGED revived

\* Mutant: the cap is compared with > where the code has >=.
RedeliveryGuardOffByOne(m, l) ==
    /\ IF requeues[m] > RedeliveryCap
       THEN /\ row' = [row EXCEPT ![m] = Cleared("acked")]
            /\ UNCHANGED requeues
       ELSE /\ row' = [row EXCEPT ![m] = Offered(l)]
            /\ requeues' = [requeues EXCEPT ![m] = @ + 1]
    /\ NoLongerClaimed({m})
    /\ UNCHANGED <<outbox, origin>>

\* Reopen a redelivered cloud message, or stop it for good past the cap.
ApplyCloudRedeliveryGuard(m, l) ==
    /\ IF requeues[m] >= RedeliveryCap
       THEN /\ row' = [row EXCEPT ![m] = Cleared("acked")]
            /\ UNCHANGED requeues
       ELSE /\ row' = [row EXCEPT ![m] = Offered(l)]
            /\ requeues' = [requeues EXCEPT ![m] = @ + 1]
    /\ NoLongerClaimed({m})
    /\ UNCHANGED <<outbox, origin>>

\* Mutant: an acked message is reopened like a released one.
RefreshReopensAcked(m, l, reopenClaimed) ==
    \/ /\ row[m].state = "unclaimed"
       /\ SetRow(m, Offered(l)) /\ UNCHANGED revived
    \/ row[m].state \in {"acked", "released"} /\ ApplyCloudRedeliveryGuard(m, l)
    \/ /\ row[m].state = "claimed" /\ (reopenClaimed \/ LeaseExpired(m))
       /\ ApplyCloudRedeliveryGuard(m, l)

\* A redelivered notification brings a new lease for a message of the store.
RefreshCloudNotificationLease(m, l, reopenClaimed) ==
    \/ /\ row[m].state = "unclaimed"
       /\ SetRow(m, Offered(l)) /\ UNCHANGED revived
    \/ row[m].state = "released" /\ ApplyCloudRedeliveryGuard(m, l)
    \/ /\ row[m].state = "claimed" /\ (reopenClaimed \/ LeaseExpired(m))
       /\ ApplyCloudRedeliveryGuard(m, l)
    \/ /\ row[m].state = "claimed" /\ ~reopenClaimed /\ ~LeaseExpired(m)
       /\ SetRow(m, [row[m] EXCEPT !.lease = l]) /\ UNCHANGED revived
    \/ row[m].state = "acked" /\ UNCHANGED storeVars

QuarantineCloudMessage(m) ==
    /\ row[m].state \in {"unclaimed", "claimed"}
    /\ SetRow(m, Cleared("released"))
    /\ NoLongerClaimed({m})

-----------------------------------------------------------------------------
(* Claims. *)

\* Mutant: a session may claim a message while it still has another one.
ClaimWithoutActiveCheck(m, h) ==
    /\ \/ row[m].state = "unclaimed" /\ (m \in CloudMessages => row[m].lease = "live")
       \/ /\ m \in LocalMessages /\ row[m].state = "claimed"
          /\ LeaseExpired(m) \/ row[m].holder = h
    /\ SetRow(m, [state |-> "claimed", holder |-> h, lease |-> "live"])
    /\ NoLongerClaimed({m})

\* A cloud message is claimed while it is offered, under the cloud's lease. A
\* local one also from a holder whose lease is over, or again by its holder.
\* (A local row is never "released".)
ClaimMessage(m, h) ==
    /\ \/ row[m].state = "unclaimed" /\ (m \in CloudMessages => row[m].lease = "live")
       \/ /\ m \in LocalMessages /\ row[m].state = "claimed"
          /\ LeaseExpired(m) \/ row[m].holder = h
    /\ h \in Sessions => ~HasActiveSessionClaim(h, m)
    /\ SetRow(m, [state |-> "claimed", holder |-> h, lease |-> "live"])
    /\ NoLongerClaimed({m})

\* RenewMessage, which the daemon calls for local messages only.
RenewMessage(m, h) ==
    /\ HeldLive(m, h)
    /\ UNCHANGED storeVars

\* The cloud has renewed the lease: the row follows, expired or not.
RenewCloudMessage(m, h, l) ==
    /\ ClaimedBy(m, h)
    /\ SetRow(m, [row[m] EXCEPT !.lease = l])
    /\ revived' = IF LeaseExpired(m) THEN revived \cup {m} ELSE revived

\* AckMessage ("acked") and ReleaseMessage ("unclaimed") of a local message. An
\* ack keeps the holder and the lease in the row.
FinishClaimedMessage(m, h, nextState) ==
    /\ HeldLive(m, h)
    /\ SetRow(m, IF nextState = "acked" THEN [row[m] EXCEPT !.state = "acked"]
                 ELSE Cleared(nextState))
    /\ NoLongerClaimed({m})

\* AckCloudMessage ("acked") and ReleaseCloudMessage ("released"). The lease is
\* not looked at: the cloud has agreed already.
FinishCloudClaimedMessage(m, h, nextState) ==
    /\ ClaimedBy(m, h)
    /\ SetRow(m, IF nextState = "acked" THEN [row[m] EXCEPT !.state = "acked"]
                 ELSE Cleared(nextState))
    /\ NoLongerClaimed({m})

-----------------------------------------------------------------------------
(* Claims taken from a holder. *)

\* Mutant: only the state is reset.
ReleaseClaimsKeepsLease(h) ==
    LET claims == {m \in LocalMessages : ClaimedBy(m, h)}
    IN  /\ claims # {}
        /\ row' = [m \in Messages |-> IF m \in claims
                                      THEN [row[m] EXCEPT !.state = "unclaimed"]
                                      ELSE row[m]]
        /\ NoLongerClaimed(claims)
        /\ UNCHANGED <<requeues, outbox, origin>>

\* The local claims of a session that stopped, all at once.
ReleaseClaimsForHolder(h) ==
    LET claims == {m \in LocalMessages : ClaimedBy(m, h)}
    IN  /\ claims # {}
        /\ SetRows(claims, Cleared("unclaimed"))
        /\ NoLongerClaimed(claims)

\* A claimed cloud message goes back to unclaimed and keeps the cloud's lease.
RequeueCloudMessageLocally(m, h) ==
    /\ ClaimedBy(m, h)
    /\ SetRow(m, Offered(row[m].lease))
    /\ NoLongerClaimed({m})

\* Mutant: the reconciliation leaves the row claimed, with no lease.
RequeueDropsLeaseOnly(m) ==
    /\ row[m].state = "claimed"
    /\ SetRow(m, [row[m] EXCEPT !.lease = "none"])
    /\ NoLongerClaimed({m})

\* Start-up reconciliation of an abandoned local claim.
RequeueClaimedMessage(m) ==
    /\ row[m].state = "claimed"
    /\ SetRow(m, Cleared("unclaimed"))
    /\ NoLongerClaimed({m})

-----------------------------------------------------------------------------

\* Time passes: the lease of a row, claimed or not, is over.
LeaseRunsOut(m) ==
    /\ row[m].lease = "live"
    /\ SetRow(m, [row[m] EXCEPT !.lease = "expired"])
    /\ UNCHANGED revived

StoreNext ==
    \/ \E k \in Keys \cup {None}, q \in Requests, ms \in SUBSET LocalMessages :
         InsertLocalMessages(k, q, ms)
    \/ \E m \in CloudMessages, l \in CloudLeases :
         \/ InsertCloudNotificationMessage(m, l)
         \/ \E reopen \in BOOLEAN : RefreshCloudNotificationLease(m, l, reopen)
         \/ \E h \in Holders : RenewCloudMessage(m, h, l)
    \/ \E m \in CloudMessages : QuarantineCloudMessage(m)
    \/ \E m \in Messages, h \in Holders : ClaimMessage(m, h)
    \/ \E m \in LocalMessages, h \in Holders :
         \/ RenewMessage(m, h)
         \/ FinishClaimedMessage(m, h, "acked")
         \/ FinishClaimedMessage(m, h, "unclaimed")
    \/ \E m \in CloudMessages, h \in Holders :
         \/ FinishCloudClaimedMessage(m, h, "acked")
         \/ FinishCloudClaimedMessage(m, h, "released")
         \/ RequeueCloudMessageLocally(m, h)
    \/ \E h \in Holders : ReleaseClaimsForHolder(h)
    \/ \E m \in LocalMessages : RequeueClaimedMessage(m)
    \/ \E m \in Messages : LeaseRunsOut(m)

StoreSpec == StoreInit /\ [][StoreNext]_storeVars

-----------------------------------------------------------------------------
(* Properties. *)

TypeOK ==
    /\ row \in [Messages -> Row]
    /\ requeues \in [CloudMessages -> 0..RedeliveryCap]
    /\ outbox \in [Keys -> OutboxEntry]
    /\ origin \in [LocalMessages -> Keys \cup {None}]
    /\ revived \subseteq CloudMessages

\* The columns of a row always tell one story, whatever sequence of claims,
\* finishes, reopenings and requeues wrote them: a claimed row has a holder and
\* a lease, a row nobody claimed has no holder, a local row waits without a
\* lease and is never "released", a cloud row on offer has the cloud's lease.
RowsCoherent ==
    \A m \in Messages :
        /\ row[m].state = "claimed" => row[m].holder # None /\ row[m].lease # "none"
        /\ row[m].state \in {"absent", "unclaimed", "released"} => row[m].holder = None
        /\ row[m].state \in {"absent", "released"} => row[m].lease = "none"
        /\ row[m].state = "unclaimed" =>
             (row[m].lease = "none" <=> m \in LocalMessages)
        /\ row[m].state = "released" => m \in CloudMessages

\* A local message is never lost: until it is acked, either its holder's lease
\* is live or `message wait` offers it (listInboxMessages), even when the holder
\* died or the daemon reconciled its claims.
NoLocalMessageLost ==
    \A m \in LocalMessages :
        row[m].state \notin {"absent", "acked"} =>
            WaitReady(m) \/ \E h \in Holders : HeldLive(m, h)

\* A session works on one message at a time (ClaimMessage's active-claim check).
\* The one exception is a claim whose lease had run out when the cloud renewed it.
OneClaimPerSession ==
    \A s \in Sessions : \A m1, m2 \in Messages \ revived :
        HeldLive(m1, s) /\ HeldLive(m2, s) => m1 = m2

\* A send retried under its key never inserts its messages a second time: the
\* messages sent under a key are those its outbox row lists (replayOutbox).
SendOnce ==
    \A k \in Keys : {m \in LocalMessages : origin[m] = k} = outbox[k].ids

\* Redelivery is bounded, and only a message that used up the bound is stopped
\* without a holder's ack (applyCloudRedeliveryGuard's quarantine).
RedeliveryBounded ==
    \A m \in CloudMessages :
        /\ requeues[m] <= RedeliveryCap
        /\ row[m].state = "acked" /\ row[m].holder = None => requeues[m] = RedeliveryCap

\* The store keeps the promise of Inbox: an expired claim, a released or an
\* unclaimed message is open, a live claim is held, an acked message is done.
PlaceOf(m) ==
    CASE row[m].state = "absent" -> [status |-> "absent", by |-> {}]
      [] row[m].state = "acked" -> [status |-> "done", by |-> {}]
      [] row[m].state = "claimed" /\ ~LeaseExpired(m) ->
            [status |-> "held", by |-> {row[m].holder}]
      [] OTHER -> [status |-> "open", by |-> {}]

Promise == INSTANCE Inbox WITH Items <- Messages, Guarded <- LocalMessages,
                               where <- [m \in Messages |-> PlaceOf(m)]

KeepsPromise == Promise!Spec
=============================================================================
