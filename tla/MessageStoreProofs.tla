------------------------- MODULE MessageStoreProofs -------------------------
(***************************************************************************)
(* Theorems of MessageStore, for any messages, holders, keys and cap. The  *)
(* inductive invariant is TypeOK /\ RowsCoherent /\ OneClaimPerSession /\  *)
(* SendInv /\ RedeliveryBounded: given TypeOK, RowsCoherent,               *)
(* OneClaimPerSession and SendInv are inductive one by one,                *)
(* RedeliveryBounded with RowsCoherent. RowsCoherent gives                 *)
(* NoLocalMessageLost, and TypeOK /\ RowsCoherent that every step of the   *)
(* store is a step of Inbox or leaves it alone.                            *)
(***************************************************************************)
EXTENDS MessageStore, TLAPS

LEMMA RowTypes ==
    /\ \A s \in {"absent", "unclaimed", "claimed", "acked", "released"} : Cleared(s) \in Row
    /\ \A l \in {"none", "live", "expired"} : Offered(l) \in Row
    /\ \A h \in Holders, l \in {"none", "live", "expired"} :
         [state |-> "claimed", holder |-> h, lease |-> l] \in Row
  BY DEF Cleared, Offered, Row

LEMMA TypeInductive == TypeOK /\ [StoreNext]_storeVars => TypeOK'
  <1> SUFFICES ASSUME TypeOK, [StoreNext]_storeVars
               PROVE  TypeOK'
    OBVIOUS
  <1> USE StoreAssumption DEF TypeOK, Messages, NoLongerClaimed, SetRow, SetRows
  <1>1. ASSUME NEW k \in Keys \cup {None}, NEW q \in Requests,
               NEW ms \in SUBSET LocalMessages, InsertLocalMessages(k, q, ms)
        PROVE  TypeOK'
    <2>1. row' \in [Messages -> Row]
      BY <1>1, RowTypes DEF InsertLocalMessages
    <2>2. outbox' \in [Keys -> OutboxEntry]
      BY <1>1 DEF InsertLocalMessages, OutboxEntry
    <2>3. origin' \in [LocalMessages -> Keys \cup {None}]
      BY <1>1 DEF InsertLocalMessages
    <2>4. QED BY <1>1, <2>1, <2>2, <2>3 DEF InsertLocalMessages
  <1>2. ASSUME NEW m \in CloudMessages, NEW l \in CloudLeases,
               InsertCloudNotificationMessage(m, l)
        PROVE  TypeOK'
    BY <1>2, RowTypes DEF InsertCloudNotificationMessage, CloudLeases
  <1>3. ASSUME NEW m \in CloudMessages, NEW l \in CloudLeases, NEW reopen \in BOOLEAN,
               RefreshCloudNotificationLease(m, l, reopen)
        PROVE  TypeOK'
    <2>1. CASE ApplyCloudRedeliveryGuard(m, l)
      BY <2>1, <1>3, RowTypes DEF ApplyCloudRedeliveryGuard, CloudLeases
    <2>2. CASE SetRow(m, Offered(l)) /\ UNCHANGED revived
      BY <2>2, <1>3, RowTypes DEF CloudLeases
    <2>3. CASE SetRow(m, [row[m] EXCEPT !.lease = l]) /\ UNCHANGED revived
      BY <2>3, <1>3 DEF CloudLeases, Row
    <2>4. CASE UNCHANGED storeVars
      BY <2>4 DEF storeVars
    <2>5. QED BY <1>3, <2>1, <2>2, <2>3, <2>4 DEF RefreshCloudNotificationLease
  <1>4. ASSUME NEW m \in CloudMessages, NEW h \in Holders, NEW l \in CloudLeases,
               RenewCloudMessage(m, h, l)
        PROVE  TypeOK'
    BY <1>4 DEF RenewCloudMessage, CloudLeases, Row
  <1>5. ASSUME NEW m \in CloudMessages, QuarantineCloudMessage(m)
        PROVE  TypeOK'
    BY <1>5, RowTypes DEF QuarantineCloudMessage
  <1>6. ASSUME NEW m \in Messages, NEW h \in Holders, ClaimMessage(m, h)
        PROVE  TypeOK'
    BY <1>6, RowTypes DEF ClaimMessage
  <1>7. ASSUME NEW m \in LocalMessages, NEW h \in Holders, RenewMessage(m, h)
        PROVE  TypeOK'
    BY <1>7 DEF RenewMessage, storeVars
  <1>8. ASSUME NEW m \in LocalMessages, NEW h \in Holders, NEW s \in {"acked", "unclaimed"},
               FinishClaimedMessage(m, h, s)
        PROVE  TypeOK'
    BY <1>8, RowTypes DEF FinishClaimedMessage, Row
  <1>9. ASSUME NEW m \in CloudMessages, NEW h \in Holders, NEW s \in {"acked", "released"},
               FinishCloudClaimedMessage(m, h, s)
        PROVE  TypeOK'
    BY <1>9, RowTypes DEF FinishCloudClaimedMessage, Row
  <1>10. ASSUME NEW m \in CloudMessages, NEW h \in Holders, RequeueCloudMessageLocally(m, h)
         PROVE  TypeOK'
    BY <1>10, RowTypes DEF RequeueCloudMessageLocally, Row
  <1>11. ASSUME NEW h \in Holders, ReleaseClaimsForHolder(h)
         PROVE  TypeOK'
    BY <1>11, RowTypes DEF ReleaseClaimsForHolder
  <1>12. ASSUME NEW m \in LocalMessages, RequeueClaimedMessage(m)
         PROVE  TypeOK'
    BY <1>12, RowTypes DEF RequeueClaimedMessage
  <1>13. ASSUME NEW m \in Messages, LeaseRunsOut(m)
         PROVE  TypeOK'
    BY <1>13 DEF LeaseRunsOut, Row
  <1>14. CASE UNCHANGED storeVars
    BY <1>14 DEF storeVars
  <1>15. QED
    BY <1>1, <1>2, <1>3, <1>4, <1>5, <1>6, <1>7, <1>8, <1>9, <1>10, <1>11, <1>12,
       <1>13, <1>14 DEF StoreNext

\* Every row, count, outbox entry and history variable keeps its type.
THEOREM TypeCorrect == StoreSpec => []TypeOK
  <1>1. StoreInit => TypeOK
    BY StoreAssumption, RowTypes DEF StoreInit, TypeOK, NoEntry, OutboxEntry
  <1>2. QED
    BY <1>1, TypeInductive, PTL DEF StoreSpec

LEMMA RowsInductive ==
    TypeOK /\ RowsCoherent /\ [StoreNext]_storeVars => RowsCoherent'
  <1> SUFFICES ASSUME TypeOK, RowsCoherent, [StoreNext]_storeVars
               PROVE  RowsCoherent'
    OBVIOUS
  <1> USE StoreAssumption DEF Messages, TypeOK, Row, Cleared, Offered, NoLongerClaimed, SetRow, SetRows,
           LeaseExpired, ClaimedBy, HeldLive, CloudLeases, RowsCoherent, Holders
  <1>1. ASSUME NEW k \in Keys \cup {None}, NEW q \in Requests,
               NEW ms \in SUBSET LocalMessages, InsertLocalMessages(k, q, ms)
        PROVE  RowsCoherent'
    BY <1>1 DEF InsertLocalMessages
  <1>2. ASSUME NEW m \in CloudMessages, NEW l \in CloudLeases,
               InsertCloudNotificationMessage(m, l)
        PROVE  RowsCoherent'
    BY <1>2 DEF InsertCloudNotificationMessage
  <1>3. ASSUME NEW m \in CloudMessages, NEW l \in CloudLeases, NEW reopen \in BOOLEAN,
               RefreshCloudNotificationLease(m, l, reopen)
        PROVE  RowsCoherent'
    <2>1. CASE row[m].state = "unclaimed" /\ SetRow(m, Offered(l)) /\ UNCHANGED revived
      BY <2>1
    <2>2. CASE /\ \/ row[m].state = "released"
                  \/ row[m].state = "claimed"
               /\ ApplyCloudRedeliveryGuard(m, l)
      <3>1. CASE requeues[m] >= RedeliveryCap
        BY <2>2, <3>1 DEF ApplyCloudRedeliveryGuard
      <3>2. CASE ~(requeues[m] >= RedeliveryCap)
        BY <2>2, <3>2 DEF ApplyCloudRedeliveryGuard
      <3>3. QED BY <3>1, <3>2
    <2>3. CASE /\ row[m].state = "claimed" /\ ~LeaseExpired(m)
               /\ SetRow(m, [row[m] EXCEPT !.lease = l]) /\ UNCHANGED revived
      BY <2>3
    <2>4. CASE UNCHANGED storeVars
      BY <2>4 DEF storeVars
    <2>5. QED BY <1>3, <2>1, <2>2, <2>3, <2>4 DEF RefreshCloudNotificationLease
  <1>4. ASSUME NEW m \in CloudMessages, NEW h \in Holders, NEW l \in CloudLeases,
               RenewCloudMessage(m, h, l)
        PROVE  RowsCoherent'
    BY <1>4 DEF RenewCloudMessage
  <1>5. ASSUME NEW m \in CloudMessages, QuarantineCloudMessage(m)
        PROVE  RowsCoherent'
    BY <1>5 DEF QuarantineCloudMessage
  <1>6. ASSUME NEW m \in Messages, NEW h \in Holders, ClaimMessage(m, h)
        PROVE  RowsCoherent'
    BY <1>6 DEF ClaimMessage
  <1>7. ASSUME NEW m \in LocalMessages, NEW h \in Holders, FinishClaimedMessage(m, h, "acked") \/ FinishClaimedMessage(m, h, "unclaimed")
        PROVE  RowsCoherent'
    BY <1>7 DEF FinishClaimedMessage
  <1>8. ASSUME NEW m \in CloudMessages, NEW h \in Holders,
               FinishCloudClaimedMessage(m, h, "acked") \/ FinishCloudClaimedMessage(m, h, "released")
        PROVE  RowsCoherent'
    BY <1>8 DEF FinishCloudClaimedMessage
  <1>9. ASSUME NEW m \in CloudMessages, NEW h \in Holders, RequeueCloudMessageLocally(m, h)
        PROVE  RowsCoherent'
    BY <1>9 DEF RequeueCloudMessageLocally
  <1>10. ASSUME NEW h \in Holders, ReleaseClaimsForHolder(h)
        PROVE  RowsCoherent'
    BY <1>10 DEF ReleaseClaimsForHolder
  <1>11. ASSUME NEW m \in LocalMessages, RequeueClaimedMessage(m)
        PROVE  RowsCoherent'
    BY <1>11 DEF RequeueClaimedMessage
  <1>12. ASSUME NEW m \in Messages, LeaseRunsOut(m)
        PROVE  RowsCoherent'
    BY <1>12 DEF LeaseRunsOut
  <1>13. CASE UNCHANGED storeVars
    BY <1>13 DEF storeVars
  <1>14. QED
    BY <1>1, <1>2, <1>3, <1>4, <1>5, <1>6, <1>7, <1>8, <1>9, <1>10, <1>11, <1>12, <1>13 DEF StoreNext, RenewMessage

LEMMA OneClaimInductive ==
    TypeOK /\ OneClaimPerSession /\ [StoreNext]_storeVars => OneClaimPerSession'
  <1> SUFFICES ASSUME TypeOK, OneClaimPerSession, [StoreNext]_storeVars
               PROVE  OneClaimPerSession'
    OBVIOUS
  <1> USE StoreAssumption DEF Messages, TypeOK, Row, Cleared, Offered, NoLongerClaimed, SetRow, SetRows,
           LeaseExpired, ClaimedBy, HeldLive, CloudLeases, OneClaimPerSession, HasActiveSessionClaim, Holders
  <1>1. ASSUME NEW k \in Keys \cup {None}, NEW q \in Requests,
               NEW ms \in SUBSET LocalMessages, InsertLocalMessages(k, q, ms)
        PROVE  OneClaimPerSession'
    BY <1>1 DEF InsertLocalMessages
  <1>2. ASSUME NEW m \in CloudMessages, NEW l \in CloudLeases,
               InsertCloudNotificationMessage(m, l)
        PROVE  OneClaimPerSession'
    BY <1>2 DEF InsertCloudNotificationMessage
  <1>3. ASSUME NEW m \in CloudMessages, NEW l \in CloudLeases, NEW reopen \in BOOLEAN,
               RefreshCloudNotificationLease(m, l, reopen)
        PROVE  OneClaimPerSession'
    <2>1. CASE row[m].state = "unclaimed" /\ SetRow(m, Offered(l)) /\ UNCHANGED revived
      BY <2>1
    <2>2. CASE /\ \/ row[m].state = "released"
                  \/ row[m].state = "claimed"
               /\ ApplyCloudRedeliveryGuard(m, l)
      <3>1. CASE requeues[m] >= RedeliveryCap
        BY <2>2, <3>1 DEF ApplyCloudRedeliveryGuard
      <3>2. CASE ~(requeues[m] >= RedeliveryCap)
        BY <2>2, <3>2 DEF ApplyCloudRedeliveryGuard
      <3>3. QED BY <3>1, <3>2
    <2>3. CASE /\ row[m].state = "claimed" /\ ~LeaseExpired(m)
               /\ SetRow(m, [row[m] EXCEPT !.lease = l]) /\ UNCHANGED revived
      BY <2>3
    <2>4. CASE UNCHANGED storeVars
      BY <2>4 DEF storeVars
    <2>5. QED BY <1>3, <2>1, <2>2, <2>3, <2>4 DEF RefreshCloudNotificationLease
  <1>4. ASSUME NEW m \in CloudMessages, NEW h \in Holders, NEW l \in CloudLeases,
               RenewCloudMessage(m, h, l)
        PROVE  OneClaimPerSession'
    BY <1>4 DEF RenewCloudMessage
  <1>5. ASSUME NEW m \in CloudMessages, QuarantineCloudMessage(m)
        PROVE  OneClaimPerSession'
    BY <1>5 DEF QuarantineCloudMessage
  <1>6. ASSUME NEW m \in Messages, NEW h \in Holders, ClaimMessage(m, h)
        PROVE  OneClaimPerSession'
    BY <1>6 DEF ClaimMessage
  <1>7. ASSUME NEW m \in LocalMessages, NEW h \in Holders, FinishClaimedMessage(m, h, "acked") \/ FinishClaimedMessage(m, h, "unclaimed")
        PROVE  OneClaimPerSession'
    BY <1>7 DEF FinishClaimedMessage
  <1>8. ASSUME NEW m \in CloudMessages, NEW h \in Holders,
               FinishCloudClaimedMessage(m, h, "acked") \/ FinishCloudClaimedMessage(m, h, "released")
        PROVE  OneClaimPerSession'
    BY <1>8 DEF FinishCloudClaimedMessage
  <1>9. ASSUME NEW m \in CloudMessages, NEW h \in Holders, RequeueCloudMessageLocally(m, h)
        PROVE  OneClaimPerSession'
    BY <1>9 DEF RequeueCloudMessageLocally
  <1>10. ASSUME NEW h \in Holders, ReleaseClaimsForHolder(h)
        PROVE  OneClaimPerSession'
    BY <1>10 DEF ReleaseClaimsForHolder
  <1>11. ASSUME NEW m \in LocalMessages, RequeueClaimedMessage(m)
        PROVE  OneClaimPerSession'
    BY <1>11 DEF RequeueClaimedMessage
  <1>12. ASSUME NEW m \in Messages, LeaseRunsOut(m)
        PROVE  OneClaimPerSession'
    BY <1>12 DEF LeaseRunsOut
  <1>13. CASE UNCHANGED storeVars
    BY <1>13 DEF storeVars
  <1>14. QED
    BY <1>1, <1>2, <1>3, <1>4, <1>5, <1>6, <1>7, <1>8, <1>9, <1>10, <1>11, <1>12, <1>13 DEF StoreNext, RenewMessage

\* What SendOnce needs to be inductive: an unused key has no messages, and a
\* message that is not in the store was not sent.
OutboxCoherent ==
    /\ \A k \in Keys : outbox[k].request = None => outbox[k].ids = {}
    /\ \A m \in LocalMessages : row[m].state = "absent" => origin[m] = None

SendInv == SendOnce /\ OutboxCoherent

LEMMA SendOnceInductive ==
    TypeOK /\ SendInv /\ [StoreNext]_storeVars => SendInv'
  <1> SUFFICES ASSUME TypeOK, SendInv, [StoreNext]_storeVars
               PROVE  SendInv'
    OBVIOUS
  <1> USE StoreAssumption DEF Messages, TypeOK, Row, Cleared, Offered, SetRow, SetRows, SendInv, SendOnce,
           OutboxCoherent, OutboxEntry
  <1>1. ASSUME NEW k \in Keys \cup {None}, NEW q \in Requests,
               NEW ms \in SUBSET LocalMessages, InsertLocalMessages(k, q, ms)
        PROVE  SendInv'
    <2>1. OutboxCoherent'
      BY <1>1 DEF InsertLocalMessages
    <2>2. ASSUME NEW j \in Keys
          PROVE  {m \in LocalMessages : origin'[m] = j} = outbox'[j].ids
      <3>1. CASE j = k
        BY <1>1, <3>1 DEF InsertLocalMessages
      <3>2. CASE j # k
        BY <1>1, <3>2 DEF InsertLocalMessages
      <3>3. QED BY <3>1, <3>2
    <2>3. QED BY <2>1, <2>2
  <1>2. ASSUME NEW m \in CloudMessages, NEW l \in CloudLeases,
               InsertCloudNotificationMessage(m, l)
        PROVE  SendInv'
    BY <1>2 DEF InsertCloudNotificationMessage
  <1>3. ASSUME NEW m \in CloudMessages, NEW l \in CloudLeases, NEW reopen \in BOOLEAN,
               RefreshCloudNotificationLease(m, l, reopen)
        PROVE  SendInv'
    <2>1. CASE row[m].state = "unclaimed" /\ SetRow(m, Offered(l)) /\ UNCHANGED revived
      BY <2>1
    <2>2. CASE /\ \/ row[m].state = "released"
                  \/ row[m].state = "claimed"
               /\ ApplyCloudRedeliveryGuard(m, l)
      <3>1. CASE requeues[m] >= RedeliveryCap
        BY <2>2, <3>1 DEF ApplyCloudRedeliveryGuard
      <3>2. CASE ~(requeues[m] >= RedeliveryCap)
        BY <2>2, <3>2 DEF ApplyCloudRedeliveryGuard
      <3>3. QED BY <3>1, <3>2
    <2>3. CASE /\ row[m].state = "claimed" /\ ~LeaseExpired(m)
               /\ SetRow(m, [row[m] EXCEPT !.lease = l]) /\ UNCHANGED revived
      BY <2>3
    <2>4. CASE UNCHANGED storeVars
      BY <2>4 DEF storeVars
    <2>5. QED BY <1>3, <2>1, <2>2, <2>3, <2>4 DEF RefreshCloudNotificationLease
  <1>4. ASSUME NEW m \in CloudMessages, NEW h \in Holders, NEW l \in CloudLeases,
               RenewCloudMessage(m, h, l)
        PROVE  SendInv'
    BY <1>4 DEF RenewCloudMessage
  <1>5. ASSUME NEW m \in CloudMessages, QuarantineCloudMessage(m)
        PROVE  SendInv'
    BY <1>5 DEF QuarantineCloudMessage
  <1>6. ASSUME NEW m \in Messages, NEW h \in Holders, ClaimMessage(m, h)
        PROVE  SendInv'
    BY <1>6 DEF ClaimMessage
  <1>7. ASSUME NEW m \in LocalMessages, NEW h \in Holders, FinishClaimedMessage(m, h, "acked") \/ FinishClaimedMessage(m, h, "unclaimed")
        PROVE  SendInv'
    BY <1>7 DEF FinishClaimedMessage
  <1>8. ASSUME NEW m \in CloudMessages, NEW h \in Holders,
               FinishCloudClaimedMessage(m, h, "acked") \/ FinishCloudClaimedMessage(m, h, "released")
        PROVE  SendInv'
    BY <1>8 DEF FinishCloudClaimedMessage
  <1>9. ASSUME NEW m \in CloudMessages, NEW h \in Holders, RequeueCloudMessageLocally(m, h)
        PROVE  SendInv'
    BY <1>9 DEF RequeueCloudMessageLocally
  <1>10. ASSUME NEW h \in Holders, ReleaseClaimsForHolder(h)
        PROVE  SendInv'
    BY <1>10 DEF ReleaseClaimsForHolder
  <1>11. ASSUME NEW m \in LocalMessages, RequeueClaimedMessage(m)
        PROVE  SendInv'
    BY <1>11 DEF RequeueClaimedMessage
  <1>12. ASSUME NEW m \in Messages, LeaseRunsOut(m)
        PROVE  SendInv'
    BY <1>12 DEF LeaseRunsOut
  <1>13. CASE UNCHANGED storeVars
    BY <1>13 DEF storeVars
  <1>14. QED
    BY <1>1, <1>2, <1>3, <1>4, <1>5, <1>6, <1>7, <1>8, <1>9, <1>10, <1>11, <1>12, <1>13 DEF StoreNext, RenewMessage

LEMMA RedeliveryInductive ==
    TypeOK /\ RowsCoherent /\ RedeliveryBounded /\ [StoreNext]_storeVars => RedeliveryBounded'
  <1> SUFFICES ASSUME TypeOK, RowsCoherent, RedeliveryBounded, [StoreNext]_storeVars
               PROVE  RedeliveryBounded'
    OBVIOUS
  <1> USE StoreAssumption DEF Messages, TypeOK, Row, Cleared, Offered, NoLongerClaimed, SetRow, SetRows,
           LeaseExpired, ClaimedBy, HeldLive, CloudLeases, RedeliveryBounded, RowsCoherent, Holders
  <1>1. ASSUME NEW k \in Keys \cup {None}, NEW q \in Requests,
               NEW ms \in SUBSET LocalMessages, InsertLocalMessages(k, q, ms)
        PROVE  RedeliveryBounded'
    BY <1>1 DEF InsertLocalMessages
  <1>2. ASSUME NEW m \in CloudMessages, NEW l \in CloudLeases,
               InsertCloudNotificationMessage(m, l)
        PROVE  RedeliveryBounded'
    BY <1>2 DEF InsertCloudNotificationMessage
  <1>3. ASSUME NEW m \in CloudMessages, NEW l \in CloudLeases, NEW reopen \in BOOLEAN,
               RefreshCloudNotificationLease(m, l, reopen)
        PROVE  RedeliveryBounded'
    <2>1. CASE row[m].state = "unclaimed" /\ SetRow(m, Offered(l)) /\ UNCHANGED revived
      BY <2>1
    <2>2. CASE /\ \/ row[m].state = "released"
                  \/ row[m].state = "claimed"
               /\ ApplyCloudRedeliveryGuard(m, l)
      <3>1. CASE requeues[m] >= RedeliveryCap
        BY <2>2, <3>1 DEF ApplyCloudRedeliveryGuard
      <3>2. CASE ~(requeues[m] >= RedeliveryCap)
        BY <2>2, <3>2 DEF ApplyCloudRedeliveryGuard
      <3>3. QED BY <3>1, <3>2
    <2>3. CASE /\ row[m].state = "claimed" /\ ~LeaseExpired(m)
               /\ SetRow(m, [row[m] EXCEPT !.lease = l]) /\ UNCHANGED revived
      BY <2>3
    <2>4. CASE UNCHANGED storeVars
      BY <2>4 DEF storeVars
    <2>5. QED BY <1>3, <2>1, <2>2, <2>3, <2>4 DEF RefreshCloudNotificationLease
  <1>4. ASSUME NEW m \in CloudMessages, NEW h \in Holders, NEW l \in CloudLeases,
               RenewCloudMessage(m, h, l)
        PROVE  RedeliveryBounded'
    BY <1>4 DEF RenewCloudMessage
  <1>5. ASSUME NEW m \in CloudMessages, QuarantineCloudMessage(m)
        PROVE  RedeliveryBounded'
    BY <1>5 DEF QuarantineCloudMessage
  <1>6. ASSUME NEW m \in Messages, NEW h \in Holders, ClaimMessage(m, h)
        PROVE  RedeliveryBounded'
    BY <1>6 DEF ClaimMessage
  <1>7. ASSUME NEW m \in LocalMessages, NEW h \in Holders, FinishClaimedMessage(m, h, "acked") \/ FinishClaimedMessage(m, h, "unclaimed")
        PROVE  RedeliveryBounded'
    BY <1>7 DEF FinishClaimedMessage
  <1>8. ASSUME NEW m \in CloudMessages, NEW h \in Holders,
               FinishCloudClaimedMessage(m, h, "acked") \/ FinishCloudClaimedMessage(m, h, "released")
        PROVE  RedeliveryBounded'
    BY <1>8 DEF FinishCloudClaimedMessage
  <1>9. ASSUME NEW m \in CloudMessages, NEW h \in Holders, RequeueCloudMessageLocally(m, h)
        PROVE  RedeliveryBounded'
    BY <1>9 DEF RequeueCloudMessageLocally
  <1>10. ASSUME NEW h \in Holders, ReleaseClaimsForHolder(h)
        PROVE  RedeliveryBounded'
    BY <1>10 DEF ReleaseClaimsForHolder
  <1>11. ASSUME NEW m \in LocalMessages, RequeueClaimedMessage(m)
        PROVE  RedeliveryBounded'
    BY <1>11 DEF RequeueClaimedMessage
  <1>12. ASSUME NEW m \in Messages, LeaseRunsOut(m)
        PROVE  RedeliveryBounded'
    BY <1>12 DEF LeaseRunsOut
  <1>13. CASE UNCHANGED storeVars
    BY <1>13 DEF storeVars
  <1>14. QED
    BY <1>1, <1>2, <1>3, <1>4, <1>5, <1>6, <1>7, <1>8, <1>9, <1>10, <1>11, <1>12, <1>13 DEF StoreNext, RenewMessage

LEMMA InitHolds ==
    StoreInit => RowsCoherent /\ OneClaimPerSession /\ SendInv /\ RedeliveryBounded
  <1> SUFFICES ASSUME StoreInit
               PROVE  RowsCoherent /\ OneClaimPerSession /\ SendInv /\ RedeliveryBounded
    OBVIOUS
  <1>1. \A m \in Messages : row[m] = Cleared("absent")
    BY DEF StoreInit
  <1>2. RowsCoherent /\ OneClaimPerSession
    BY <1>1 DEF Cleared, RowsCoherent, OneClaimPerSession, HeldLive, ClaimedBy, Messages
  <1>3. OutboxCoherent
    BY DEF StoreInit, OutboxCoherent, NoEntry
  <1>4. ASSUME NEW k \in Keys
        PROVE  {m \in LocalMessages : origin[m] = k} = outbox[k].ids
    <2>1. outbox[k].ids = {}
      BY DEF StoreInit, NoEntry
    <2>2. \A m \in LocalMessages : origin[m] # k
      BY StoreAssumption DEF StoreInit
    <2>3. QED BY <2>1, <2>2
  <1>5. RedeliveryBounded
    BY <1>1, StoreAssumption DEF StoreInit, Cleared, RedeliveryBounded, Messages
  <1>6. QED BY <1>2, <1>3, <1>4, <1>5 DEF SendInv, SendOnce

\* No sequence of sends, claims, finishes, redeliveries and requeues leaves a
\* row whose columns contradict each other.
THEOREM RowsStayCoherent == StoreSpec => []RowsCoherent
  BY InitHolds, TypeCorrect, RowsInductive, PTL DEF StoreSpec

\* A coherent local row is acked, held under a live lease, or offered to readers.
LEMMA CoherentIsNotLost == TypeOK /\ RowsCoherent => NoLocalMessageLost
  <1> SUFFICES ASSUME TypeOK, RowsCoherent, NEW m \in LocalMessages,
                      row[m].state \notin {"absent", "acked"}, ~WaitReady(m)
               PROVE  \E h \in Holders : HeldLive(m, h)
    BY DEF NoLocalMessageLost
  <1>1. row[m] \in Row
    BY DEF TypeOK, Messages
  <1>2. row[m].state = "claimed" /\ row[m].lease = "live" /\ row[m].holder \in Holders
    BY <1>1, StoreAssumption DEF RowsCoherent, Row, Messages, WaitReady
  <1>3. QED BY <1>2 DEF HeldLive, ClaimedBy, LeaseExpired

\* A local message waits for a reader until somebody acks it.
THEOREM LocalMessagesAreNeverLost == StoreSpec => []NoLocalMessageLost
  BY TypeCorrect, RowsStayCoherent, CoherentIsNotLost, PTL

\* ClaimMessage's check gives every session one live claim, late renewals apart.
THEOREM SessionsHoldOneClaim == StoreSpec => []OneClaimPerSession
  BY InitHolds, TypeCorrect, OneClaimInductive, PTL DEF StoreSpec

\* The retries of a send under one key insert its messages once.
THEOREM SendsHappenOnce == StoreSpec => []SendOnce
  <1>1. SendInv => SendOnce
    BY DEF SendInv
  <1>2. QED
    BY <1>1, InitHolds, TypeCorrect, SendOnceInductive, PTL DEF StoreSpec

\* The redelivery loop of a cloud message stops at the cap and not before it.
THEOREM RedeliveryStopsAtTheCap == StoreSpec => []RedeliveryBounded
  BY InitHolds, TypeCorrect, RowsStayCoherent, RedeliveryInductive, PTL DEF StoreSpec

-----------------------------------------------------------------------------
(* The store implements Inbox. *)

Place == [m \in Messages |-> PlaceOf(m)]

\* A write of one row moves its item, in one of the ways Inbox allows, or not at all.
LEMMA OneRowMoves ==
    ASSUME NEW m \in Messages,
           Place' = [Place EXCEPT ![m] = PlaceOf(m)'],
           \/ PlaceOf(m)' = PlaceOf(m)
           \/ PlaceOf(m) = Promise!At("absent") /\ PlaceOf(m)' = Promise!At("open")
           \/ /\ PlaceOf(m) = Promise!At("open")
              /\ \E h \in Holders : PlaceOf(m)' = Promise!HeldBy(h)
           \/ PlaceOf(m).status = "held" /\ PlaceOf(m)' = Promise!At("open")
           \/ PlaceOf(m).status = "held" /\ PlaceOf(m)' = Promise!At("done")
           \/ /\ PlaceOf(m) = Promise!At("open") /\ m \notin LocalMessages
              /\ PlaceOf(m)' = Promise!At("done")
    PROVE  [Promise!Next]_Place
  <1> DEFINE Moved(to) == [i \in Messages |-> IF i \in {m} THEN to ELSE Place[i]]
  <1>1. Place' = Moved(PlaceOf(m)')
    BY DEF Place
  <1>2. Place[m] = PlaceOf(m)
    BY DEF Place
  <1>3. CASE PlaceOf(m)' = PlaceOf(m)
    BY <1>1, <1>2, <1>3 DEF Place
  <1>4. CASE PlaceOf(m) = Promise!At("absent") /\ PlaceOf(m)' = Promise!At("open")
    <2>1. Promise!Move({m}, Promise!At("open"))
      BY <1>1, <1>4 DEF Promise!Move, Place
    <2>2. Promise!Arrive
      BY <1>2, <1>4, <2>1 DEF Promise!Arrive, Place
    <2>3. QED BY <2>2 DEF Promise!Next
  <1>5. ASSUME PlaceOf(m) = Promise!At("open"),
               NEW h \in Holders, PlaceOf(m)' = Promise!HeldBy(h)
        PROVE  Promise!Next
    <2>1. Promise!Move({m}, Promise!HeldBy(h))
      BY <1>1, <1>5 DEF Promise!Move, Place
    <2>2. Promise!Take
      BY <1>2, <1>5, <2>1 DEF Promise!Take, Place
    <2>3. QED BY <2>2 DEF Promise!Next
  <1>6. CASE PlaceOf(m).status = "held" /\ PlaceOf(m)' = Promise!At("open")
    <2>1. Promise!Move({m}, Promise!At("open"))
      BY <1>1, <1>6 DEF Promise!Move, Place
    <2>2. Promise!GiveBack
      BY <1>2, <1>6, <2>1 DEF Promise!GiveBack, Place
    <2>3. QED BY <2>2 DEF Promise!Next
  <1>7. CASE /\ \/ PlaceOf(m).status = "held"
                \/ PlaceOf(m) = Promise!At("open") /\ m \notin LocalMessages
             /\ PlaceOf(m)' = Promise!At("done")
    <2>1. Promise!Move({m}, Promise!At("done"))
      BY <1>1, <1>7 DEF Promise!Move, Place
    <2>2. Promise!Finish
      BY <1>2, <1>7, <2>1 DEF Promise!Finish, Place
    <2>3. QED BY <2>2 DEF Promise!Next
  <1>8. QED BY <1>3, <1>4, <1>5, <1>6, <1>7

LEMMA StoreStepMoves ==
    TypeOK /\ TypeOK' /\ RowsCoherent /\ RowsCoherent' /\ [StoreNext]_storeVars
      => [Promise!Next]_Place
  <1> SUFFICES ASSUME TypeOK, TypeOK', RowsCoherent, RowsCoherent', [StoreNext]_storeVars
               PROVE  [Promise!Next]_Place
    OBVIOUS
  <1> USE StoreAssumption DEF Messages
  <1>a. \A m \in Messages : row[m] \in Row /\ row[m]' \in Row
    BY DEF TypeOK
  <1> DEFINE Only(m) == \A i \in Messages \ {m} : row'[i] = row[i]
  <1>b. ASSUME NEW m \in Messages, Only(m)
        PROVE  Place' = [Place EXCEPT ![m] = PlaceOf(m)']
    BY <1>b DEF Place, PlaceOf, LeaseExpired
  <1>1. ASSUME NEW k \in Keys \cup {None}, NEW q \in Requests,
               NEW ms \in SUBSET LocalMessages, InsertLocalMessages(k, q, ms)
        PROVE  Promise!Next
    <2>1. \A m \in ms : PlaceOf(m) = Promise!At("absent")
      BY <1>1 DEF InsertLocalMessages, PlaceOf, Promise!At
    <2>2. \A m \in Messages : PlaceOf(m)' = IF m \in ms THEN Promise!At("open") ELSE PlaceOf(m)
      BY <1>1 DEF InsertLocalMessages, PlaceOf, Promise!At, Cleared, LeaseExpired, TypeOK
    <2>3. Promise!Move(ms, Promise!At("open"))
      BY <2>2 DEF Promise!Move, Place
    <2>4. QED BY <2>1, <2>3 DEF Promise!Next, Promise!Arrive, Place
  <1>2. ASSUME NEW h \in Holders, ReleaseClaimsForHolder(h)
        PROVE  [Promise!Next]_Place
    <2> DEFINE S == {m \in LocalMessages : HeldLive(m, h)}
    <2>1. \A m \in S : PlaceOf(m).status = "held"
      BY DEF PlaceOf, HeldLive, ClaimedBy
    <2>2. \A m \in Messages : PlaceOf(m)' = IF m \in S THEN Promise!At("open") ELSE PlaceOf(m)
      BY <1>2 DEF ReleaseClaimsForHolder, SetRows, PlaceOf, Promise!At, Cleared,
         LeaseExpired, HeldLive, ClaimedBy, TypeOK
    <2>3. Promise!Move(S, Promise!At("open"))
      BY <2>2 DEF Promise!Move, Place
    <2>4. QED BY <2>1, <2>3 DEF Promise!Next, Promise!GiveBack, Place
  <1> USE DEF SetRow, SetRows, PlaceOf, LeaseExpired, Promise!At, Promise!HeldBy, Cleared,
              Offered, Row
  <1>3. ASSUME NEW m \in CloudMessages, NEW l \in CloudLeases,
               InsertCloudNotificationMessage(m, l)
        PROVE  [Promise!Next]_Place
    BY <1>3, <1>a, <1>b, OneRowMoves DEF InsertCloudNotificationMessage, TypeOK, CloudLeases
  <1>4. ASSUME NEW m \in CloudMessages, NEW h \in Holders, NEW l \in CloudLeases,
               RenewCloudMessage(m, h, l)
        PROVE  [Promise!Next]_Place
    BY <1>4, <1>a, <1>b, OneRowMoves DEF RenewCloudMessage, ClaimedBy, CloudLeases
  <1>5. ASSUME NEW m \in CloudMessages, QuarantineCloudMessage(m)
        PROVE  [Promise!Next]_Place
    BY <1>5, <1>a, <1>b, OneRowMoves DEF QuarantineCloudMessage
  <1>6. ASSUME NEW m \in Messages, NEW h \in Holders, ClaimMessage(m, h)
        PROVE  [Promise!Next]_Place
    BY <1>6, <1>a, <1>b, OneRowMoves DEF ClaimMessage
  <1>7. ASSUME NEW m \in LocalMessages, NEW h \in Holders,
               FinishClaimedMessage(m, h, "acked") \/ FinishClaimedMessage(m, h, "unclaimed")
        PROVE  [Promise!Next]_Place
    <2>1. CASE FinishClaimedMessage(m, h, "acked")
      BY <2>1, <1>a, <1>b, OneRowMoves DEF FinishClaimedMessage, HeldLive, ClaimedBy
    <2>2. CASE FinishClaimedMessage(m, h, "unclaimed")
      BY <2>2, <1>a, <1>b, OneRowMoves DEF FinishClaimedMessage, HeldLive, ClaimedBy
    <2>3. QED BY <1>7, <2>1, <2>2
  <1>8. ASSUME NEW m \in CloudMessages, NEW h \in Holders,
               FinishCloudClaimedMessage(m, h, "acked") \/ FinishCloudClaimedMessage(m, h, "released")
        PROVE  [Promise!Next]_Place
    <2>1. CASE FinishCloudClaimedMessage(m, h, "acked")
      BY <2>1, <1>a, <1>b, OneRowMoves DEF FinishCloudClaimedMessage, ClaimedBy
    <2>2. CASE FinishCloudClaimedMessage(m, h, "released")
      BY <2>2, <1>a, <1>b, OneRowMoves DEF FinishCloudClaimedMessage, ClaimedBy
    <2>3. QED BY <1>8, <2>1, <2>2
  <1>9. ASSUME NEW m \in CloudMessages, NEW h \in Holders, RequeueCloudMessageLocally(m, h)
        PROVE  [Promise!Next]_Place
    BY <1>9, <1>a, <1>b, OneRowMoves DEF RequeueCloudMessageLocally, ClaimedBy
  <1>10. ASSUME NEW m \in LocalMessages, RequeueClaimedMessage(m)
        PROVE  [Promise!Next]_Place
    BY <1>10, <1>a, <1>b, OneRowMoves DEF RequeueClaimedMessage
  <1>11. ASSUME NEW m \in Messages, LeaseRunsOut(m)
        PROVE  [Promise!Next]_Place
    BY <1>11, <1>a, <1>b, OneRowMoves DEF LeaseRunsOut
  <1>12. ASSUME NEW m \in CloudMessages, NEW l \in CloudLeases, NEW reopen \in BOOLEAN,
               RefreshCloudNotificationLease(m, l, reopen)
        PROVE  [Promise!Next]_Place
    <2>1. CASE row[m].state = "acked" /\ UNCHANGED storeVars
      BY <2>1 DEF storeVars, Place
    <2>2. CASE /\ row[m].state \in {"released", "claimed"}
               /\ ApplyCloudRedeliveryGuard(m, l)
      <3>1. CASE row'[m] = Cleared("acked") /\ Only(m)
        <4>1. PlaceOf(m)' = Promise!At("done") /\ m \notin LocalMessages
          BY <3>1
        <4>2. PlaceOf(m).status = "held" \/ PlaceOf(m) = Promise!At("open")
          BY <2>2
        <4>3. Place' = [Place EXCEPT ![m] = PlaceOf(m)']
          BY <1>b, <3>1
        <4>4. QED BY <4>1, <4>2, <4>3, OneRowMoves
      <3>2. CASE row'[m] = Offered(l) /\ Only(m)
        <4>1. PlaceOf(m)' = Promise!At("open")
          BY <3>2
        <4>2. PlaceOf(m).status = "held" \/ PlaceOf(m) = Promise!At("open")
          BY <2>2
        <4>3. Place' = [Place EXCEPT ![m] = PlaceOf(m)']
          BY <1>b, <3>2
        <4>4. QED BY <4>1, <4>2, <4>3, OneRowMoves
      <3>3. QED BY <2>2, <3>1, <3>2 DEF ApplyCloudRedeliveryGuard, TypeOK
    <2>3. CASE row[m].state = "unclaimed" /\ SetRow(m, Offered(l))
      BY <2>3, <1>a, <1>b, OneRowMoves DEF CloudLeases
    <2>4. CASE /\ row[m].state = "claimed" /\ ~LeaseExpired(m)
               /\ SetRow(m, [row[m] EXCEPT !.lease = l])
      BY <2>4, <1>a, <1>b, OneRowMoves DEF CloudLeases
    <2>5. QED BY <1>12, <2>1, <2>2, <2>3, <2>4 DEF RefreshCloudNotificationLease
  <1>13. CASE UNCHANGED storeVars
    BY <1>13 DEF storeVars, Place
  <1>14. QED
    BY <1>1, <1>2, <1>3, <1>4, <1>5, <1>6, <1>7, <1>8, <1>9, <1>10, <1>11, <1>12, <1>13 DEF StoreNext, RenewMessage

\* The store, with its leases, requeues and quarantines, implements the promise
\* of Inbox: one holder at a time, no handover but through the open state, no
\* way back from done, and no end of a local message but by its live holder.
THEOREM StoreKeepsPromise == StoreSpec => KeepsPromise
  <1>1. StoreInit => Promise!Init
    BY DEF StoreInit, Promise!Init, PlaceOf, Cleared, Promise!At
  <1>2. StoreSpec => [](TypeOK /\ RowsCoherent)
    BY TypeCorrect, RowsStayCoherent, PTL
  <1>3. QED
    BY <1>1, <1>2, StoreStepMoves, PTL DEF StoreSpec, KeepsPromise, Promise!Spec, Place
=============================================================================
