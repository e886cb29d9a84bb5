-------------------------- MODULE CloudClaimsProofs --------------------------
(* The claims of the cloud, for any sessions, requests in progress and       *)
(* bounds. The argument has three layers. A step of the composition is a     *)
(* step of the store (StoreStep), so what is proved of the store holds here. *)
(* What any step may do to the journal, the cloud, the metadata, the done    *)
(* archive, the calls, the repair, the poller and the row is stated once for *)
(* each (JournalStep ... RowStep), with one case per action. The parts of    *)
(* the inductive invariant IInv follow from these, without the actions.      *)
EXTENDS CloudClaims, MessageStoreProofs

\* Two acks were journaled under different claims: one was retried by the poller.
TwoAcks ==
    \E i, j \in Created :
        ops[i].kind = "ack" /\ ops[j].kind = "ack" /\ ops[i].claim # ops[j].claim

\* No claim is newer than the newest; only a decline has no holder.
OpsOK ==
    /\ \A i \in Created :
         /\ ops[i].claim <= cloud.claim
         /\ ops[i].holder = None <=> ops[i].kind = "decline"
    /\ metadata <= cloud.claim

\* A message that is not there yet has no operations.
AbsentOK ==
    row[Msg].state = "absent" =>
        Created = {} /\ poller.phase \in {"idle", "leased"}

\* The poller works on the newest claim, with operations of that claim.
PollerOK ==
    /\ poller.claim = (IF poller.phase = "idle" THEN 0 ELSE cloud.claim)
    /\ poller.phase # "idle" => poller.claim # 0
    /\ poller.op # 0 <=> poller.phase \in {"acking", "declining"}
    /\ poller.op # 0 =>
         /\ ops[poller.op].claim = poller.claim
         /\ ops[poller.op].kind = IF poller.phase = "acking" THEN "ack" ELSE "decline"
    /\ poller.phase \in {"retrying", "acking"} =>
         poller.base # 0 /\ ops[poller.base].kind = "ack"
    /\ poller.keep => metadata \in {0, poller.claim}

\* Under a claim that the message is not offered under, there are only declines
\* and retried acks, whose first attempt was made under the message's claim.
NewerOK ==
    metadata # 0 =>
        \A i \in Created : ops[i].claim > metadata => ops[i].kind \in {"ack", "decline"}

\* An ack in the done archive has reached the store, and stands against no release.
DoneOK ==
    /\ \A i \in done : ops[i].kind = "ack" => row[Msg].state = "acked"
    /\ \A i \in done \cup repair.todo, j \in Open :
         ops[i].kind = "ack" /\ ops[j].kind = "release" => ops[i].claim # ops[j].claim
    /\ Called \cap pending \cap done = {}

AppliedOK == \A i \in applied : ops[i].kind = "ack" => cloud.status = "acked"

\* Unless an ack was retried, what would end the claim is of the message's claim.
EndingOK ==
    TwoAcks \/
        /\ \A i, j \in Open :
             ops[i].kind \in Terminal /\ ops[j].kind \in Terminal =>
                 ops[i].claim = ops[j].claim
        /\ \A i \in Open : ops[i].kind \in Terminal => metadata \in {0, ops[i].claim}

\* What a repair has not looked at yet is on its list, or began meanwhile.
RepairOK ==
    /\ repair.on \/ repair.todo = {}
    /\ repair.on /\ ~repair.blocked =>
         /\ \A i \in Open : ops[i].kind = "renew" => i \in repair.todo
         /\ row[Msg].state = "claimed" =>
              \A i \in Open :
                  ops[i].kind \in Terminal =>
                      \/ i \in repair.todo
                      \/ IF metadata = 0 THEN TwoAcks ELSE ops[i].claim # metadata

\* Sharper than NoForeignRenew: also while nobody has the message.
RenewOK ==
    \A i \in Open :
        ops[i].kind = "renew" /\ ops[i].claim = metadata =>
            \/ ClaimedBy(Msg, ops[i].holder)
            \/ \E j \in Created : ops[j].kind \in Terminal /\ ops[j].holder = ops[i].holder

IInv ==
    /\ CCTypeOK /\ RowsCoherent
    /\ OpsOK /\ AbsentOK /\ PollerOK /\ NewerOK /\ DoneOK /\ AppliedOK
    /\ EndingOK /\ RepairOK /\ RenewOK
    /\ OneTerminalPerClaim /\ AckAgreed /\ PendingAckPins /\ NoClaimForgotten

-----------------------------------------------------------------------------
(* The store is changed by its transactions only. *)

LEMMA OneMessage == Messages = {Msg} /\ CloudMessages = {Msg} /\ LocalMessages = {}
BY CloudAssumption DEF Messages

LEMMA SetsOne == ASSUME NEW r, SetRow(Msg, r) PROVE row' = [m \in {Msg} |-> r]
BY OneMessage DEF SetRow, SetRows

LEMMA StoreSteps ==
    /\ \A h \in Holders :
         /\ ClaimMessage(Msg, h) => StoreNext
         /\ \A l \in CloudLeases : RenewCloudMessage(Msg, h, l) => StoreNext
         /\ FinishCloudClaimedMessage(Msg, h, "acked") => StoreNext
         /\ FinishCloudClaimedMessage(Msg, h, "released") => StoreNext
         /\ RequeueCloudMessageLocally(Msg, h) => StoreNext
    /\ \A l \in CloudLeases : InsertCloudNotificationMessage(Msg, l) => StoreNext
    /\ QuarantineCloudMessage(Msg) => StoreNext
    /\ LeaseRunsOut(Msg) => StoreNext
BY OneMessage DEF StoreNext

\* The holder of a claimed message is not NULL.
LEMMA ClaimedHolder ==
    ASSUME RowsCoherent, NEW h \in Holders \cup {None}, ClaimedBy(Msg, h)
    PROVE  h \in Holders
BY OneMessage DEF RowsCoherent, ClaimedBy

LEMMA CreatedOps == ASSUME CCTypeOK, NEW i \in Created
                    PROVE  i \in OpIds /\ ops[i] \in Op
BY DEF CCTypeOK, Created

LEMMA SettlesInStore ==
    ASSUME CCTypeOK, RowsCoherent, NEW i \in Created, Settles(i)
    PROVE  [StoreNext]_storeVars
<1>1. ops[i].holder \in Holders \cup {None}
    BY CreatedOps DEF Op
<1>2. CASE UNCHANGED storeVars
    BY <1>2
<1>3. ASSUME NEW l \in CloudLeases, RenewCloudMessage(Msg, ops[i].holder, l)
      PROVE  StoreNext
    <2>1. ops[i].holder \in Holders
        BY <1>1, <1>3, ClaimedHolder DEF RenewCloudMessage
    <2> QED
        BY <1>3, <2>1, StoreSteps
<1>4. ASSUME NEW next \in {"acked", "released"},
             FinishCloudClaimedMessage(Msg, ops[i].holder, next)
      PROVE  StoreNext
    <2>1. ops[i].holder \in Holders
        BY <1>1, <1>4, ClaimedHolder DEF FinishCloudClaimedMessage
    <2> QED
        BY <1>4, <2>1, StoreSteps
<1> QED
    BY <1>2, <1>3, <1>4 DEF Settles

LEMMA ClearsInStore ==
    ASSUME CCTypeOK, RowsCoherent, NEW h \in Holders \cup {None}, ClearsAbandoned(h)
    PROVE  StoreNext
<1>1. ClaimedBy(Msg, h)
    BY DEF ClearsAbandoned, FinishCloudClaimedMessage, RequeueCloudMessageLocally
<1>2. h \in Holders
    BY <1>1, ClaimedHolder
<1> QED
    BY <1>2, StoreSteps DEF ClearsAbandoned

LEMMA ReleaseInStore ==
    ASSUME CCTypeOK, RowsCoherent, NEW h \in Holders, NEW renews,
           ReleaseAbandonedCloudClaim(h, renews)
    PROVE  [StoreNext]_storeVars
BY ClearsInStore, StoreSteps DEF ReleaseAbandonedCloudClaim

LEMMA StoreStep ==
    ASSUME CCTypeOK, RowsCoherent, [CCNext]_ccVars
    PROVE  [StoreNext]_storeVars
<1> USE DEF journalVars, cloudVars, daemonVars
<1>1. CASE UNCHANGED storeVars
    BY <1>1
<1>2. CASE LeaseRunsOutHere
    BY <1>2, StoreSteps DEF LeaseRunsOutHere
<1>3. ASSUME NEW s \in Sessions, SessionStops(s)
      PROVE  [StoreNext]_storeVars
    <2>1. s \in Holders
        BY DEF Holders
    <2>2. ASSUME NEW renews, ReleaseAbandonedCloudClaim(s, renews)
          PROVE  [StoreNext]_storeVars
        BY <2>1, <2>2, ReleaseInStore
    <2> QED
        BY <1>3, <2>1, <2>2, StoreSteps DEF SessionStops
<1>4. ASSUME NEW h \in Holders, Receives(h)
      PROVE  [StoreNext]_storeVars
    BY <1>4, StoreSteps DEF Receives
<1>5. ASSUME NEW x \in Slots, LocalCompletion(x)
      PROVE  [StoreNext]_storeVars
    <2>1. calls[x] # 0 => calls[x] \in Created
        BY DEF CCTypeOK
    <2> QED
        BY <1>5, <2>1, SettlesInStore DEF LocalCompletion
<1>6. CASE IngestsNew
    BY <1>6, StoreSteps DEF IngestsNew
<1>7. CASE IngestsAgain
    <2>1. (row[Msg].state = "claimed") \in BOOLEAN
        OBVIOUS
    <2>2. ASSUME NEW l \in CloudLeases,
                 RefreshCloudNotificationLease(Msg, l, row[Msg].state = "claimed")
          PROVE  StoreNext
        BY <2>1, <2>2, OneMessage DEF StoreNext
    <2> QED
        BY <1>7, <2>2 DEF IngestsAgain
<1>8. CASE MissesMetadata
    BY <1>8, StoreSteps DEF MissesMetadata
<1>9. CASE RetriedAckAccepted
    <2>1. ASSUME NEW i, FinishCloudClaimedMessage(Msg, ops[i].holder, "acked"),
                 i \in pending
          PROVE  StoreNext
        <3>1. ops[i].holder \in Holders \cup {None}
            BY <2>1, CreatedOps DEF CCTypeOK, Op
        <3>2. ops[i].holder \in Holders
            BY <2>1, <3>1, ClaimedHolder DEF FinishCloudClaimedMessage
        <3> QED
            BY <2>1, <3>2, StoreSteps
    <2> QED
        BY <1>9, <2>1 DEF RetriedAckAccepted
<1>10. CASE RepairClaims
    BY <1>10, ReleaseInStore, StoreSteps DEF RepairClaims
<1>11. ASSUME NEW i \in OpIds, RepairReplays(i)
       PROVE  [StoreNext]_storeVars
    <2>1. i \in Created /\ ops[i].holder \in Holders \cup {None}
        BY <1>11, CreatedOps DEF RepairReplays, CCTypeOK, Op
    <2> QED
        BY <1>11, <2>1, SettlesInStore, ClearsInStore DEF RepairReplays
<1>12. ASSUME NEW x \in Slots, AnswerUncertain(x) \/ AnswerRefused(x)
       PROVE  UNCHANGED storeVars
    BY <1>12 DEF AnswerUncertain, AnswerRefused
<1>13. ASSUME NEW x \in Slots, NEW h \in Holders, NEW kind \in Kinds, Ask(x, h, kind)
       PROVE  UNCHANGED storeVars
    BY <1>13 DEF Ask
<1>14. ASSUME NEW h \in Holders, NEW i \in OpIds, RecoverLocallyCompleted(h, i)
       PROVE  UNCHANGED storeVars
    BY <1>14 DEF RecoverLocallyCompleted
<1>15. CASE CloudLeaseEnds \/ MetadataLost \/ Crash \/ RepairStarts
    BY <1>15 DEF CloudLeaseEnds, MetadataLost, Crash, RepairStarts
<1>16. ASSUME NEW i \in OpIds,
              \/ CloudCarriesOut(i) \/ RepairCompletes(i) \/ RepairDropsRenew(i)
              \/ RepairIsBlocked(i) \/ RepairFails(i)
       PROVE  UNCHANGED storeVars
    BY <1>16 DEF CloudCarriesOut, RepairCompletes, RepairDropsRenew, RepairIsBlocked,
                 RepairFails
<1>17. ASSUME NEW s \in Sessions, SessionDies(s)
       PROVE  UNCHANGED storeVars
    BY <1>17 DEF SessionDies
<1>18. CASE \/ PollerLeases \/ DeclinesDuplicate \/ MeetsPendingTerminal \/ PollerDeclines
            \/ PollerRetriesAck \/ DeclineAccepted \/ PollerUncertain \/ PollerRefused
            \/ IngestStops
    BY <1>18 DEF PollerLeases, DeclinesDuplicate, MeetsPendingTerminal, PollerDeclines,
                 IngestStops, PollerRetriesAck, DeclineAccepted, PollerUncertain, PollerRefused
<1>19. CASE UNCHANGED ccVars
    BY <1>19 DEF ccVars
<1> QED
    BY <1>1, <1>2, <1>3, <1>4, <1>5, <1>6, <1>7, <1>8, <1>9, <1>10, <1>11, <1>12,
       <1>13, <1>14, <1>15, <1>16, <1>17, <1>18, <1>19
    DEF CCNext, PollerNext, RepairNext

-----------------------------------------------------------------------------
(* Types. *)

\* The records of the poller and of the repair, with ids from C.
PollerRecord(C) ==
    [phase : {"idle", "leased", "retrying", "declines", "acking", "declining"},
     claim : 0..MaxClaims, op : C \cup {0}, base : C \cup {0}, keep : BOOLEAN]
RepairRecord(C) == [on : BOOLEAN, todo : SUBSET C, blocked : BOOLEAN]

\* The part of the type invariant that grows with the journal.
Typed(C) ==
    /\ pending \subseteq C /\ done \subseteq C
    /\ applied \subseteq C /\ loose \subseteq C
    /\ calls \in [Slots -> C \cup {0}]
    /\ poller \in PollerRecord(C)
    /\ repair \in RepairRecord(C)

LEMMA TypeParts ==
    CCTypeOK <=>
        /\ TypeOK
        /\ cloud \in [status : {"open", "leased", "acked"}, claim : 0..MaxClaims]
        /\ metadata \in 0..MaxClaims
        /\ ops \in [OpIds -> Op \cup {NoOp}]
        /\ Typed(Created)
        /\ running \subseteq Sessions
        /\ starts \in 0..MaxStarts
BY DEF CCTypeOK, Typed, PollerRecord, RepairRecord

LEMMA TypePartsNext ==
    CCTypeOK' <=>
        /\ TypeOK'
        /\ cloud' \in [status : {"open", "leased", "acked"}, claim : 0..MaxClaims]
        /\ metadata' \in 0..MaxClaims
        /\ ops' \in [OpIds -> Op \cup {NoOp}]
        /\ pending' \subseteq Created' /\ done' \subseteq Created'
        /\ applied' \subseteq Created' /\ loose' \subseteq Created'
        /\ calls' \in [Slots -> Created' \cup {0}]
        /\ poller' \in PollerRecord(Created')
        /\ repair' \in RepairRecord(Created')
        /\ running' \subseteq Sessions
        /\ starts' \in 0..MaxStarts
BY DEF CCTypeOK, PollerRecord, RepairRecord

LEMMA RecordsWiden ==
    ASSUME NEW C, NEW D, C \subseteq D
    PROVE  PollerRecord(C) \subseteq PollerRecord(D) /\ RepairRecord(C) \subseteq RepairRecord(D)
BY DEF PollerRecord, RepairRecord

LEMMA Grows ==
    ASSUME NEW i, Created' = Created \cup {i}
    PROVE  /\ PollerRecord(Created) \subseteq PollerRecord(Created')
           /\ RepairRecord(Created) \subseteq RepairRecord(Created')
<1>1. Created \subseteq Created'
    OBVIOUS
<1> QED
    BY <1>1, RecordsWiden

LEMMA PollerFits ==
    ASSUME NEW C, NEW p \in PollerRecord(C), NEW i \in C \cup {0}
    PROVE  /\ [p EXCEPT !.phase = "declining", !.op = i] \in PollerRecord(C)
           /\ [p EXCEPT !.phase = "acking", !.op = i] \in PollerRecord(C)
           /\ \A b \in BOOLEAN :
                [p EXCEPT !.phase = "retrying", !.base = i, !.keep = b] \in PollerRecord(C)
BY DEF PollerRecord

LEMMA IdleFits ==
    ASSUME NEW C
    PROVE  /\ Idle \in PollerRecord(C) /\ NoRepair \in RepairRecord(C)
           /\ \A todo \in SUBSET C :
                [on |-> TRUE, todo |-> todo, blocked |-> FALSE] \in RepairRecord(C)
           /\ Idle.phase = "idle" /\ Idle.claim = 0 /\ Idle.op = 0 /\ Idle.base = 0
           /\ Idle.keep = FALSE
           /\ NoRepair.on = FALSE /\ NoRepair.todo = {} /\ NoRepair.blocked = FALSE
BY CloudAssumption DEF PollerRecord, RepairRecord, Idle, NoRepair

LEMMA LeasedFits ==
    ASSUME NEW C, NEW c \in 0..MaxClaims
    PROVE  /\ Leased(c) \in PollerRecord(C) /\ Declining(c) \in PollerRecord(C)
           /\ Leased(c).phase = "leased" /\ Declining(c).phase = "declines"
           /\ Leased(c).claim = c /\ Declining(c).claim = c
           /\ Leased(c).op = 0 /\ Declining(c).op = 0
           /\ Leased(c).keep = FALSE /\ Declining(c).keep = FALSE
<1>1. ASSUME NEW p \in PollerRecord(C)
      PROVE  LET q == [p EXCEPT !.phase = "leased", !.claim = c]
                 r == [q EXCEPT !.phase = "declines"]
             IN  /\ q \in PollerRecord(C) /\ r \in PollerRecord(C)
                 /\ q.phase = "leased" /\ r.phase = "declines" /\ q.claim = c /\ r.claim = c
                 /\ q.op = p.op /\ r.op = p.op /\ q.keep = p.keep /\ r.keep = p.keep
    BY DEF PollerRecord
<1> QED
    BY <1>1, IdleFits DEF Leased, Declining

\* An operation that begins is new under its id, or there already.
LEMMA BeginsFits ==
    ASSUME CCTypeOK, NEW i \in OpIds, NEW kind \in {"ack", "release", "renew", "decline"},
           NEW c \in Claims, NEW h \in Holders \cup {None}, Begins(i, kind, c, h)
    PROVE  /\ ops' \in [OpIds -> Op \cup {NoOp}]
           /\ Created' = Created \cup {i} /\ pending' = pending \cup {i}
           /\ \A j \in Created : ops'[j] = ops[j]
           /\ ops'[i] = [kind |-> kind, claim |-> c, holder |-> h]
           /\ i \in Created => i \in Open
           /\ i \notin Created => OpenOf({kind}, c) = {}
<1>1. CASE OpenOf({kind}, c) = {}
    <2> DEFINE o == [kind |-> kind, claim |-> c, holder |-> h]
    <2>1. o \in Op /\ o # NoOp
        BY DEF Op, NoOp
    <2>2. i \notin Created /\ ops' = [ops EXCEPT ![i] = o] /\ pending' = pending \cup {i}
        BY <1>1 DEF Begins
    <2>3. ops \in [OpIds -> Op \cup {NoOp}]
        BY DEF CCTypeOK
    <2> HIDE DEF o
    <2>4. Created' = Created \cup {i}
        BY <2>1, <2>2, <2>3 DEF Created
    <2>5. \A j \in Created : ops'[j] = ops[j]
        BY <2>2, <2>3 DEF Created
    <2> QED
        BY <1>1, <2>1, <2>2, <2>3, <2>4, <2>5 DEF o
<1>2. CASE OpenOf({kind}, c) # {}
    <2>1. i \in OpenOf({kind}, c) /\ ops[i].holder = h /\ UNCHANGED <<ops, pending>>
        BY <1>2 DEF Begins
    <2>2. i \in Open /\ i \in Created /\ ops[i].kind = kind /\ ops[i].claim = c
        BY <2>1 DEF OpenOf, Open, CCTypeOK
    <2>3. ops[i] \in Op
        BY <2>2, CreatedOps
    <2>4. ops[i] = [kind |-> kind, claim |-> c, holder |-> h]
        BY <2>1, <2>2, <2>3 DEF Op
    <2>5. Created' = Created
        BY <2>1 DEF Created
    <2> QED
        BY <2>1, <2>2, <2>4, <2>5 DEF CCTypeOK, Open
<1> QED
    BY <1>1, <1>2

\* The same of a release of an abandoned claim.
LEMMA ReleaseFits ==
    ASSUME CCTypeOK, NEW h \in Holders, NEW renews, ReleaseAbandonedCloudClaim(h, renews)
    PROVE  \/ /\ UNCHANGED <<ops, done, cloud, applied, loose>>
              /\ metadata = 0 /\ QuarantineCloudMessage(Msg)
              /\ pending' = pending \ renews
           \/ \E i \in OpIds \ Created :
                /\ metadata # 0
                /\ ops' \in [OpIds -> Op \cup {NoOp}]
                /\ Created' = Created \cup {i}
                /\ \A j \in Created : ops'[j] = ops[j]
                /\ ops'[i] = [kind |-> "release", claim |-> metadata, holder |-> h]
                /\ \/ /\ cloud.status = "leased" /\ cloud.claim = metadata
                      /\ cloud' = [cloud EXCEPT !.status = "open"]
                      /\ applied' = applied \cup {i}
                      /\ FinishCloudClaimedMessage(Msg, h, "released")
                      /\ done' = done \cup {i} /\ pending' = pending \ renews
                      /\ UNCHANGED loose
                   \/ /\ pending' = (pending \ renews) \cup {i} /\ loose' = loose \cup {i}
                      /\ UNCHANGED <<storeVars, done, cloud, applied>>
                   \/ /\ ClearsAbandoned(h) /\ pending' = pending \ renews
                      /\ UNCHANGED <<done, cloud, applied, loose>>
<1>1. CASE metadata = 0
    BY <1>1 DEF ReleaseAbandonedCloudClaim, cloudVars
<1>2. CASE metadata # 0
    <2>1. PICK i \in OpIds \ Created :
            /\ ops' = [ops EXCEPT ![i] = [kind |-> "release", claim |-> metadata,
                                          holder |-> h]]
            /\ \/ /\ cloud.status = "leased" /\ cloud.claim = metadata
                  /\ cloud' = [cloud EXCEPT !.status = "open"]
                  /\ applied' = applied \cup {i}
                  /\ FinishCloudClaimedMessage(Msg, h, "released")
                  /\ done' = done \cup {i} /\ pending' = pending \ renews
                  /\ UNCHANGED loose
               \/ /\ pending' = (pending \ renews) \cup {i} /\ loose' = loose \cup {i}
                  /\ UNCHANGED <<storeVars, done, cloud, applied>>
               \/ /\ ClearsAbandoned(h) /\ pending' = pending \ renews
                  /\ UNCHANGED <<done, cloud, applied, loose>>
        BY <1>2 DEF ReleaseAbandonedCloudClaim, cloudVars
    <2> DEFINE o == [kind |-> "release", claim |-> metadata, holder |-> h]
    <2>2. o \in Op /\ o # NoOp
        BY <1>2 DEF Op, NoOp, CCTypeOK, Claims
    <2>3. ops \in [OpIds -> Op \cup {NoOp}] /\ ops' = [ops EXCEPT ![i] = o]
        BY <2>1 DEF CCTypeOK
    <2> HIDE DEF o
    <2>4. ops' \in [OpIds -> Op \cup {NoOp}] /\ ops'[i] = o
        BY <2>2, <2>3
    <2>5. Created' = Created \cup {i}
        BY <2>2, <2>3 DEF Created
    <2>6. \A j \in Created : ops'[j] = ops[j]
        BY <2>3, <2>1 DEF Created
    <2> QED
        BY <1>2, <2>1, <2>4, <2>5, <2>6 DEF o
<1> QED
    BY <1>1, <1>2

LEMMA DiesTyped ==
    ASSUME CCTypeOK, NEW pend \in SUBSET Created, Dies(pend)
    PROVE  /\ calls' \in [Slots -> Created \cup {0}]
           /\ loose' \subseteq Created
           /\ poller' \in PollerRecord(Created)
           /\ repair' \in RepairRecord(Created)
           /\ starts' \in 0..MaxStarts
<1>1. Called \subseteq Created \cup {0}
    BY DEF Called, CCTypeOK
<1>2. starts' \in 0..MaxStarts
    BY CloudAssumption DEF Dies, CCTypeOK
<1>3. poller.claim \in 0..MaxClaims
    BY DEF CCTypeOK
<1> QED
    BY <1>1, <1>2, <1>3, IdleFits, LeasedFits DEF Dies, CCTypeOK, NoCalls

\* Each step keeps the types, of the journal's new operations as well.
LEMMA TypeStep ==
    ASSUME IInv, [CCNext]_ccVars
    PROVE  CCTypeOK'
<1> USE DEF IInv, journalVars, cloudVars, daemonVars
<1> DEFINE Kept == /\ cloud' \in [status : {"open", "leased", "acked"}, claim : 0..MaxClaims]
                   /\ metadata' \in 0..MaxClaims
                   /\ running' \subseteq Sessions
                   /\ starts' \in 0..MaxStarts
           Journal == /\ pending' \subseteq Created' /\ done' \subseteq Created'
                      /\ applied' \subseteq Created' /\ loose' \subseteq Created'
                      /\ calls' \in [Slots -> Created' \cup {0}]
                      /\ poller' \in PollerRecord(Created')
                      /\ repair' \in RepairRecord(Created')
           Was == /\ cloud \in [status : {"open", "leased", "acked"}, claim : 0..MaxClaims]
                  /\ metadata \in 0..MaxClaims
                  /\ ops \in [OpIds -> Op \cup {NoOp}]
                  /\ pending \subseteq Created /\ done \subseteq Created
                  /\ applied \subseteq Created /\ loose \subseteq Created
                  /\ calls \in [Slots -> Created \cup {0}]
                  /\ poller \in PollerRecord(Created)
                  /\ repair \in RepairRecord(Created)
                  /\ running \subseteq Sessions
                  /\ starts \in 0..MaxStarts
<1>0. TypeOK' /\ Was
    <2>1. TypeOK'
        BY StoreStep, TypeInductive DEF CCTypeOK
    <2> QED
        BY <2>1, TypeParts DEF Typed
<1>a. ops' = ops => Created' = Created
    BY DEF Created
<1>b. poller.claim \in 0..MaxClaims
    BY <1>0 DEF PollerRecord
<1> DEFINE Goal == Kept /\ Journal /\ ops' \in [OpIds -> Op \cup {NoOp}]
<1> SUFFICES Goal
    BY <1>0, TypePartsNext
<1>c. /\ {Idle, Leased(poller.claim), Declining(poller.claim), NotRetried} \subseteq PollerRecord(Created)
      /\ NoRepair \in RepairRecord(Created)
    <2>1. Idle \in PollerRecord(Created) /\ NoRepair \in RepairRecord(Created)
        BY IdleFits
    <2>2. Leased(poller.claim) \in PollerRecord(Created) /\ Declining(poller.claim) \in PollerRecord(Created)
        BY <1>b, LeasedFits
    <2> QED
        BY <2>1, <2>2 DEF NotRetried
<1>d. ASSUME NEW rest \in SUBSET Created, WaitOperationEnds(rest)
      PROVE  /\ calls' \in [Slots -> Created \cup {0}] /\ loose' \subseteq Created
             /\ poller' \in PollerRecord(Created) /\ repair' \in RepairRecord(Created)
             /\ starts' \in 0..MaxStarts
    BY <1>0, <1>c, <1>d, DiesTyped DEF WaitOperationEnds
<1>1. CASE CloudLeaseEnds \/ LeaseRunsOutHere \/ MetadataLost
    BY <1>0, <1>a, <1>1, CloudAssumption DEF CloudLeaseEnds, LeaseRunsOutHere, MetadataLost
<1>2. CASE Crash
    BY <1>0, <1>a, <1>2, DiesTyped DEF Crash
<1>3. ASSUME NEW i \in OpIds, CloudCarriesOut(i)
      PROVE  Goal
    <2>1. i \in Created /\ cloud' \in [status : {"open", "leased", "acked"}, claim : 0..MaxClaims]
        BY <1>0, <1>3 DEF CloudCarriesOut, CloudAfter, Called, PollerRecord
    <2> QED
        BY <1>0, <1>a, <1>3, <2>1 DEF CloudCarriesOut
<1>4. ASSUME NEW h \in Holders, NEW renews, ReleaseAbandonedCloudClaim(h, renews),
             running' \subseteq Sessions, UNCHANGED <<metadata, calls, poller, starts>>,
             repair' \in {repair, NoRepair}
      PROVE  Goal
    <2>1. CASE metadata = 0
        BY <1>0, <1>a, <1>4, <2>1, IdleFits DEF ReleaseAbandonedCloudClaim
    <2>2. CASE metadata # 0
        <3>1. PICK i \in OpIds \ Created :
                /\ ops' \in [OpIds -> Op \cup {NoOp}]
                /\ Created' = Created \cup {i}
                /\ pending' \subseteq pending \cup {i} /\ done' \subseteq done \cup {i}
                /\ applied' \subseteq applied \cup {i} /\ loose' \subseteq loose \cup {i}
                /\ cloud' \in {cloud, [cloud EXCEPT !.status = "open"]}
            BY <1>4, <2>2, ReleaseFits
        <3>2. poller' \in PollerRecord(Created') /\ repair' \in RepairRecord(Created')
            BY <1>0, <1>4, <3>1, Grows, IdleFits
        <3>3. Journal
            BY <1>0, <1>4, <3>1, <3>2
        <3>4. Kept
            BY <1>0, <1>4, <3>1
        <3> QED
            BY <3>1, <3>3, <3>4
    <2> QED
        BY <2>1, <2>2
<1>5. ASSUME NEW s \in Sessions, SessionStops(s)
      PROVE  Goal
    <2>1. s \in Holders
        BY DEF Holders
    <2>2. ASSUME NEW renews, ReleaseAbandonedCloudClaim(s, renews)
          PROVE  Goal
        BY <1>0, <1>4, <1>5, <2>1, <2>2 DEF SessionStops
    <2> QED
        BY <1>0, <1>a, <1>5, <2>2 DEF SessionStops, Abandons
<1>6. ASSUME NEW s \in Sessions, SessionDies(s)
      PROVE  Goal
    BY <1>0, <1>a, <1>6 DEF SessionDies
<1>7. ASSUME NEW h \in Holders, Receives(h)
      PROVE  Goal
    BY <1>0, <1>a, <1>7 DEF Receives
<1>8. ASSUME NEW h \in Holders, NEW i \in OpIds, RecoverLocallyCompleted(h, i)
      PROVE  Goal
    BY <1>0, <1>a, <1>8 DEF RecoverLocallyCompleted, Completes, OpenOf, Open
<1>9. ASSUME NEW x \in Slots, NEW h \in Holders, NEW kind \in Kinds, Ask(x, h, kind)
      PROVE  Goal
    <2>1. PICK i \in OpIds : Begins(i, kind, metadata, h) /\ calls' = [calls EXCEPT ![x] = i]
        BY <1>9 DEF Ask
    <2>2. metadata \in Claims /\ kind \in {"ack", "release", "renew", "decline"}
        BY <1>0, <1>9, CloudAssumption DEF Ask, Claims
    <2>3. /\ Created' = Created \cup {i} /\ pending' = pending \cup {i}
          /\ ops' \in [OpIds -> Op \cup {NoOp}]
        BY <2>1, <2>2, BeginsFits
    <2>4. poller' \in PollerRecord(Created') /\ repair' \in RepairRecord(Created')
        BY <1>0, <1>9, <2>3, Grows DEF Ask
    <2> QED
        BY <1>0, <1>9, <2>1, <2>3, <2>4 DEF Ask
<1>10. ASSUME NEW x \in Slots, LocalCompletion(x)
       PROVE  Goal
    BY <1>0, <1>a, <1>10, DiesTyped DEF LocalCompletion, Completes
<1>11. ASSUME NEW x \in Slots, AnswerUncertain(x) \/ AnswerRefused(x)
       PROVE  Goal
    BY <1>0, <1>a, <1>11 DEF AnswerUncertain, AnswerRefused, Abandons
<1>12. CASE PollerLeases
    <2>1. cloud' = [status |-> "leased", claim |-> cloud.claim + 1]
        BY <1>12 DEF PollerLeases
    <2>2. cloud.claim + 1 \in 0..MaxClaims
        BY <1>0, <1>12, CloudAssumption DEF PollerLeases
    <2>3. poller' \in PollerRecord(Created)
        BY <1>12, <2>2, LeasedFits DEF PollerLeases
    <2> QED
        BY <1>0, <1>a, <1>12, <2>1, <2>2, <2>3 DEF PollerLeases
<1>13. CASE IngestsNew
    BY <1>0, <1>a, <1>b, <1>d, <1>13 DEF IngestsNew
<1>14. CASE IngestsAgain
    <2> DEFINE rest == pending \ OpenOf({"renew"}, metadata)
    <2>1. rest \subseteq pending /\ rest \in SUBSET Created
        BY <1>0
    <2>2. /\ pending' = rest /\ metadata' = poller.claim
          /\ \/ /\ poller' = Declining(poller.claim)
                /\ UNCHANGED <<loose, calls, repair, starts>>
             \/ WaitOperationEnds(rest)
        BY <1>14 DEF IngestsAgain
    <2> HIDE DEF rest
    <2> QED
        BY <1>0, <1>a, <1>b, <1>c, <1>d, <1>14, <2>1, <2>2 DEF IngestsAgain
<1>15. CASE DeclinesDuplicate
    BY <1>0, <1>a, <1>c, <1>d, <1>15 DEF DeclinesDuplicate
<1>i. CASE IngestStops
    <2> DEFINE rest == pending \ OpenOf({"renew"}, metadata)
    <2>1. rest \subseteq pending /\ rest \in SUBSET Created
        BY <1>0
    <2>2. /\ pending' = rest /\ metadata' \in {metadata, poller.claim}
          /\ UNCHANGED <<poller, loose, calls, repair, starts>> \/ Dies(rest)
        BY <1>i DEF IngestStops
    <2> HIDE DEF rest
    <2> QED
        BY <1>0, <1>a, <1>b, <1>i, <2>1, <2>2, DiesTyped DEF IngestStops
<1>16. CASE MeetsPendingTerminal
    <2> DEFINE rest == pending \ OpenOf({"renew"}, metadata)
    <2>1. rest \subseteq pending /\ rest \in SUBSET Created
        BY <1>0
    <2>2. /\ pending' = rest
          /\ \/ /\ \E i \in OpenOf(Terminal, metadata), b \in BOOLEAN :
                     poller' = [poller EXCEPT !.phase = "retrying", !.base = i, !.keep = b]
                /\ UNCHANGED <<loose, calls, repair, starts>>
             \/ /\ poller' = Declining(poller.claim)
                /\ UNCHANGED <<loose, calls, repair, starts>>
             \/ WaitOperationEnds(rest)
        BY <1>16 DEF MeetsPendingTerminal, HasThisClaim
    <2>3. OpenOf(Terminal, metadata) \subseteq Created
        BY <1>0 DEF OpenOf, Open
    <2> HIDE DEF rest
    <2>4. /\ poller' \in PollerRecord(Created) /\ loose' \subseteq Created
          /\ calls' \in [Slots -> Created \cup {0}] /\ repair' \in RepairRecord(Created)
          /\ starts' \in 0..MaxStarts
        <3>1. CASE \E i \in OpenOf(Terminal, metadata), b \in BOOLEAN :
                     poller' = [poller EXCEPT !.phase = "retrying", !.base = i, !.keep = b]
            <4>1. poller' \in PollerRecord(Created)
                <5>1. PICK i \in OpenOf(Terminal, metadata), b \in BOOLEAN :
                         poller' = [poller EXCEPT !.phase = "retrying", !.base = i, !.keep = b]
                    BY <3>1
                <5>2. i \in Created \cup {0}
                    BY <2>3
                <5> QED
                    BY <1>0, <5>1, <5>2, PollerFits
            <4> QED
                BY <1>0, <1>d, <2>1, <2>2, <4>1
        <3>2. CASE poller' = Declining(poller.claim)
            BY <1>0, <1>c, <1>d, <2>1, <2>2, <3>2
        <3> QED
            BY <1>d, <2>1, <2>2, <3>1, <3>2
    <2> QED
        BY <1>0, <1>a, <1>16, <2>1, <2>2, <2>4 DEF MeetsPendingTerminal
<1>17. CASE MissesMetadata
    BY <1>0, <1>a, <1>c, <1>17 DEF MissesMetadata
<1>18. ASSUME NEW i \in OpIds, NEW kind \in {"ack", "decline"}, NEW h \in Holders \cup {None},
              Begins(i, kind, poller.claim, h), poller.claim # 0,
              \/ poller' = [poller EXCEPT !.phase = "declining", !.op = i]
              \/ poller' = [poller EXCEPT !.phase = "acking", !.op = i],
              UNCHANGED <<storeVars, done, cloudVars, metadata, calls, running, repair, starts>>
       PROVE  Goal
    <2>1. poller.claim \in Claims /\ kind \in {"ack", "release", "renew", "decline"}
        BY <1>b, <1>18 DEF Claims
    <2>2. /\ Created' = Created \cup {i} /\ pending' = pending \cup {i}
          /\ ops' \in [OpIds -> Op \cup {NoOp}]
        BY <1>18, <2>1, BeginsFits
    <2>3. poller \in PollerRecord(Created') /\ repair \in RepairRecord(Created')
        BY <1>0, <2>2, Grows
    <2>4. /\ [poller EXCEPT !.phase = "declining", !.op = i] \in PollerRecord(Created')
          /\ [poller EXCEPT !.phase = "acking", !.op = i] \in PollerRecord(Created')
        <3>1. i \in Created' \cup {0}
            BY <2>2
        <3> QED
            BY <2>3, <3>1, PollerFits
    <2> QED
        BY <1>0, <1>18, <2>2, <2>3, <2>4
<1>19. CASE PollerDeclines
    BY <1>18, <1>19 DEF PollerDeclines, PollerOK
<1>20. CASE PollerRetriesAck
    <2>1. poller.base \in Created /\ poller.claim # 0
        BY <1>0, <1>20 DEF PollerRetriesAck, PollerOK, PollerRecord
    <2>2. ops[poller.base].holder \in Holders \cup {None}
        BY <2>1, CreatedOps DEF Op
    <2>3. CASE poller' = NotRetried /\ UNCHANGED <<ops, pending>>
        BY <1>0, <1>a, <1>c, <1>20, <2>3 DEF PollerRetriesAck
    <2> QED
        BY <1>18, <1>20, <2>1, <2>2, <2>3 DEF PollerRetriesAck
<1>21. CASE DeclineAccepted
    <2>1. poller.op \in Created
        BY <1>0, <1>21 DEF DeclineAccepted, PollerOK, PollerRecord
    <2> QED
        BY <1>0, <1>a, <1>c, <1>21, <2>1 DEF DeclineAccepted, Completes
<1>22. CASE RetriedAckAccepted
    <2>1. poller.op \in Created /\ poller.base \in Created
        BY <1>0, <1>22 DEF RetriedAckAccepted, PollerOK, PollerRecord
    <2>2. /\ done' \subseteq done \cup {poller.op, poller.base} /\ pending' \subseteq pending
          /\ poller' \in {Idle, Leased(poller.claim)}
        BY <1>22 DEF RetriedAckAccepted, Completes
    <2> QED
        BY <1>0, <1>a, <1>c, <1>22, <2>1, <2>2 DEF RetriedAckAccepted
<1>23. CASE PollerUncertain \/ PollerRefused
    <2>1. poller.op \in Created
        BY <1>0, <1>23 DEF PollerUncertain, PollerRefused, PollerRecord
    <2>2. poller' \in {Idle, Leased(poller.claim), Declining(poller.claim)}
        BY <1>23 DEF PollerUncertain, PollerRefused, NotRetried
    <2> QED
        BY <1>0, <1>a, <1>c, <1>23, <2>1, <2>2
        DEF PollerUncertain, PollerRefused, Abandons
<1>24. CASE RepairStarts
    <2>1. repair' \in RepairRecord(Created)
        BY <1>0, <1>24, IdleFits DEF RepairStarts
    <2> QED
        BY <1>0, <1>a, <1>24, <2>1, CloudAssumption DEF RepairStarts
<1>25. CASE RepairClaims
    <2>1. CASE UNCHANGED <<journalVars, cloudVars>>
        BY <1>0, <1>a, <1>25, <2>1, IdleFits DEF RepairClaims
    <2>2. ASSUME NEW h \in Holders, ReleaseAbandonedCloudClaim(h, {})
          PROVE  Goal
        BY <1>0, <1>4, <1>25, <2>2 DEF RepairClaims
    <2> QED
        BY <1>25, <2>1, <2>2 DEF RepairClaims
<1>26. ASSUME NEW i \in OpIds, NEW b \in BOOLEAN, RepairGoesOn(i, b)
       PROVE  repair' \in RepairRecord(Created)
    BY <1>0, <1>26 DEF RepairGoesOn, RepairRecord
<1>27. ASSUME NEW i \in OpIds, RepairCompletes(i) \/ RepairDropsRenew(i) \/ RepairIsBlocked(i)
       PROVE  Goal
    <2>1. i \in Created
        BY <1>0, <1>27 DEF RepairCompletes, RepairDropsRenew, RepairIsBlocked, RepairRecord
    <2> QED
        BY <1>0, <1>a, <1>26, <1>27, <2>1
        DEF RepairCompletes, RepairDropsRenew, RepairIsBlocked, RepairGoesOn, Completes, Abandons
<1>28. ASSUME NEW i \in OpIds, RepairReplays(i)
       PROVE  Goal
    <2>1. i \in Created /\ ops' = ops
        BY <1>0, <1>28 DEF RepairReplays, RepairGoesOn
    <2>2. /\ applied' \subseteq applied \cup {i} /\ loose' \subseteq loose \cup {i}
          /\ pending' \subseteq pending /\ done' \subseteq done \cup {i}
          /\ cloud' \in {cloud, CloudAfter(i)}
          /\ \E b \in BOOLEAN : RepairGoesOn(i, b)
        BY <1>28 DEF RepairReplays, Completes, Abandons
    <2>3. CloudAfter(i) \in [status : {"open", "leased", "acked"}, claim : 0..MaxClaims]
        BY <1>0 DEF CloudAfter
    <2> QED
        BY <1>0, <1>a, <1>26, <2>1, <2>2, <2>3 DEF RepairGoesOn
<1>29. ASSUME NEW i \in OpIds, RepairFails(i)
       PROVE  Goal
    BY <1>0, <1>a, <1>29, IdleFits DEF RepairFails
<1>30. CASE UNCHANGED ccVars
    BY <1>0, <1>a, <1>30 DEF ccVars
<1> HIDE DEF Goal
<1> QED
    BY <1>1, <1>2, <1>3, <1>5, <1>6, <1>7, <1>8, <1>9, <1>10, <1>11, <1>12, <1>13,
       <1>14, <1>15, <1>16, <1>17, <1>19, <1>20, <1>21, <1>22, <1>23, <1>24, <1>25,
       <1>27, <1>28, <1>29, <1>30, <1>i
    DEF CCNext, PollerNext, RepairNext

-----------------------------------------------------------------------------
(* What a step may do to each part of the state. *)

\* A request, the end of an abandoned claim or the poller begins an operation.
Asked(i) ==
    /\ ops'[i].kind \in {"ack", "release", "renew"}
    /\ metadata # 0 /\ ops'[i].claim = metadata /\ ClaimedBy(Msg, ops'[i].holder)
    /\ ops'[i].kind \in Terminal => OpenOf(Terminal, metadata) = {}
    /\ BusFree
    /\ UNCHANGED <<row, metadata, done, poller, repair>>

Released(i) ==
    /\ ops'[i].kind = "release"
    /\ metadata # 0 /\ ops'[i].claim = metadata /\ ClaimedBy(Msg, ops'[i].holder)
    /\ OpenOf(Terminal, metadata) = {}
    /\ ~repair'.on /\ done' \subseteq done \cup {i}
    /\ i \in pending' => row' = row
    /\ UNCHANGED <<metadata, poller>>

Declined(i) ==
    /\ ops'[i].kind = "decline" /\ ops'[i].claim = poller.claim /\ ops'[i].holder = None
    /\ poller.phase = "declines"
    /\ UNCHANGED <<row, metadata, done, repair>>

Retried(i) ==
    /\ ops'[i].kind = "ack" /\ ops'[i].claim = poller.claim
    /\ ops'[i].holder = ops[poller.base].holder
    /\ poller.phase = "retrying" /\ RetryUsable(poller.base)
    /\ OpenOf({"ack"}, poller.claim) = {}
    /\ UNCHANGED <<row, metadata, done, repair>>

\* An operation stays what it is; one at a time is new; no other gets pending.
JournalStep ==
    /\ \A i \in Created : i \in Created' /\ ops'[i] = ops[i]
    /\ \A i, j \in Created' \ Created : i = j
    /\ \A i \in Created' \ Created : Asked(i) \/ Released(i) \/ Declined(i) \/ Retried(i)
    /\ pending' \subseteq pending \cup (Created' \ Created)
    /\ done \subseteq done'

LEMMA PollerFacts ==
    ASSUME IInv
    PROVE  /\ poller \in PollerRecord(Created)
           /\ poller.claim \in 0..MaxClaims
           /\ poller.phase # "idle" => poller.claim \in Claims /\ poller.claim = cloud.claim
           /\ poller.op # 0 => poller.op \in Created
           /\ poller.phase \in {"retrying", "acking"} =>
                poller.base \in Created /\ ops[poller.base].kind = "ack"
<1>1. poller \in PollerRecord(Created)
    BY TypeParts DEF IInv, Typed
<1> QED
    BY <1>1 DEF PollerRecord, IInv, PollerOK, Claims

LEMMA ReleaseIsStep ==
    ASSUME IInv, NEW h \in Holders, NEW renews, ReleaseAbandonedCloudClaim(h, renews),
           ClaimedBy(Msg, h), metadata # 0 => OpenOf(Terminal, metadata) = {},
           ~repair'.on, UNCHANGED <<metadata, poller>>
    PROVE  JournalStep
<1>0. CCTypeOK
    BY DEF IInv
<1>1. CASE metadata = 0
    <2>1. ops' = ops /\ pending' \subseteq pending /\ done' = done
        BY <1>0, <1>1, ReleaseFits
    <2>2. Created' = Created
        BY <2>1 DEF Created
    <2> QED
        BY <2>1, <2>2 DEF JournalStep
<1>2. CASE metadata # 0
    <2>1. PICK i \in OpIds \ Created :
            /\ Created' = Created \cup {i}
            /\ \A j \in Created : ops'[j] = ops[j]
            /\ ops'[i] = [kind |-> "release", claim |-> metadata, holder |-> h]
            /\ pending' \subseteq pending \cup {i} /\ done \subseteq done'
            /\ done' \subseteq done \cup {i}
            /\ i \in pending' => UNCHANGED storeVars
        <3>1. pending \subseteq Created
            BY <1>0 DEF CCTypeOK
        <3> QED
            BY <1>0, <1>2, <3>1, ReleaseFits
    <2>2. Released(i)
        BY <1>2, <2>1 DEF Released, storeVars
    <2> QED
        BY <2>1, <2>2 DEF JournalStep
<1> QED
    BY <1>1, <1>2

LEMMA JournalSteps ==
    ASSUME IInv, [CCNext]_ccVars
    PROVE  JournalStep
<1> USE DEF journalVars, cloudVars, daemonVars
<1>0. CCTypeOK
    BY DEF IInv
<1>a. ASSUME ops' = ops, pending' \subseteq pending, done \subseteq done'
      PROVE  JournalStep
    <2>1. Created' = Created
        BY <1>a DEF Created
    <2> QED
        BY <1>a, <2>1 DEF JournalStep
<1>1. ASSUME NEW x \in Slots, NEW h \in Holders, NEW kind \in Kinds, Ask(x, h, kind)
      PROVE  JournalStep
    <2>1. PICK i \in OpIds : Begins(i, kind, metadata, h)
        BY <1>1 DEF Ask
    <2>2. /\ metadata \in Claims /\ kind \in {"ack", "release", "renew", "decline"}
          /\ h \in Holders \cup {None}
        BY <1>0, <1>1, CloudAssumption DEF Ask, Claims, CCTypeOK
    <2>3. /\ Created' = Created \cup {i} /\ pending' = pending \cup {i}
          /\ \A j \in Created : ops'[j] = ops[j]
          /\ ops'[i] = [kind |-> kind, claim |-> metadata, holder |-> h]
          /\ i \in Created => i \in Open
          /\ i \notin Created => OpenOf({kind}, metadata) = {}
        <3> HIDE DEF journalVars, cloudVars, daemonVars
        <3>1. /\ Created' = Created \cup {i} /\ pending' = pending \cup {i}
              /\ \A j \in Created : ops'[j] = ops[j]
            BY <1>0, <2>1, <2>2, BeginsFits
        <3>2. ops'[i] = [kind |-> kind, claim |-> metadata, holder |-> h]
            BY <1>0, <2>1, <2>2, BeginsFits
        <3> QED
            BY <1>0, <2>1, <2>2, <3>1, <3>2, BeginsFits
    <2>4. i \notin Created => Asked(i)
        <3>1. kind \in Terminal /\ OpenOf({kind}, metadata) = {} => OpenOf(Terminal, metadata) = {}
            BY <1>1 DEF Ask, Conflicting, OpenOf, Terminal
        <3> QED
            <4>1. /\ UNCHANGED <<row, metadata, done, poller, repair>>
                  /\ BusFree /\ metadata # 0 /\ ClaimedBy(Msg, h)
                BY <1>1 DEF Ask, storeVars
            <4>2. kind \in {"ack", "release", "renew"}
                BY CloudAssumption
            <4> QED
                BY <2>3, <3>1, <4>1, <4>2 DEF Asked
    <2> QED
        BY <1>1, <2>3, <2>4 DEF JournalStep, Ask, Open
<1>2. ASSUME NEW i \in OpIds, NEW kind \in {"ack", "decline"}, NEW h \in Holders \cup {None},
             Begins(i, kind, poller.claim, h), poller.claim # 0,
             i \notin Created => Declined(i) \/ Retried(i), UNCHANGED done
      PROVE  JournalStep
    <2>1. poller.claim \in Claims /\ kind \in {"ack", "release", "renew", "decline"}
        BY <1>2, PollerFacts DEF Claims
    <2>2. /\ Created' = Created \cup {i} /\ pending' = pending \cup {i}
          /\ \A j \in Created : ops'[j] = ops[j]
          /\ i \in Created => i \in Open
        BY <1>0, <1>2, <2>1, BeginsFits
    <2> QED
        BY <1>2, <2>2 DEF JournalStep, Open
<1>3. ASSUME PollerDeclines
      PROVE  JournalStep
    <2>1. PICK i \in OpIds : Begins(i, "decline", poller.claim, None)
        BY <1>3 DEF PollerDeclines
    <2>2. poller.claim # 0 /\ poller.claim \in Claims
        BY <1>3, PollerFacts DEF PollerDeclines, Claims
    <2>3. ops'[i] = [kind |-> "decline", claim |-> poller.claim, holder |-> None]
        BY <1>0, <2>1, <2>2, BeginsFits
    <2>4. Declined(i)
        BY <1>3, <2>3 DEF Declined, PollerDeclines, storeVars
    <2> QED
        BY <1>2, <1>3, <2>1, <2>2, <2>4 DEF PollerDeclines
<1>4. ASSUME PollerRetriesAck
      PROVE  JournalStep
    <2>1. CASE UNCHANGED <<ops, pending>>
        BY <1>4, <1>a, <2>1 DEF PollerRetriesAck
    <2>2. CASE RetryUsable(poller.base)
        <3>1. PICK i \in OpIds : Begins(i, "ack", poller.claim, ops[poller.base].holder)
            BY <1>4, <2>2 DEF PollerRetriesAck
        <3>a. poller.phase = "retrying"
            BY <1>4 DEF PollerRetriesAck
        <3>2. poller.claim # 0 /\ poller.claim \in Claims /\ poller.base \in Created
            BY <3>a, PollerFacts DEF Claims
        <3>3. ops[poller.base].holder \in Holders \cup {None}
            BY <1>0, <3>2, CreatedOps DEF Op
        <3>4. /\ ops'[i] = [kind |-> "ack", claim |-> poller.claim,
                            holder |-> ops[poller.base].holder]
              /\ i \notin Created => OpenOf({"ack"}, poller.claim) = {}
            BY <1>0, <3>1, <3>2, <3>3, BeginsFits
        <3>5. i \notin Created => Retried(i)
            <4>1. UNCHANGED <<row, metadata, done, repair>>
                BY <1>4 DEF PollerRetriesAck, storeVars
            <4> QED
                BY <2>2, <3>a, <3>4, <4>1 DEF Retried
        <3> QED
            BY <1>2, <1>4, <3>1, <3>2, <3>3, <3>5 DEF PollerRetriesAck
    <2> QED
        BY <1>4, <2>1, <2>2 DEF PollerRetriesAck
<1>5. ASSUME NEW s \in Sessions, SessionStops(s)
      PROVE  JournalStep
    <2>1. s \in Holders
        BY DEF Holders
    <2>2. ASSUME NEW renews, ReleaseAbandonedCloudClaim(s, renews), ClaimedBy(Msg, s),
                 metadata # 0 => OpenOf(Terminal, metadata) = {}
          PROVE  JournalStep
        BY <1>5, <2>1, <2>2, ReleaseIsStep DEF SessionStops, BusFree
    <2>3. OpenOf(Terminal, metadata) =
            {i \in OpenOf(Terminal \cup {"renew"}, metadata) : ops[i].kind \in Terminal}
        BY DEF OpenOf
    <2> QED
        BY <1>5, <1>a, <2>2, <2>3 DEF SessionStops, Abandons
<1>6. ASSUME RepairClaims
      PROVE  JournalStep
    <2>1. ASSUME NEW h \in Holders, ReleaseAbandonedCloudClaim(h, {}), ClaimedBy(Msg, h),
                 ~repair.blocked
          PROVE  JournalStep
        <3>1. metadata # 0 => OpenOf(Terminal, metadata) = {}
            BY <1>6, <2>1 DEF RepairClaims, IInv, RepairOK, OpenOf, ClaimedBy
        <3>2. ~repair'.on /\ UNCHANGED <<metadata, poller>>
            BY <1>6 DEF RepairClaims, NoRepair
        <3> QED
            BY <2>1, <3>1, <3>2, ReleaseIsStep
    <2> QED
        BY <1>6, <1>a, <2>1 DEF RepairClaims
<1>7. ASSUME NEW x \in Slots, LocalCompletion(x) \/ AnswerUncertain(x) \/ AnswerRefused(x)
      PROVE  JournalStep
    BY <1>7, <1>a DEF LocalCompletion, AnswerUncertain, AnswerRefused, Completes, Abandons
<1>8. ASSUME NEW h \in Holders, NEW i \in OpIds, RecoverLocallyCompleted(h, i)
      PROVE  JournalStep
    BY <1>8, <1>a DEF RecoverLocallyCompleted, Completes
<1>9. ASSUME NEW i \in OpIds,
             \/ CloudCarriesOut(i) \/ RepairCompletes(i) \/ RepairDropsRenew(i)
             \/ RepairReplays(i) \/ RepairIsBlocked(i) \/ RepairFails(i)
      PROVE  JournalStep
    BY <1>9, <1>a
    DEF CloudCarriesOut, RepairCompletes, RepairDropsRenew, RepairReplays, RepairIsBlocked,
        RepairFails, RepairGoesOn, Completes, Abandons
<1>10. ASSUME NEW h \in Holders, Receives(h)
       PROVE  JournalStep
    BY <1>10, <1>a DEF Receives
<1>11. ASSUME NEW s \in Sessions, SessionDies(s)
       PROVE  JournalStep
    BY <1>11, <1>a DEF SessionDies
<1>12. ASSUME CloudLeaseEnds \/ LeaseRunsOutHere \/ MetadataLost \/ Crash \/ RepairStarts
       PROVE  JournalStep
    BY <1>12, <1>a DEF CloudLeaseEnds, LeaseRunsOutHere, MetadataLost, Crash, RepairStarts
<1>13. ASSUME \/ PollerLeases \/ IngestsNew \/ IngestsAgain \/ IngestStops
              \/ DeclinesDuplicate \/ MeetsPendingTerminal \/ MissesMetadata
       PROVE  JournalStep
    BY <1>13, <1>a
    DEF PollerLeases, IngestsNew, IngestsAgain, IngestStops, DeclinesDuplicate,
        MeetsPendingTerminal, MissesMetadata
<1>14. ASSUME DeclineAccepted \/ RetriedAckAccepted \/ PollerUncertain \/ PollerRefused
       PROVE  JournalStep
    BY <1>14, <1>a
    DEF DeclineAccepted, RetriedAckAccepted, PollerUncertain, PollerRefused, Completes, Abandons
<1>15. CASE UNCHANGED ccVars
    BY <1>15, <1>a DEF ccVars
<1> QED
    BY <1>1, <1>3, <1>4, <1>5, <1>6, <1>7, <1>8, <1>9, <1>10, <1>11, <1>12, <1>13, <1>14, <1>15
    DEF CCNext, PollerNext, RepairNext

\* An ack is final in the cloud, and only the poller gets new claims.
CloudStep ==
    /\ cloud.status = "acked" => cloud' = cloud
    /\ \A i \in applied' \ applied : ops'[i].kind = "ack" => cloud'.status = "acked"
    /\ \/ cloud'.claim = cloud.claim /\ (cloud'.status = "leased" => cloud.status = "leased")
       \/ /\ cloud'.claim = cloud.claim + 1 /\ poller' = Leased(cloud'.claim)
          /\ poller.phase = "idle" /\ UNCHANGED <<ops, metadata>>

LEMMA CloudSteps ==
    ASSUME IInv, [CCNext]_ccVars
    PROVE  CloudStep
<1> USE DEF journalVars, cloudVars, daemonVars
<1>0. CCTypeOK
    BY DEF IInv
<1>a. ASSUME UNCHANGED <<cloud, applied>>
      PROVE  CloudStep
    BY <1>a DEF CloudStep
<1>b. ASSUME NEW i \in Created, cloud' = CloudAfter(i), cloud.status = "leased",
             applied' = applied \cup {i}, ops' = ops
      PROVE  CloudStep
    <2>1. cloud'.claim = cloud.claim /\ (ops[i].kind = "ack" => cloud'.status = "acked")
        BY <1>0, <1>b DEF CloudAfter, CCTypeOK
    <2> QED
        BY <1>b, <2>1 DEF CloudStep
<1>c. ASSUME NEW h \in Holders, NEW renews, ReleaseAbandonedCloudClaim(h, renews)
      PROVE  CloudStep
    <2>1. ASSUME metadata # 0, ~UNCHANGED <<cloud, applied>>
          PROVE  \E i \in OpIds \ Created :
                    /\ cloud.status = "leased" /\ cloud' = [cloud EXCEPT !.status = "open"]
                    /\ applied' = applied \cup {i} /\ ops'[i].kind = "release"
        <3>1. PICK i \in OpIds \ Created :
                /\ ops'[i] = [kind |-> "release", claim |-> metadata, holder |-> h]
                /\ \/ /\ cloud.status = "leased" /\ cloud' = [cloud EXCEPT !.status = "open"]
                      /\ applied' = applied \cup {i}
                   \/ UNCHANGED <<cloud, applied>>
            BY <1>0, <1>c, <2>1, ReleaseFits
        <3>2. ops'[i].kind = "release"
            BY <3>1
        <3> QED
            BY <2>1, <3>1, <3>2
    <2>a. CASE metadata = 0
        BY <1>0, <1>c, <2>a, <1>a, ReleaseFits
    <2>2. CASE metadata # 0 /\ ~UNCHANGED <<cloud, applied>>
        <3>1. PICK i \in OpIds \ Created :
                /\ cloud.status = "leased" /\ cloud' = [cloud EXCEPT !.status = "open"]
                /\ applied' = applied \cup {i} /\ ops'[i].kind = "release"
            BY <2>1, <2>2
        <3>2. cloud'.claim = cloud.claim /\ cloud'.status = "open"
            BY <1>0, <3>1 DEF CCTypeOK
        <3> QED
            BY <3>1, <3>2 DEF CloudStep
    <2> QED
        BY <2>2, <2>a, <1>a
<1>1. ASSUME NEW i \in OpIds, CloudCarriesOut(i)
      PROVE  CloudStep
    <2>1. i \in Created
        BY <1>0, <1>1, PollerFacts DEF CloudCarriesOut, Called, CCTypeOK
    <2> QED
        BY <1>1, <1>b, <2>1 DEF CloudCarriesOut, Grants
<1>2. ASSUME NEW i \in OpIds, RepairReplays(i)
      PROVE  CloudStep
    <2>1. i \in Created
        BY <1>0, <1>2 DEF RepairReplays, CCTypeOK
    <2>2. CASE UNCHANGED <<cloud, applied>>
        BY <1>a, <2>2
    <2>3. CASE i \in applied /\ cloud' = cloud /\ applied' = applied \cup {i}
        BY <1>a, <2>3
    <2>4. CASE Grants(i) /\ cloud' = CloudAfter(i) /\ applied' = applied \cup {i}
        BY <1>2, <1>b, <2>1, <2>4 DEF RepairReplays, RepairGoesOn, Grants
    <2> QED
        BY <1>2, <2>2, <2>3, <2>4 DEF RepairReplays
<1>3. ASSUME NEW s \in Sessions, SessionStops(s)
      PROVE  CloudStep
    BY <1>3, <1>a, <1>c DEF SessionStops, Holders
<1>4. ASSUME RepairClaims
      PROVE  CloudStep
    BY <1>4, <1>a, <1>c DEF RepairClaims
<1>5. ASSUME PollerLeases
      PROVE  CloudStep
    <2>1. cloud.status = "open" /\ cloud' = [status |-> "leased", claim |-> cloud.claim + 1]
        BY <1>5 DEF PollerLeases
    <2>2. cloud'.claim = cloud.claim + 1 /\ poller' = Leased(cloud'.claim)
        BY <1>5, <2>1 DEF PollerLeases
    <2> QED
        BY <1>5, <2>1, <2>2, IdleFits DEF PollerLeases, CloudStep
<1>6. ASSUME CloudLeaseEnds
      PROVE  CloudStep
    <2>1. cloud'.claim = cloud.claim /\ cloud'.status = "open"
        BY <1>0, <1>6 DEF CloudLeaseEnds, CCTypeOK
    <2> QED
        BY <1>6, <2>1 DEF CloudLeaseEnds, CloudStep
<1>7. ASSUME NEW x \in Slots, \/ LocalCompletion(x) \/ AnswerUncertain(x) \/ AnswerRefused(x)
                              \/ \E h \in Holders, kind \in Kinds : Ask(x, h, kind)
      PROVE  CloudStep
    BY <1>7, <1>a DEF LocalCompletion, AnswerUncertain, AnswerRefused, Ask
<1>8. ASSUME NEW h \in Holders, Receives(h) \/ \E i \in OpIds : RecoverLocallyCompleted(h, i)
      PROVE  CloudStep
    BY <1>8, <1>a DEF RecoverLocallyCompleted, Receives
<1>9. ASSUME NEW i \in OpIds,
             RepairCompletes(i) \/ RepairDropsRenew(i) \/ RepairIsBlocked(i) \/ RepairFails(i)
      PROVE  CloudStep
    BY <1>9, <1>a DEF RepairCompletes, RepairDropsRenew, RepairIsBlocked, RepairFails
<1>10. ASSUME NEW s \in Sessions, SessionDies(s)
       PROVE  CloudStep
    BY <1>10, <1>a DEF SessionDies
<1>11. ASSUME LeaseRunsOutHere \/ MetadataLost \/ Crash \/ RepairStarts
       PROVE  CloudStep
    BY <1>11, <1>a DEF LeaseRunsOutHere, MetadataLost, Crash, RepairStarts
<1>12. ASSUME \/ IngestsNew \/ IngestsAgain \/ IngestStops \/ DeclinesDuplicate
              \/ MeetsPendingTerminal \/ MissesMetadata
       PROVE  CloudStep
    BY <1>12, <1>a
    DEF IngestsNew, IngestsAgain, IngestStops, DeclinesDuplicate, MeetsPendingTerminal,
        MissesMetadata
<1>13. ASSUME \/ PollerDeclines \/ PollerRetriesAck \/ DeclineAccepted
              \/ RetriedAckAccepted \/ PollerUncertain \/ PollerRefused
       PROVE  CloudStep
    BY <1>13, <1>a
    DEF PollerDeclines, PollerRetriesAck, DeclineAccepted, RetriedAckAccepted, PollerUncertain,
        PollerRefused
<1>14. CASE UNCHANGED ccVars
    BY <1>14, <1>a DEF ccVars
<1> QED
    BY <1>1, <1>2, <1>3, <1>4, <1>5, <1>6, <1>7, <1>8, <1>9, <1>10, <1>11, <1>12, <1>13, <1>14
    DEF CCNext, PollerNext, RepairNext

\* The message is offered under the poller's claim when nothing would end its own.
MetadataStep ==
    \/ metadata' = metadata
    \/ metadata' = 0 /\ UNCHANGED <<row, ops, pending, done, cloud, poller, repair>>
    \/ /\ metadata' = poller.claim /\ poller.phase = "leased" /\ BusFree
       /\ UNCHANGED <<ops, done, cloud>> /\ pending' \subseteq pending
       /\ \/ row[Msg].state = "absent"
          \/ /\ metadata # 0 /\ OpenOf(Terminal, metadata) = {}
             /\ \A i \in Open' : ops[i].kind = "renew" => ops[i].claim # metadata

LEMMA MetadataSteps ==
    ASSUME IInv, [CCNext]_ccVars
    PROVE  MetadataStep
<1> USE DEF journalVars, cloudVars, daemonVars
<1>a. ASSUME metadata' = metadata
      PROVE  MetadataStep
    BY <1>a DEF MetadataStep
<1>1. ASSUME MetadataLost
      PROVE  MetadataStep
    BY <1>1 DEF MetadataLost, MetadataStep, storeVars
<1>2. ASSUME IngestsNew
      PROVE  MetadataStep
    BY <1>2 DEF IngestsNew, Ingesting, MetadataStep
<1>3. ASSUME IngestsAgain
      PROVE  MetadataStep
    <2>1. \A i \in Open' : ops[i].kind = "renew" => ops[i].claim # metadata
        BY <1>3 DEF IngestsAgain, Open, OpenOf
    <2> QED
        BY <1>3, <2>1 DEF IngestsAgain, Ingesting, MetadataStep
<1>i. ASSUME IngestStops
       PROVE  MetadataStep
    <2>1. \A i \in Open' : ops[i].kind = "renew" => ops[i].claim # metadata
        BY <1>i DEF IngestStops, Open, OpenOf
    <2> QED
        BY <1>i, <1>a, <2>1 DEF IngestStops, Ingesting, MetadataStep
<1>4. ASSUME NEW s \in Sessions, SessionStops(s) \/ SessionDies(s)
      PROVE  MetadataStep
    BY <1>4, <1>a DEF SessionStops, SessionDies
<1>5. ASSUME NEW x \in Slots, \/ LocalCompletion(x) \/ AnswerUncertain(x) \/ AnswerRefused(x)
                              \/ \E h \in Holders, kind \in Kinds : Ask(x, h, kind)
      PROVE  MetadataStep
    BY <1>5, <1>a DEF LocalCompletion, AnswerUncertain, AnswerRefused, Ask
<1>6. ASSUME NEW h \in Holders, Receives(h) \/ \E i \in OpIds : RecoverLocallyCompleted(h, i)
      PROVE  MetadataStep
    BY <1>6, <1>a DEF RecoverLocallyCompleted, Receives
<1>7. ASSUME NEW i \in OpIds,
             \/ CloudCarriesOut(i) \/ RepairCompletes(i) \/ RepairDropsRenew(i)
             \/ RepairReplays(i) \/ RepairIsBlocked(i) \/ RepairFails(i)
      PROVE  MetadataStep
    BY <1>7, <1>a
    DEF CloudCarriesOut, RepairCompletes, RepairDropsRenew, RepairReplays, RepairIsBlocked,
        RepairFails, RepairGoesOn
<1>8. ASSUME CloudLeaseEnds \/ LeaseRunsOutHere \/ Crash \/ RepairStarts \/ RepairClaims
      PROVE  MetadataStep
    BY <1>8, <1>a DEF CloudLeaseEnds, LeaseRunsOutHere, Crash, RepairStarts, RepairClaims
<1>9. ASSUME \/ PollerLeases \/ DeclinesDuplicate \/ MeetsPendingTerminal \/ MissesMetadata
      PROVE  MetadataStep
    BY <1>9, <1>a DEF PollerLeases, DeclinesDuplicate, MeetsPendingTerminal, MissesMetadata
<1>10. ASSUME \/ PollerDeclines \/ PollerRetriesAck \/ DeclineAccepted
              \/ RetriedAckAccepted \/ PollerUncertain \/ PollerRefused
       PROVE  MetadataStep
    BY <1>10, <1>a
    DEF PollerDeclines, PollerRetriesAck, DeclineAccepted, RetriedAckAccepted, PollerUncertain,
        PollerRefused
<1>11. CASE UNCHANGED ccVars
    BY <1>11, <1>a DEF ccVars
<1> QED
    BY <1>1, <1>2, <1>3, <1>4, <1>5, <1>6, <1>7, <1>8, <1>9, <1>10, <1>11, <1>i
    DEF CCNext, PollerNext, RepairNext

\* What the transactions of the store make of the row.
SameRow == row'[Msg].state = row[Msg].state /\ row'[Msg].holder = row[Msg].holder
BecomesOpen == row'[Msg].state \in {"unclaimed", "released", "acked"} /\ row'[Msg].holder = None

LEMMA RowAfter ==
    ASSUME CCTypeOK
    PROVE  /\ UNCHANGED storeVars => SameRow
           /\ LeaseRunsOut(Msg) => SameRow
           /\ \A h, l : RenewCloudMessage(Msg, h, l) => ClaimedBy(Msg, h) /\ SameRow
           /\ \A h : FinishCloudClaimedMessage(Msg, h, "acked") =>
                       /\ ClaimedBy(Msg, h)
                       /\ row'[Msg].state = "acked" /\ row'[Msg].holder = h
           /\ \A h : FinishCloudClaimedMessage(Msg, h, "released") =>
                       ClaimedBy(Msg, h) /\ BecomesOpen
           /\ \A h : RequeueCloudMessageLocally(Msg, h) => ClaimedBy(Msg, h) /\ BecomesOpen
           /\ QuarantineCloudMessage(Msg) =>
                row[Msg].state \in {"unclaimed", "claimed"} /\ BecomesOpen
           /\ \A h : ClaimMessage(Msg, h) =>
                       row[Msg].state = "unclaimed" /\ row'[Msg].state = "claimed"
           /\ \A l : InsertCloudNotificationMessage(Msg, l) =>
                       row[Msg].state = "absent" /\ row'[Msg].state = "unclaimed"
           /\ \A l : RefreshCloudNotificationLease(Msg, l, row[Msg].state = "claimed") =>
                       \/ row[Msg].state \in {"unclaimed", "released", "claimed"} /\ BecomesOpen
                       \/ row[Msg].state = "acked" /\ SameRow
<1>1. row \in [Messages -> Row] /\ Msg \in Messages
    BY OneMessage DEF CCTypeOK, TypeOK
<1>2. /\ Cleared("released").state = "released" /\ Cleared("released").holder = None
      /\ Cleared("acked").state = "acked" /\ Cleared("acked").holder = None
    BY DEF Cleared
<1>3. \A l : Offered(l).state = "unclaimed" /\ Offered(l).holder = None
    BY DEF Offered
<1>4. ASSUME NEW r, SetRow(Msg, r)
      PROVE  row'[Msg] = r
    BY <1>4, SetsOne
<1>5. ASSUME NEW h, NEW l, RenewCloudMessage(Msg, h, l)
      PROVE  ClaimedBy(Msg, h) /\ SameRow
    BY <1>1, <1>4, <1>5 DEF RenewCloudMessage, SameRow, Row
<1>6. ASSUME NEW h, FinishCloudClaimedMessage(Msg, h, "acked")
      PROVE  ClaimedBy(Msg, h) /\ row'[Msg].state = "acked" /\ row'[Msg].holder = h
    BY <1>1, <1>4, <1>6 DEF FinishCloudClaimedMessage, Row, ClaimedBy
<1>7. ASSUME NEW h, FinishCloudClaimedMessage(Msg, h, "released")
      PROVE  ClaimedBy(Msg, h) /\ BecomesOpen
    BY <1>2, <1>4, <1>7 DEF FinishCloudClaimedMessage, BecomesOpen
<1>8. ASSUME NEW h, RequeueCloudMessageLocally(Msg, h)
      PROVE  ClaimedBy(Msg, h) /\ BecomesOpen
    BY <1>3, <1>4, <1>8 DEF RequeueCloudMessageLocally, BecomesOpen
<1>9. ASSUME QuarantineCloudMessage(Msg)
      PROVE  row[Msg].state \in {"unclaimed", "claimed"} /\ BecomesOpen
    BY <1>2, <1>4, <1>9 DEF QuarantineCloudMessage, BecomesOpen
<1>10. ASSUME NEW h, ClaimMessage(Msg, h)
       PROVE  row[Msg].state = "unclaimed" /\ row'[Msg].state = "claimed"
    BY <1>4, <1>10, OneMessage DEF ClaimMessage
<1>11. ASSUME NEW l, InsertCloudNotificationMessage(Msg, l)
       PROVE  row[Msg].state = "absent" /\ row'[Msg].state = "unclaimed"
    BY <1>3, <1>4, <1>11 DEF InsertCloudNotificationMessage
<1>12. ASSUME NEW l, RefreshCloudNotificationLease(Msg, l, row[Msg].state = "claimed")
       PROVE  \/ row[Msg].state \in {"unclaimed", "released", "claimed"} /\ BecomesOpen
              \/ row[Msg].state = "acked" /\ SameRow
    <2>1. ASSUME ApplyCloudRedeliveryGuard(Msg, l)
          PROVE  BecomesOpen
        BY <1>1, <1>2, <1>3, <2>1 DEF ApplyCloudRedeliveryGuard, BecomesOpen
    <2>2. ASSUME SetRow(Msg, Offered(l))
          PROVE  BecomesOpen
        BY <1>3, <1>4, <2>2 DEF BecomesOpen
    <2> QED
        BY <1>12, <2>1, <2>2 DEF RefreshCloudNotificationLease, SameRow, storeVars
<1>13. LeaseRunsOut(Msg) => SameRow
    BY <1>1, <1>4 DEF LeaseRunsOut, SameRow, Row
<1> QED
    BY <1>5, <1>6, <1>7, <1>8, <1>9, <1>10, <1>11, <1>12, <1>13 DEF SameRow, storeVars

LEMMA SettlesRow ==
    ASSUME CCTypeOK, NEW i, Settles(i)
    PROVE  /\ ops[i].kind = "ack" => row'[Msg].state = "acked"
           /\ \/ SameRow
              \/ /\ ops[i].kind = "ack" /\ ClaimedBy(Msg, ops[i].holder)
                 /\ row'[Msg].state = "acked" /\ row'[Msg].holder = ops[i].holder
              \/ ops[i].kind # "ack" /\ ClaimedBy(Msg, ops[i].holder) /\ BecomesOpen
<1>1. CASE ops[i].kind = "renew"
    BY <1>1, RowAfter DEF Settles
<1>2. CASE ops[i].kind = "ack"
    BY <1>2, RowAfter DEF Settles, SameRow, storeVars
<1>3. CASE ops[i].kind \notin {"renew", "ack"}
    BY <1>3, RowAfter DEF Settles
<1> QED
    BY <1>1, <1>2, <1>3

LEMMA ClearsRow ==
    ASSUME CCTypeOK, NEW h, ClearsAbandoned(h)
    PROVE  ClaimedBy(Msg, h) /\ BecomesOpen
BY RowAfter DEF ClearsAbandoned

\* An ack gets into the done archive when it has reached the store and the cloud:
\* one that is pending or to be repaired, or the poller's own retry of one.
RetryDone(i) ==
    /\ poller.phase = "acking" /\ i = poller.op
    /\ poller.base \in pending \cup done /\ metadata = ops[poller.base].claim

DoneStep ==
    \A i \in (done' \ done) \cap Created :
        ops[i].kind = "ack" =>
            /\ row'[Msg].state = "acked" /\ cloud'.status = "acked"
            /\ i \in Open \cup repair.todo \/ RetryDone(i)

\* The cloud knows of an ack that the store shows.
LEMMA ReflectedAgreed ==
    ASSUME IInv, NEW i \in Created, ops[i].kind = "ack", Reflected(i)
    PROVE  row[Msg].state = "acked" /\ cloud.status = "acked"
BY DEF IInv, OpsOK, Reflected, AckAgreed

LEMMA DoneSteps ==
    ASSUME IInv, [CCNext]_ccVars
    PROVE  DoneStep
<1> USE DEF journalVars, cloudVars, daemonVars
<1>0. CCTypeOK
    BY DEF IInv
<1>a. ASSUME done' \cap Created \subseteq done
      PROVE  DoneStep
    BY <1>a DEF DoneStep
<1>b. pending \subseteq Created /\ done \subseteq Created /\ repair.todo \subseteq Created
    BY <1>0 DEF CCTypeOK
<1>1. ASSUME NEW h \in Holders, NEW i \in OpIds, RecoverLocallyCompleted(h, i)
      PROVE  DoneStep
    <2>1. /\ done' = done \cup {i} /\ i \in Open /\ i \in Created /\ Reflected(i)
          /\ row' = row /\ cloud' = cloud
        BY <1>1, <1>b DEF RecoverLocallyCompleted, Completes, OpenOf, Open, storeVars
    <2> QED
        BY <2>1, ReflectedAgreed DEF DoneStep
<1>2. ASSUME NEW x \in Slots, LocalCompletion(x)
      PROVE  DoneStep
    <2>1. CASE done' = done
        BY <1>a, <2>1
    <2>2. CASE done' # done
        <3> DEFINE i == calls[x]
        <3>1. /\ i \in pending /\ i \in applied /\ Settles(i) /\ done' = done \cup {i}
              /\ cloud' = cloud
            BY <1>2, <2>2 DEF LocalCompletion, Completes
        <3>2. ops[i].kind = "ack" => row'[Msg].state = "acked" /\ cloud'.status = "acked"
            BY <1>0, <3>1, SettlesRow DEF IInv, AppliedOK
        <3> QED
            BY <3>1, <3>2 DEF DoneStep, Open
    <2> QED
        BY <2>1, <2>2
<1>3. ASSUME NEW h \in Holders, NEW renews, ReleaseAbandonedCloudClaim(h, renews)
      PROVE  DoneStep
    <2>1. \/ done' = done
          \/ \E i \in OpIds \ Created : done' \subseteq done \cup {i}
        <3>1. CASE metadata = 0
            BY <1>0, <1>3, <3>1, ReleaseFits
        <3>2. CASE metadata # 0
            <4>1. PICK i \in OpIds \ Created : done' = done \cup {i} \/ done' = done
                BY <1>0, <1>3, <3>2, ReleaseFits
            <4> QED
                BY <4>1
        <3> QED
            BY <3>1, <3>2
    <2> QED
        BY <1>a, <2>1
<1>4. ASSUME NEW s \in Sessions, SessionStops(s)
      PROVE  DoneStep
    BY <1>4, <1>a, <1>3 DEF SessionStops, Abandons, Holders
<1>5. ASSUME RepairClaims
      PROVE  DoneStep
    BY <1>5, <1>a, <1>3 DEF RepairClaims
<1>6. ASSUME NEW i \in OpIds, RepairCompletes(i)
      PROVE  DoneStep
    <2>1. /\ done' = done \cup {i} /\ i \in repair.todo /\ i \in Created
          /\ i \in done \/ Reflected(i)
          /\ row' = row /\ cloud' = cloud
        BY <1>6, <1>b DEF RepairCompletes, Completes, storeVars
    <2> QED
        BY <2>1, ReflectedAgreed DEF DoneStep
<1>7. ASSUME NEW i \in OpIds, RepairReplays(i)
      PROVE  DoneStep
    <2>1. CASE done' = done
        BY <1>a, <2>1
    <2>2. CASE done' # done
        <3>1. /\ i \in repair.todo /\ i \in Created /\ done' = done \cup {i}
              /\ (i \in applied /\ cloud' = cloud) \/ cloud' = CloudAfter(i)
              /\ ops[i].kind = "decline" \/ Settles(i)
            BY <1>7, <1>b, <2>2 DEF RepairReplays, Completes, Abandons
        <3>2. ops[i].kind = "ack" => row'[Msg].state = "acked"
            BY <1>0, <3>1, SettlesRow
        <3>3. ops[i].kind = "ack" => cloud'.status = "acked"
            BY <1>0, <3>1 DEF IInv, AppliedOK, CloudAfter, CCTypeOK
        <3> QED
            BY <3>1, <3>2, <3>3 DEF DoneStep
    <2> QED
        BY <2>1, <2>2
<1>8. ASSUME DeclineAccepted
      PROVE  DoneStep
    <2>1. done' = done \cup {poller.op} /\ poller.phase = "declining"
        BY <1>8 DEF DeclineAccepted, Completes
    <2>2. ops[poller.op].kind = "decline"
        BY <2>1 DEF IInv, PollerOK
    <2> QED
        BY <2>1, <2>2 DEF DoneStep
<1>9. ASSUME RetriedAckAccepted
      PROVE  DoneStep
    <2>1. CASE done' = done
        BY <1>a, <2>1
    <2>2. CASE done' # done
        <3>1. /\ poller.phase = "acking" /\ poller.op \in applied /\ cloud' = cloud
              /\ metadata = ops[poller.base].claim /\ poller.base \in pending \cup done
              /\ \/ Reflected(poller.base) /\ row' = row
                 \/ FinishCloudClaimedMessage(Msg, ops[poller.base].holder, "acked")
              /\ \/ poller.base \in pending /\ done' = done \cup {poller.base, poller.op}
                 \/ done' = done \cup {poller.op}
            BY <1>9, <2>2 DEF RetriedAckAccepted, Completes, storeVars
        <3>2. /\ ops[poller.base].kind = "ack" /\ poller.base \in Created
              /\ ops[poller.op].kind = "ack" /\ poller.op \in Created
            BY <1>0, <3>1, PollerFacts DEF IInv, PollerOK
        <3>3. row'[Msg].state = "acked"
            BY <1>0, <3>1, <3>2, RowAfter, ReflectedAgreed
        <3>4. cloud'.status = "acked"
            BY <3>1, <3>2 DEF IInv, AppliedOK
        <3>5. RetryDone(poller.op)
            BY <3>1 DEF RetryDone
        <3> QED
            BY <3>1, <3>3, <3>4, <3>5 DEF DoneStep, Open
    <2> QED
        BY <2>1, <2>2
<1>10. ASSUME NEW i \in OpIds,
              CloudCarriesOut(i) \/ RepairDropsRenew(i) \/ RepairIsBlocked(i) \/ RepairFails(i)
       PROVE  DoneStep
    BY <1>10, <1>a
    DEF CloudCarriesOut, RepairDropsRenew, RepairIsBlocked, RepairFails, Abandons
<1>11. ASSUME NEW x \in Slots, \/ AnswerUncertain(x) \/ AnswerRefused(x)
                               \/ \E h \in Holders, kind \in Kinds : Ask(x, h, kind)
       PROVE  DoneStep
    BY <1>11, <1>a DEF AnswerUncertain, AnswerRefused, Ask, Abandons
<1>12. ASSUME NEW h \in Holders, Receives(h)
       PROVE  DoneStep
    BY <1>12, <1>a DEF Receives
<1>13. ASSUME NEW s \in Sessions, SessionDies(s)
       PROVE  DoneStep
    BY <1>13, <1>a DEF SessionDies
<1>14. ASSUME CloudLeaseEnds \/ LeaseRunsOutHere \/ MetadataLost \/ Crash \/ RepairStarts
       PROVE  DoneStep
    BY <1>14, <1>a DEF CloudLeaseEnds, LeaseRunsOutHere, MetadataLost, Crash, RepairStarts
<1>15. ASSUME \/ PollerLeases \/ IngestsNew \/ IngestsAgain \/ IngestStops
              \/ DeclinesDuplicate \/ MeetsPendingTerminal \/ MissesMetadata
       PROVE  DoneStep
    BY <1>15, <1>a
    DEF PollerLeases, IngestsNew, IngestsAgain, IngestStops, DeclinesDuplicate,
        MeetsPendingTerminal, MissesMetadata
<1>16. ASSUME PollerDeclines \/ PollerRetriesAck \/ PollerUncertain \/ PollerRefused
       PROVE  DoneStep
    BY <1>16, <1>a DEF PollerDeclines, PollerRetriesAck, PollerUncertain, PollerRefused, Abandons
<1>17. CASE UNCHANGED ccVars
    BY <1>17, <1>a DEF ccVars
<1> QED
    BY <1>1, <1>2, <1>4, <1>5, <1>6, <1>7, <1>8, <1>9, <1>10, <1>11, <1>12, <1>13, <1>14,
       <1>15, <1>16, <1>17
    DEF CCNext, PollerNext, RepairNext

\* A call is made for an operation that is not done; what is done is not pending
\* any more, unless the daemon dies in between.
CallStep ==
    /\ \A i \in Called' \ Called : i = 0 \/ i \notin done'
    /\ \A i \in done' \ done : i \notin pending' \/ Called' \subseteq {0}

LEMMA CalledKept ==
    ASSUME CCTypeOK
    PROVE  /\ UNCHANGED <<calls, poller>> => Called' = Called
           /\ UNCHANGED poller =>
                \A x \in Slots : \A i :
                    calls' = [calls EXCEPT ![x] = i] => Called' \subseteq Called \cup {i}
           /\ UNCHANGED calls =>
                \A i : poller'.op = i => Called' \subseteq Called \cup {i}
           /\ \A pend : Dies(pend) => Called' \subseteq {0}
<1>1. ASSUME UNCHANGED poller, NEW x \in Slots, NEW i, calls' = [calls EXCEPT ![x] = i]
      PROVE  Called' \subseteq Called \cup {i}
    BY <1>1 DEF Called, CCTypeOK
<1>2. ASSUME NEW pend, Dies(pend)
      PROVE  Called' \subseteq {0}
    <2>1. poller'.op = 0
        BY <1>2, IdleFits, LeasedFits DEF Dies, CCTypeOK
    <2> QED
        BY <1>2, <2>1 DEF Dies, Called, NoCalls
<1> QED
    BY <1>1, <1>2 DEF Called

\* An operation that begins is not done.
LEMMA BegunOpen ==
    ASSUME CCTypeOK, NEW i \in OpIds, NEW kind, NEW c, NEW h, Begins(i, kind, c, h)
    PROVE  i \notin done
BY DEF Begins, CCTypeOK, OpenOf, Open

LEMMA PollerIdles ==
    ASSUME CCTypeOK, poller' \in {Idle, Leased(poller.claim), Declining(poller.claim)}
    PROVE  poller'.op = 0
<1>1. poller.claim \in 0..MaxClaims
    BY DEF CCTypeOK
<1>2. Idle.op = 0 /\ Leased(poller.claim).op = 0 /\ Declining(poller.claim).op = 0
    BY <1>1, IdleFits, LeasedFits
<1> QED
    BY <1>2

LEMMA CallSteps ==
    ASSUME IInv, [CCNext]_ccVars
    PROVE  CallStep
<1> USE DEF journalVars, cloudVars, daemonVars
<1>0. CCTypeOK
    BY DEF IInv
<1>a. ASSUME Called' \subseteq Called \cup {0}, done' = done
      PROVE  CallStep
    BY <1>a DEF CallStep
<1>b. ASSUME Called' \subseteq Called \cup {0}, NEW S, Completes(S)
      PROVE  CallStep
    BY <1>b DEF CallStep, Completes
<1>c. ASSUME NEW pend, WaitOperationEnds(pend)
      PROVE  Called' \subseteq Called \cup {0}
    BY <1>0, <1>c, CalledKept, IdleFits DEF WaitOperationEnds
<1>1. ASSUME NEW x \in Slots, NEW h \in Holders, NEW kind \in Kinds, Ask(x, h, kind)
      PROVE  CallStep
    <2>1. PICK i \in OpIds : Begins(i, kind, metadata, h) /\ calls' = [calls EXCEPT ![x] = i]
        BY <1>1 DEF Ask
    <2>2. i \notin done /\ done' = done /\ Called' \subseteq Called \cup {i}
        BY <1>0, <1>1, <2>1, BegunOpen, CalledKept DEF Ask
    <2> QED
        BY <2>2 DEF CallStep
<1>2. ASSUME NEW x \in Slots, LocalCompletion(x)
      PROVE  CallStep
    <2>1. CASE ~Dies(pending)
        <3>a. calls' = [calls EXCEPT ![x] = 0] /\ UNCHANGED poller
            BY <1>2, <2>1 DEF LocalCompletion
        <3>1. Called' \subseteq Called \cup {0}
            BY <1>0, <3>a, CalledKept
        <3>2. done' = done \/ Completes({calls[x]})
            BY <1>2, <2>1 DEF LocalCompletion
        <3> QED
            BY <3>1, <3>2, <1>a, <1>b
    <2>2. CASE Dies(pending)
        BY <1>0, <2>2, CalledKept DEF CallStep
    <2> QED
        BY <1>2, <2>1, <2>2 DEF LocalCompletion
<1>3. ASSUME NEW x \in Slots, AnswerUncertain(x) \/ AnswerRefused(x)
      PROVE  CallStep
    BY <1>0, <1>3, <1>a, CalledKept DEF AnswerUncertain, AnswerRefused, Abandons
<1>4. ASSUME NEW h \in Holders, NEW renews, ReleaseAbandonedCloudClaim(h, renews),
             UNCHANGED <<calls, poller>>
      PROVE  CallStep
    <2>1. Called' = Called
        BY <1>0, <1>4, CalledKept
    <2>2. \A i \in done' \ done : i \notin pending'
        <3>1. CASE metadata = 0
            BY <1>0, <1>4, <3>1, ReleaseFits
        <3>2. CASE metadata # 0
            <4>1. PICK i \in OpIds \ Created :
                    \/ done' = done \cup {i} /\ pending' = pending \ renews
                    \/ done' = done
                BY <1>0, <1>4, <3>2, ReleaseFits
            <4> QED
                BY <1>0, <4>1 DEF CCTypeOK
        <3> QED
            BY <3>1, <3>2
    <2> QED
        BY <2>1, <2>2 DEF CallStep
<1>5. ASSUME NEW s \in Sessions, SessionStops(s)
      PROVE  CallStep
    <2>1. CASE done' = done
        BY <1>0, <1>5, <1>a, <2>1, CalledKept DEF SessionStops
    <2>2. ASSUME NEW renews, ReleaseAbandonedCloudClaim(s, renews)
          PROVE  CallStep
        BY <1>5, <1>4, <2>2 DEF SessionStops, Holders
    <2> QED
        BY <1>5, <2>1, <2>2 DEF SessionStops, Abandons
<1>6. ASSUME RepairClaims
      PROVE  CallStep
    BY <1>0, <1>6, <1>a, <1>4, CalledKept DEF RepairClaims
<1>7. ASSUME NEW h \in Holders, Receives(h) \/ \E i \in OpIds : RecoverLocallyCompleted(h, i)
      PROVE  CallStep
    <2>1. Called' = Called
        BY <1>0, <1>7, CalledKept DEF Receives, RecoverLocallyCompleted
    <2> QED
        BY <1>7, <1>a, <1>b, <2>1 DEF Receives, RecoverLocallyCompleted
<1>8. ASSUME NEW i \in OpIds,
             \/ CloudCarriesOut(i) \/ RepairCompletes(i) \/ RepairDropsRenew(i)
             \/ RepairReplays(i) \/ RepairIsBlocked(i) \/ RepairFails(i)
      PROVE  CallStep
    <2>1. Called' = Called
        BY <1>0, <1>8, CalledKept
        DEF CloudCarriesOut, RepairCompletes, RepairDropsRenew, RepairReplays, RepairIsBlocked,
            RepairFails, RepairGoesOn
    <2>2. done' = done \/ Completes({i})
        BY <1>8
        DEF CloudCarriesOut, RepairCompletes, RepairDropsRenew, RepairReplays, RepairIsBlocked,
            RepairFails, Abandons
    <2> QED
        BY <1>a, <1>b, <2>1, <2>2
<1>9. ASSUME \/ \E s \in Sessions : SessionDies(s)
             \/ CloudLeaseEnds \/ LeaseRunsOutHere \/ MetadataLost \/ RepairStarts
      PROVE  CallStep
    <2>1. Called' = Called /\ done' = done
        BY <1>0, <1>9, CalledKept
        DEF SessionDies, CloudLeaseEnds, LeaseRunsOutHere, MetadataLost, RepairStarts
    <2> QED
        BY <1>a, <2>1
<1>10. ASSUME Crash
       PROVE  CallStep
    BY <1>0, <1>10, <1>a, CalledKept DEF Crash
<1>11. ASSUME PollerLeases
       PROVE  CallStep
    <2>1. cloud.claim + 1 \in 0..MaxClaims
        BY <1>0, <1>11, CloudAssumption DEF PollerLeases, CCTypeOK
    <2>2. poller'.op = 0
        BY <1>11, <2>1, LeasedFits DEF PollerLeases
    <2> QED
        BY <1>0, <1>11, <1>a, <2>2, CalledKept DEF PollerLeases
<1>12. ASSUME IngestsNew \/ DeclinesDuplicate
       PROVE  CallStep
    <2>1. Called' \subseteq Called \cup {0}
        BY <1>0, <1>12, <1>c, CalledKept, PollerIdles DEF IngestsNew, DeclinesDuplicate
    <2> QED
        BY <1>12, <1>a, <2>1 DEF IngestsNew, DeclinesDuplicate
<1>13. ASSUME IngestsAgain
       PROVE  CallStep
    <2>1. \/ poller' = Declining(poller.claim) /\ UNCHANGED calls
          \/ \E rest : WaitOperationEnds(rest)
        BY <1>13 DEF IngestsAgain
    <2>2. Called' \subseteq Called \cup {0}
        BY <1>0, <1>c, <2>1, CalledKept, PollerIdles
    <2> QED
        BY <1>13, <1>a, <2>2 DEF IngestsAgain
<1>i. ASSUME IngestStops
       PROVE  CallStep
    <2>1. \/ UNCHANGED <<calls, poller>>
          \/ \E rest : Dies(rest)
        BY <1>i DEF IngestStops
    <2>2. Called' \subseteq Called \cup {0}
        BY <1>0, <2>1, CalledKept
    <2> QED
        BY <1>i, <1>a, <2>2 DEF IngestStops
<1>14. ASSUME MeetsPendingTerminal
       PROVE  CallStep
    <2>1. \/ /\ \E i, b : poller' = [poller EXCEPT !.phase = "retrying", !.base = i, !.keep = b]
             /\ UNCHANGED calls
          \/ poller' = Declining(poller.claim) /\ UNCHANGED calls
          \/ \E rest : WaitOperationEnds(rest)
        BY <1>14 DEF MeetsPendingTerminal
    <2>2. ASSUME NEW i, NEW b,
                 poller' = [poller EXCEPT !.phase = "retrying", !.base = i, !.keep = b],
                 UNCHANGED calls
          PROVE  Called' \subseteq Called \cup {0}
        <3>1. poller'.op = poller.op
            BY <1>0, <2>2 DEF CCTypeOK
        <3> QED
            BY <2>2, <3>1 DEF Called
    <2>3. Called' \subseteq Called \cup {0}
        BY <1>0, <1>c, <2>1, <2>2, CalledKept, PollerIdles
    <2> QED
        BY <1>14, <1>a, <2>3 DEF MeetsPendingTerminal
<1>15. ASSUME MissesMetadata
       PROVE  CallStep
    <2>1. poller' = Declining(poller.claim) /\ UNCHANGED <<calls, done>>
        BY <1>15 DEF MissesMetadata
    <2> QED
        BY <1>0, <1>a, <2>1, CalledKept, PollerIdles
<1>16. ASSUME NEW i \in OpIds, NEW kind, NEW h, Begins(i, kind, poller.claim, h),
              \/ poller' = [poller EXCEPT !.phase = "declining", !.op = i]
              \/ poller' = [poller EXCEPT !.phase = "acking", !.op = i],
              UNCHANGED <<calls, done>>
       PROVE  CallStep
    <2>1. poller'.op = i /\ i \notin done
        BY <1>0, <1>16, BegunOpen DEF CCTypeOK
    <2>2. Called' \subseteq Called \cup {i}
        BY <1>0, <1>16, <2>1, CalledKept
    <2> QED
        BY <1>16, <2>1, <2>2 DEF CallStep
<1>17. ASSUME PollerDeclines
       PROVE  CallStep
    BY <1>16, <1>17 DEF PollerDeclines
<1>18. ASSUME PollerRetriesAck
       PROVE  CallStep
    <2>1. CASE poller' = NotRetried
        <3>1. poller'.op = 0 /\ UNCHANGED <<calls, done>>
            BY <1>0, <1>18, <2>1, PollerIdles DEF PollerRetriesAck, NotRetried
        <3> QED
            BY <1>0, <1>a, <3>1, CalledKept
    <2> QED
        BY <1>16, <1>18, <2>1 DEF PollerRetriesAck
<1>19. ASSUME DeclineAccepted \/ RetriedAckAccepted
       PROVE  CallStep
    <2>1. poller' \in {Idle, Leased(poller.claim)} /\ UNCHANGED calls
        BY <1>19 DEF DeclineAccepted, RetriedAckAccepted
    <2>2. Called' \subseteq Called \cup {0}
        BY <1>0, <2>1, CalledKept, PollerIdles
    <2>3. done' = done \/ \E S : Completes(S)
        BY <1>19 DEF DeclineAccepted, RetriedAckAccepted
    <2> QED
        BY <1>a, <1>b, <2>2, <2>3
<1>20. ASSUME PollerUncertain \/ PollerRefused
       PROVE  CallStep
    <2>1. /\ poller' \in {Idle, Leased(poller.claim), Declining(poller.claim)}
          /\ UNCHANGED <<calls, done>>
        BY <1>20 DEF PollerUncertain, PollerRefused, NotRetried, Abandons
    <2> QED
        BY <1>0, <1>a, <2>1, CalledKept, PollerIdles
<1>21. CASE UNCHANGED ccVars
    BY <1>0, <1>21, <1>a, CalledKept DEF ccVars
<1> QED
    BY <1>1, <1>2, <1>3, <1>5, <1>6, <1>7, <1>8, <1>9, <1>10, <1>11, <1>12, <1>13, <1>14,
       <1>15, <1>17, <1>18, <1>19, <1>20, <1>21, <1>i
    DEF CCNext, PollerNext, RepairNext

\* A repair begins with all that is pending, or ends, or looks at an operation,
\* which then is not open any more, or blocks the message, or is a decline.
RepairStep ==
    \/ repair'.on /\ ~repair'.blocked /\ repair'.todo = pending'
    \/ ~repair'.on /\ repair'.todo = {}
    \/ /\ repair'.on = repair.on /\ repair'.todo \subseteq repair.todo
       /\ repair.blocked => repair'.blocked
       /\ \A i \in Open' \cap repair.todo :
            i \in repair'.todo \/ repair'.blocked \/ ops[i].kind = "decline"

LEMMA RepairSteps ==
    ASSUME IInv, [CCNext]_ccVars
    PROVE  RepairStep
<1> USE DEF journalVars, cloudVars, daemonVars
<1>0. CCTypeOK
    BY DEF IInv
<1>a. ASSUME repair' = repair
      PROVE  RepairStep
    BY <1>a DEF RepairStep
<1>b. ASSUME repair' = NoRepair
      PROVE  RepairStep
    BY <1>b DEF RepairStep, NoRepair
<1>c. ASSUME Dies(pending')
      PROVE  RepairStep
    BY <1>c DEF RepairStep, Dies
<1>d. ASSUME NEW rest, WaitOperationEnds(rest), pending' = rest
      PROVE  RepairStep
    BY <1>a, <1>c, <1>d DEF WaitOperationEnds
<1>e. ASSUME NEW i, NEW b \in BOOLEAN, RepairGoesOn(i, b),
             i \in Open' => b \/ ops[i].kind = "decline"
      PROVE  RepairStep
    <2>1. /\ repair'.on = repair.on /\ repair'.todo = repair.todo \ {i}
          /\ repair'.blocked = (repair.blocked \/ b)
        BY <1>0, <1>e DEF RepairGoesOn, CCTypeOK
    <2> QED
        BY <1>e, <2>1 DEF RepairStep
<1>1. ASSUME RepairStarts
      PROVE  RepairStep
    BY <1>1 DEF RepairStarts, RepairStep
<1>2. ASSUME RepairClaims \/ \E i \in OpIds : RepairFails(i)
      PROVE  RepairStep
    BY <1>2, <1>b DEF RepairClaims, RepairFails
<1>3. ASSUME NEW i \in OpIds, RepairCompletes(i) \/ RepairDropsRenew(i)
      PROVE  RepairStep
    <2>1. RepairGoesOn(i, FALSE) /\ i \notin Open'
        BY <1>3 DEF RepairCompletes, RepairDropsRenew, Completes, Abandons, Open
    <2> QED
        BY <1>e, <2>1
<1>4. ASSUME NEW i \in OpIds, RepairIsBlocked(i)
      PROVE  RepairStep
    BY <1>e, <1>4 DEF RepairIsBlocked
<1>5. ASSUME NEW i \in OpIds, RepairReplays(i)
      PROVE  RepairStep
    <2>1. \/ RepairGoesOn(i, FALSE) /\ i \notin Open'
          \/ RepairGoesOn(i, ops[i].kind # "decline")
        BY <1>5 DEF RepairReplays, Completes, Abandons, Open
    <2>2. (ops[i].kind # "decline") \in BOOLEAN
        OBVIOUS
    <2> QED
        BY <1>e, <2>1, <2>2
<1>6. ASSUME Crash
      PROVE  RepairStep
    BY <1>6, <1>c DEF Crash
<1>7. ASSUME NEW x \in Slots, LocalCompletion(x)
      PROVE  RepairStep
    BY <1>7, <1>a, <1>c DEF LocalCompletion
<1>8. ASSUME IngestsNew \/ DeclinesDuplicate
      PROVE  RepairStep
    BY <1>8, <1>a, <1>d DEF IngestsNew, DeclinesDuplicate
<1>9. ASSUME IngestsAgain
      PROVE  RepairStep
    BY <1>9, <1>a, <1>d DEF IngestsAgain
<1>i. ASSUME IngestStops
       PROVE  RepairStep
    BY <1>i, <1>a, <1>c DEF IngestStops
<1>10. ASSUME MeetsPendingTerminal
       PROVE  RepairStep
    BY <1>10, <1>a, <1>d DEF MeetsPendingTerminal
<1>11. ASSUME NEW s \in Sessions, SessionStops(s) \/ SessionDies(s)
       PROVE  RepairStep
    BY <1>11, <1>a DEF SessionStops, SessionDies
<1>12. ASSUME NEW x \in Slots, \/ AnswerUncertain(x) \/ AnswerRefused(x)
                               \/ \E h \in Holders, kind \in Kinds : Ask(x, h, kind)
       PROVE  RepairStep
    BY <1>12, <1>a DEF AnswerUncertain, AnswerRefused, Ask
<1>13. ASSUME NEW h \in Holders, Receives(h) \/ \E i \in OpIds : RecoverLocallyCompleted(h, i)
       PROVE  RepairStep
    BY <1>13, <1>a DEF Receives, RecoverLocallyCompleted
<1>14. ASSUME \/ CloudLeaseEnds \/ LeaseRunsOutHere \/ MetadataLost
              \/ \E i \in OpIds : CloudCarriesOut(i)
       PROVE  RepairStep
    BY <1>14, <1>a DEF CloudLeaseEnds, LeaseRunsOutHere, MetadataLost, CloudCarriesOut
<1>15. ASSUME \/ PollerLeases \/ MissesMetadata \/ PollerDeclines \/ PollerRetriesAck
              \/ DeclineAccepted \/ RetriedAckAccepted \/ PollerUncertain \/ PollerRefused
       PROVE  RepairStep
    BY <1>15, <1>a
    DEF PollerLeases, MissesMetadata, PollerDeclines, PollerRetriesAck, DeclineAccepted,
        RetriedAckAccepted, PollerUncertain, PollerRefused
<1>16. CASE UNCHANGED ccVars
    BY <1>16, <1>a DEF ccVars
<1> QED
    BY <1>1, <1>2, <1>3, <1>4, <1>5, <1>6, <1>7, <1>8, <1>9, <1>10, <1>11, <1>12, <1>13,
       <1>14, <1>15, <1>16, <1>i
    DEF CCNext, PollerNext, RepairNext

\* The poller holds a claim until it is the message's, or an operation ends it,
\* and works on a message that is there.
Begun(i) ==
    /\ poller.phase \in {"declines", "retrying"}
    /\ \/ /\ poller' = [poller EXCEPT !.phase = "declining", !.op = i]
          /\ ops'[i].kind = "decline"
       \/ /\ poller' = [poller EXCEPT !.phase = "acking", !.op = i]
          /\ ops'[i].kind = "ack" /\ poller.phase = "retrying"
    /\ ops'[i].claim = poller.claim
    /\ UNCHANGED <<cloud, metadata>>

Retrying(i) ==
    /\ poller.phase = "leased" /\ ops[i].kind = "ack" /\ row[Msg].state # "absent"
    /\ poller' = [poller EXCEPT !.phase = "retrying", !.base = i, !.keep = HasThisClaim]
    /\ UNCHANGED <<ops, cloud, metadata>>

HandedOver ==
    \/ poller.claim = 0 \/ metadata' \in {0, poller.claim}
    \/ \E j \in Created : ops[j].kind # "renew" /\ ops[j].claim = poller.claim

PollerStep ==
    \/ poller' = poller
    \/ poller' = Idle /\ HandedOver
    \/ poller' = Leased(cloud'.claim) /\ cloud'.claim # 0
    \/ poller' = Declining(cloud'.claim) /\ cloud'.claim # 0 /\ row[Msg].state # "absent"
    \/ \E i \in Created' \ {0} : Begun(i)
    \/ \E i \in Created \ {0} : Retrying(i)

LEMMA PollerSteps ==
    ASSUME IInv, [CCNext]_ccVars
    PROVE  PollerStep
<1> USE DEF journalVars, cloudVars, daemonVars
<1>0. CCTypeOK
    BY DEF IInv
<1>a. ASSUME poller' = poller
      PROVE  PollerStep
    BY <1>a DEF PollerStep
<1>b. ASSUME poller' = Idle, HandedOver
      PROVE  PollerStep
    BY <1>b DEF PollerStep
<1>c. ASSUME poller.claim # 0, cloud' = cloud,
             \/ poller' = Leased(poller.claim)
             \/ poller' = Declining(poller.claim) /\ row[Msg].state # "absent"
      PROVE  PollerStep
    <2>1. poller.claim = cloud'.claim
        BY <1>c DEF IInv, PollerOK
    <2> QED
        BY <1>c, <2>1 DEF PollerStep
<1>d. ASSUME NEW pend, Dies(pend), cloud' = cloud
      PROVE  PollerStep
    BY <1>b, <1>c, <1>d DEF Dies, HandedOver
<1>e. ASSUME NEW rest, WaitOperationEnds(rest), cloud' = cloud, HandedOver
      PROVE  PollerStep
    BY <1>b, <1>d, <1>e DEF WaitOperationEnds
<1>f. ASSUME poller.op # 0
      PROVE  HandedOver
    <2>1. poller.op \in Created /\ ops[poller.op].claim = poller.claim
        BY <1>f, PollerFacts DEF IInv, PollerOK
    <2>2. ops[poller.op].kind \in {"ack", "decline"}
        BY <1>f DEF IInv, PollerOK
    <2> QED
        BY <2>1, <2>2 DEF HandedOver
<1>g. ASSUME poller' = NotRetried, cloud' = cloud, metadata' = metadata,
             poller.phase \in {"retrying", "acking"}
      PROVE  PollerStep
    <2>1. poller.claim # 0 /\ row[Msg].state # "absent"
        BY <1>g DEF IInv, PollerOK, AbsentOK
    <2>2. CASE poller.keep
        BY <1>b, <1>g, <2>2 DEF NotRetried, HandedOver, IInv, PollerOK
    <2>3. CASE ~poller.keep
        BY <1>c, <1>g, <2>1, <2>3 DEF NotRetried
    <2> QED
        BY <2>2, <2>3
<1>1. ASSUME Crash
      PROVE  PollerStep
    BY <1>1, <1>d DEF Crash
<1>2. ASSUME NEW x \in Slots, LocalCompletion(x)
      PROVE  PollerStep
    BY <1>2, <1>a, <1>d DEF LocalCompletion
<1>3. ASSUME PollerLeases
      PROVE  PollerStep
    <2>1. cloud'.claim = cloud.claim + 1 /\ cloud.claim \in Nat
        BY <1>0, <1>3, CloudAssumption DEF PollerLeases, CCTypeOK
    <2>2. poller' = Leased(cloud'.claim) /\ cloud'.claim # 0
        BY <1>3, <2>1 DEF PollerLeases
    <2> QED
        BY <2>2 DEF PollerStep
<1>4. ASSUME Ingesting
      PROVE  poller.phase = "leased" /\ poller.claim # 0
    BY <1>4 DEF Ingesting, IInv, PollerOK
<1>5. ASSUME IngestsNew
      PROVE  PollerStep
    BY <1>5, <1>e DEF IngestsNew, HandedOver
<1>6. ASSUME IngestsAgain
      PROVE  PollerStep
    <2>1. HandedOver /\ cloud' = cloud /\ row[Msg].state # "absent" /\ poller.claim # 0
        BY <1>4, <1>6 DEF IngestsAgain, HandedOver
    <2>2. poller' = Declining(poller.claim) \/ \E rest : WaitOperationEnds(rest)
        BY <1>6 DEF IngestsAgain
    <2> QED
        BY <1>c, <1>e, <2>1, <2>2
<1>i. ASSUME IngestStops
      PROVE  PollerStep
    BY <1>i, <1>a, <1>d DEF IngestStops
<1>7. ASSUME DeclinesDuplicate
      PROVE  PollerStep
    <2>1. cloud' = cloud /\ row[Msg].state # "absent" /\ poller.claim # 0
        BY <1>4, <1>7 DEF DeclinesDuplicate
    <2>2. HasThisClaim => HandedOver
        BY <1>7 DEF DeclinesDuplicate, HasThisClaim, HandedOver
    <2> QED
        BY <1>c, <1>e, <1>7, <2>1, <2>2 DEF DeclinesDuplicate
<1>8. ASSUME MeetsPendingTerminal
      PROVE  PollerStep
    <2>1. /\ cloud' = cloud /\ row[Msg].state # "absent" /\ poller.claim # 0
          /\ metadata' = metadata /\ ops' = ops /\ poller.phase = "leased"
        BY <1>4, <1>8 DEF MeetsPendingTerminal
    <2>2. HasThisClaim => HandedOver
        BY <2>1 DEF HasThisClaim, HandedOver
    <2>3. \/ \E i \in OpenOf(Terminal, metadata) :
               /\ ops[i].kind = "ack"
               /\ poller' = [poller EXCEPT !.phase = "retrying", !.base = i,
                                           !.keep = HasThisClaim]
          \/ poller' = Declining(poller.claim)
          \/ HasThisClaim /\ \E rest : WaitOperationEnds(rest)
        BY <1>8 DEF MeetsPendingTerminal
    <2>4. \A i \in OpenOf(Terminal, metadata) : i \in Created \ {0}
        BY <1>0 DEF OpenOf, Open, CCTypeOK, Created, OpIds
    <2>5. CASE \E i \in OpenOf(Terminal, metadata) :
               /\ ops[i].kind = "ack"
               /\ poller' = [poller EXCEPT !.phase = "retrying", !.base = i,
                                           !.keep = HasThisClaim]
        BY <2>1, <2>4, <2>5 DEF PollerStep, Retrying
    <2> QED
        BY <1>c, <1>e, <2>1, <2>2, <2>3, <2>5
<1>9. ASSUME MissesMetadata
      PROVE  PollerStep
    BY <1>4, <1>9, <1>c DEF MissesMetadata
<1>10. ASSUME NEW i \in OpIds, NEW kind \in {"ack", "decline"}, NEW h \in Holders \cup {None},
              Begins(i, kind, poller.claim, h), poller.claim # 0
       PROVE  /\ i \in Created' \ {0}
              /\ ops'[i] = [kind |-> kind, claim |-> poller.claim, holder |-> h]
    <2>1. poller.claim \in Claims /\ kind \in {"ack", "release", "renew", "decline"}
        BY <1>10, PollerFacts DEF Claims
    <2>2. Created' = Created \cup {i}
        BY <1>0, <1>10, <2>1, BeginsFits
    <2>3. ops'[i] = [kind |-> kind, claim |-> poller.claim, holder |-> h]
        BY <1>0, <1>10, <2>1, BeginsFits
    <2> QED
        BY <2>2, <2>3 DEF OpIds
<1>11. ASSUME PollerDeclines
       PROVE  PollerStep
    <2>0. poller.phase = "declines" /\ UNCHANGED <<cloud, metadata>>
        BY <1>11 DEF PollerDeclines
    <2>1. PICK i \in OpIds : /\ Begins(i, "decline", poller.claim, None)
                             /\ poller' = [poller EXCEPT !.phase = "declining", !.op = i]
        BY <1>11 DEF PollerDeclines
    <2>2. poller.claim # 0
        BY <2>0 DEF IInv, PollerOK
    <2>3. /\ i \in Created' \ {0}
          /\ ops'[i] = [kind |-> "decline", claim |-> poller.claim, holder |-> None]
        BY <1>10, <2>1, <2>2
    <2>4. Begun(i)
        BY <2>0, <2>1, <2>3 DEF Begun
    <2> QED
        BY <2>3, <2>4 DEF PollerStep
<1>12. ASSUME PollerRetriesAck
       PROVE  PollerStep
    <2>0. poller.phase = "retrying" /\ UNCHANGED <<cloud, metadata>>
        BY <1>12 DEF PollerRetriesAck
    <2>1. CASE poller' = NotRetried
        BY <1>g, <2>0, <2>1
    <2>2. CASE poller' # NotRetried
        <3>1. PICK i \in OpIds :
                /\ Begins(i, "ack", poller.claim, ops[poller.base].holder)
                /\ poller' = [poller EXCEPT !.phase = "acking", !.op = i]
            BY <1>12, <2>2 DEF PollerRetriesAck
        <3>2. poller.claim # 0
            BY <2>0 DEF IInv, PollerOK
        <3>3. ops[poller.base].holder \in Holders \cup {None}
            <4>1. poller.base \in Created
                BY <2>0, PollerFacts
            <4> QED
                BY <1>0, <4>1, CreatedOps DEF Op
        <3>4. /\ i \in Created' \ {0}
              /\ ops'[i] = [kind |-> "ack", claim |-> poller.claim,
                            holder |-> ops[poller.base].holder]
            BY <1>10, <3>1, <3>2, <3>3
        <3>5. Begun(i)
            BY <2>0, <3>1, <3>4 DEF Begun
        <3> QED
            BY <3>4, <3>5 DEF PollerStep
    <2> QED
        BY <2>1, <2>2
<1>13. ASSUME DeclineAccepted \/ PollerUncertain
       PROVE  PollerStep
    <2>1. poller' = Idle /\ poller.op # 0
        BY <1>13 DEF DeclineAccepted, PollerUncertain, IInv, PollerOK
    <2> QED
        BY <1>b, <1>f, <2>1
<1>14. ASSUME RetriedAckAccepted
       PROVE  PollerStep
    <2>1. /\ poller' \in {Idle, Leased(poller.claim)} /\ cloud' = cloud
          /\ poller.phase = "acking"
        BY <1>14 DEF RetriedAckAccepted
    <2>2. poller.op # 0 /\ poller.claim # 0
        BY <2>1 DEF IInv, PollerOK
    <2> QED
        BY <1>b, <1>c, <1>f, <2>1, <2>2
<1>15. ASSUME PollerRefused
       PROVE  PollerStep
    <2>1. poller.op # 0 /\ cloud' = cloud /\ metadata' = metadata
        BY <1>15 DEF PollerRefused
    <2>2. CASE poller.phase = "acking"
        BY <1>15, <1>g, <2>1, <2>2 DEF PollerRefused
    <2>3. CASE poller.phase # "acking"
        <3>1. poller' \in {Idle, Leased(poller.claim)} /\ poller.claim # 0
            BY <1>15, <2>1, <2>3 DEF PollerRefused, IInv, PollerOK
        <3> QED
            BY <1>b, <1>c, <1>f, <2>1, <3>1
    <2> QED
        BY <2>2, <2>3
<1>16. ASSUME NEW s \in Sessions, SessionStops(s) \/ SessionDies(s)
       PROVE  PollerStep
    BY <1>16, <1>a DEF SessionStops, SessionDies
<1>17. ASSUME NEW x \in Slots, \/ AnswerUncertain(x) \/ AnswerRefused(x)
                               \/ \E h \in Holders, kind \in Kinds : Ask(x, h, kind)
       PROVE  PollerStep
    BY <1>17, <1>a DEF AnswerUncertain, AnswerRefused, Ask
<1>18. ASSUME NEW h \in Holders, Receives(h) \/ \E i \in OpIds : RecoverLocallyCompleted(h, i)
       PROVE  PollerStep
    BY <1>18, <1>a DEF Receives, RecoverLocallyCompleted
<1>19. ASSUME NEW i \in OpIds,
              \/ CloudCarriesOut(i) \/ RepairCompletes(i) \/ RepairDropsRenew(i)
              \/ RepairReplays(i) \/ RepairIsBlocked(i) \/ RepairFails(i)
       PROVE  PollerStep
    BY <1>19, <1>a
    DEF CloudCarriesOut, RepairCompletes, RepairDropsRenew, RepairReplays, RepairIsBlocked,
        RepairFails, RepairGoesOn
<1>20. ASSUME CloudLeaseEnds \/ LeaseRunsOutHere \/ MetadataLost \/ RepairStarts \/ RepairClaims
       PROVE  PollerStep
    BY <1>20, <1>a DEF CloudLeaseEnds, LeaseRunsOutHere, MetadataLost, RepairStarts, RepairClaims
<1>21. CASE UNCHANGED ccVars
    BY <1>21, <1>a DEF ccVars
<1> QED
    BY <1>1, <1>2, <1>3, <1>5, <1>6, <1>7, <1>8, <1>9, <1>11, <1>12, <1>13, <1>14, <1>15,
       <1>16, <1>17, <1>18, <1>19, <1>20, <1>21, <1>i
    DEF CCNext, PollerNext, RepairNext

\* A claim that ends leaves no ack open, unless it was retried, and no renew,
\* unless an operation of the same holder ended it.
Lost ==
    /\ row[Msg].state \notin {"absent", "acked"} /\ BecomesOpen
    /\ \A i \in Open \cap Open' :
         /\ ops[i].kind = "ack" => TwoAcks
         /\ ops[i].kind = "renew" /\ ops[i].claim = metadata /\ ClaimedBy(Msg, ops[i].holder) =>
              \E j \in Created : ops[j].kind \in Terminal /\ ops[j].holder = ops[i].holder

AckedNow ==
    \E i \in Created :
        /\ ops[i].kind = "ack" /\ ClaimedBy(Msg, ops[i].holder)
        /\ row'[Msg].state = "acked" /\ row'[Msg].holder = ops[i].holder
        /\ cloud'.status = "acked"

Taken ==
    /\ row[Msg].state = "unclaimed" /\ row'[Msg].state = "claimed" /\ BusFree
    /\ UNCHANGED <<ops, pending, done, metadata, repair>>

RowStep ==
    \/ SameRow
    \/ row[Msg].state = "absent" /\ row'[Msg].state = "unclaimed"
    \/ Taken \/ AckedNow \/ Lost

\* Of two operations that would end the message's claim, one is not open.
LEMMA OthersEnd ==
    ASSUME IInv, NEW i \in Open, ops[i].kind \in Terminal, NEW j \in Open,
           ops[j].kind \in Terminal, i # j
    PROVE  TwoAcks
BY DEF IInv, EndingOK, OneTerminalPerClaim

LEMMA ClaimEnds ==
    ASSUME IInv, BecomesOpen, NEW i \in Open, ops[i].kind \in Terminal,
           ClaimedBy(Msg, ops[i].holder), ops[i].kind # "ack" \/ i \notin Open'
    PROVE  RowStep
<1>1. i \in Created
    BY DEF IInv, CCTypeOK, Open
<1>2. \A j \in Open \cap Open' : ops[j].kind = "ack" => TwoAcks
    BY OthersEnd DEF Terminal
<1>3. \A j \in Open : ClaimedBy(Msg, ops[j].holder) => ops[j].holder = ops[i].holder
    BY DEF ClaimedBy
<1>4. row[Msg].state \notin {"absent", "acked"}
    BY DEF ClaimedBy
<1> QED
    BY <1>1, <1>2, <1>3, <1>4 DEF RowStep, Lost

LEMMA RowSteps ==
    ASSUME IInv, [CCNext]_ccVars
    PROVE  RowStep
<1> USE DEF journalVars, cloudVars, daemonVars
<1>0. CCTypeOK
    BY DEF IInv
<1>a. ASSUME SameRow
      PROVE  RowStep
    BY <1>a DEF RowStep
<1>b. ASSUME UNCHANGED storeVars
      PROVE  RowStep
    BY <1>0, <1>a, <1>b, RowAfter
<1>c. ASSUME BecomesOpen, row[Msg].state \notin {"absent", "acked"},
             \A i \in Open \cap Open' : ops[i].kind = "ack" => TwoAcks,
             \A i \in Open \cap Open' : ops[i].kind = "renew" => ops[i].claim # metadata
      PROVE  RowStep
    BY <1>c DEF RowStep, Lost
<1>d. ASSUME NEW i \in Created, ops[i].kind = "ack", cloud'.status = "acked",
             FinishCloudClaimedMessage(Msg, ops[i].holder, "acked")
      PROVE  RowStep
    BY <1>0, <1>d, RowAfter DEF RowStep, AckedNow
<1>e. \A i \in Open : i \in Created /\ i \in pending /\ i \notin done /\ ops[i].claim # 0
    <2>1. \A i \in Open : i \in Created
        BY <1>0 DEF Open, CCTypeOK
    <2>2. \A i \in Open : ops[i] \in Op
        BY <1>0, <2>1, CreatedOps
    <2> QED
        BY <2>1, <2>2 DEF Open, Op, Claims
\* A settled operation.
<1>1. ASSUME NEW i \in Open, Settles(i), ops[i].kind \in Terminal \cup {"renew"},
             ops[i].kind = "ack" => cloud'.status = "acked"
      PROVE  RowStep
    <2>1. CASE ops[i].kind = "renew"
        BY <1>0, <1>1, <1>a, <2>1, RowAfter DEF Settles
    <2>2. CASE ops[i].kind = "ack"
        BY <1>1, <1>b, <1>d, <1>e, <2>2 DEF Settles
    <2>3. CASE ops[i].kind = "release"
        <3>1. SameRow \/ (BecomesOpen /\ ClaimedBy(Msg, ops[i].holder))
            BY <1>0, <1>1, <2>3, SettlesRow
        <3>2. ops[i].kind \in Terminal /\ ops[i].kind # "ack"
            BY <2>3 DEF Terminal
        <3> QED
            BY <1>a, <3>1, <3>2, ClaimEnds
    <2> QED
        BY <1>1, <2>1, <2>2, <2>3 DEF Terminal
<1>2. ASSUME NEW x \in Slots, LocalCompletion(x)
      PROVE  RowStep
    <2>1. CASE UNCHANGED storeVars
        BY <1>b, <2>1
    <2>2. CASE ~UNCHANGED storeVars
        <3> DEFINE i == calls[x]
        <3>1. i \in pending /\ i \in applied /\ Settles(i) /\ cloud' = cloud /\ i \in Called
            BY <1>2, <2>2 DEF LocalCompletion, Called
        <3>2. i \in Open
            BY <3>1 DEF Open, IInv, DoneOK
        <3>3. ops[i].kind = "ack" => cloud'.status = "acked"
            BY <3>1 DEF IInv, AppliedOK
        <3>4. ops[i].kind \in Terminal \cup {"renew"}
            <4>1. ops[i] \in Op /\ i \in Created
                BY <1>0, <1>e, <3>2, CreatedOps
            <4>2. CASE ops[i].kind = "decline"
                <5>1. ops[i].holder = None
                    BY <4>1, <4>2 DEF IInv, OpsOK
                <5>2. ClaimedBy(Msg, None) \/ row[Msg].state = "released"
                    BY <1>2, <2>2, <4>2, <5>1 DEF LocalCompletion, CanSettle
                <5>3. None \notin Holders
                    BY StoreAssumption DEF Holders
                <5> QED
                    BY <5>1, <5>2, <5>3, <4>2, <3>1, <2>2, ClaimedHolder
                    DEF IInv, Settles, FinishCloudClaimedMessage
            <4> QED
                BY <4>1, <4>2 DEF Op, Terminal
        <3> QED
            BY <1>1, <3>1, <3>2, <3>3, <3>4
    <2> QED
        BY <2>1, <2>2
<1>3. ASSUME NEW i \in OpIds, RepairReplays(i)
      PROVE  RowStep
    <2>1. i \in Open /\ i \in Created
        BY <1>3, <1>e DEF RepairReplays, Open
    <2>2. CASE UNCHANGED storeVars
        BY <1>b, <2>2
    <2>3. CASE /\ i \in applied \/ Grants(i)
               /\ cloud' = IF i \in applied THEN cloud ELSE CloudAfter(i)
               /\ ops[i].kind # "decline" /\ Settles(i)
        <3>1. ops[i].kind = "ack" => cloud'.status = "acked"
            BY <1>0, <2>3 DEF IInv, AppliedOK, CloudAfter, CCTypeOK
        <3>2. ops[i].kind \in Terminal \cup {"renew"}
            BY <1>0, <2>1, <2>3, CreatedOps DEF Op, Terminal
        <3> QED
            BY <1>1, <2>1, <2>3, <3>1, <3>2
    <2>4. CASE /\ ops[i].kind \in Terminal /\ ClearsAbandoned(ops[i].holder)
               /\ Abandons({i})
        <3>1. ClaimedBy(Msg, ops[i].holder) /\ BecomesOpen
            BY <1>0, <2>4, ClearsRow
        <3>2. i \notin Open'
            BY <2>4 DEF Abandons, Open
        <3> QED
            BY <2>1, <2>4, <3>1, <3>2, ClaimEnds
    <2> QED
        BY <1>3, <2>2, <2>3, <2>4 DEF RepairReplays
\* A claim that is taken away.
<1>4. ASSUME NEW h \in Holders, NEW renews, ReleaseAbandonedCloudClaim(h, renews),
             \A i \in Open : ops[i].kind = "ack" => TwoAcks,
             \A i \in Open \ renews : ops[i].kind = "renew" => ops[i].claim # metadata
      PROVE  RowStep
    <2>1. CASE metadata = 0
        <3>1. /\ row[Msg].state \in {"unclaimed", "claimed"} /\ BecomesOpen
            BY <1>0, <1>4, <2>1, ReleaseFits, RowAfter
        <3> QED
            BY <1>c, <1>e, <1>4, <2>1, <3>1
    <2>2. CASE metadata # 0
        <3>1. PICK i \in OpIds \ Created :
                /\ pending' \subseteq (pending \ renews) \cup {i}
                /\ \/ UNCHANGED storeVars
                   \/ FinishCloudClaimedMessage(Msg, h, "released")
                   \/ ClearsAbandoned(h)
            BY <1>0, <1>4, <2>2, ReleaseFits
        <3>2. SameRow \/ (ClaimedBy(Msg, h) /\ BecomesOpen)
            BY <1>0, <3>1, RowAfter, ClearsRow
        <3>3. \A j \in Open \cap Open' : j \notin renews
            BY <1>e, <3>1 DEF Open
        <3> QED
            BY <1>a, <1>c, <1>4, <3>2, <3>3 DEF ClaimedBy
    <2> QED
        BY <2>1, <2>2
<1>5. ASSUME NEW s \in Sessions, SessionStops(s)
      PROVE  RowStep
    <2> DEFINE mine == IF metadata = 0 THEN Open ELSE OpenOf(Terminal \cup {"renew"}, metadata)
               renews == {i \in mine : ops[i].kind = "renew"}
               ending == {i \in mine : ops[i].kind \in Terminal}
    <2>1. s \in Holders
        BY DEF Holders
    <2>2. \A i \in Open \ renews : ops[i].kind = "renew" => ops[i].claim # metadata
        BY <1>e DEF OpenOf
    <2>3. ASSUME ending = {}
          PROVE  \A i \in Open : ops[i].kind = "ack" => TwoAcks
        <3>1. SUFFICES ASSUME NEW i \in Open, ops[i].kind = "ack", ~TwoAcks
                       PROVE  FALSE
            OBVIOUS
        <3>2. metadata \in {0, ops[i].claim}
            BY <3>1 DEF IInv, EndingOK, Terminal
        <3> QED
            BY <2>3, <3>1, <3>2 DEF OpenOf, Terminal
    <2>4. \/ UNCHANGED storeVars
          \/ ending = {} /\ ReleaseAbandonedCloudClaim(s, renews)
          \/ ending = {} /\ RequeueCloudMessageLocally(Msg, s) /\ Abandons(renews)
        BY <1>5 DEF SessionStops
    <2>5. ASSUME ending = {}, RequeueCloudMessageLocally(Msg, s), Abandons(renews)
          PROVE  RowStep
        <3>1. ClaimedBy(Msg, s) /\ BecomesOpen
            BY <1>0, <2>5, RowAfter
        <3>2. \A i \in Open \cap Open' : i \notin renews
            BY <2>5 DEF Abandons, Open
        <3> HIDE DEF renews, ending
        <3> QED
            BY <1>c, <2>2, <2>3, <2>5, <3>1, <3>2 DEF ClaimedBy
    <2> HIDE DEF renews, ending
    <2> QED
        BY <1>b, <1>4, <2>1, <2>2, <2>3, <2>4, <2>5
<1>6. ASSUME RepairClaims
      PROVE  RowStep
    <2>1. CASE UNCHANGED storeVars
        BY <1>b, <2>1
    <2>2. CASE ~UNCHANGED storeVars
        <3>1. PICK h \in Holders :
                /\ ~repair.blocked /\ ClaimedBy(Msg, h)
                /\ \/ ReleaseAbandonedCloudClaim(h, {})
                   \/ RequeueCloudMessageLocally(Msg, h)
            BY <1>6, <2>2 DEF RepairClaims
        <3>2. \A i \in Open : ops[i].kind # "renew"
            BY <1>6, <3>1 DEF RepairClaims, IInv, RepairOK
        <3>3. \A i \in Open : ops[i].kind = "ack" => TwoAcks
            BY <1>6, <3>1 DEF RepairClaims, IInv, RepairOK, EndingOK, ClaimedBy, Terminal
        <3>4. ASSUME RequeueCloudMessageLocally(Msg, h)
              PROVE  RowStep
            <4>1. ClaimedBy(Msg, h) /\ BecomesOpen
                BY <1>0, <3>4, RowAfter
            <4> QED
                BY <1>c, <3>2, <3>3, <4>1 DEF ClaimedBy
        <3> QED
            BY <1>4, <3>1, <3>2, <3>3, <3>4
    <2> QED
        BY <2>1, <2>2
<1>7. ASSUME NEW h \in Holders, Receives(h)
      PROVE  RowStep
    <2>1. CASE metadata = 0
        <3>1. row[Msg].state = "unclaimed"
            BY <1>7, OneMessage DEF Receives, WaitReady
        <3>2. BecomesOpen
            BY <1>0, <1>7, <2>1, RowAfter DEF Receives
        <3>3. \A i \in Open : ops[i].kind = "ack" => TwoAcks
            BY <1>e, <3>1 DEF IInv, PendingAckPins, TwoAcks
        <3> QED
            BY <1>c, <1>e, <2>1, <3>1, <3>2, <3>3
    <2>2. CASE metadata # 0
        BY <1>0, <1>7, <2>2, RowAfter DEF Receives, RowStep, Taken
    <2> QED
        BY <2>1, <2>2
<1>8. ASSUME IngestsNew
      PROVE  RowStep
    BY <1>0, <1>8, RowAfter DEF IngestsNew, RowStep
<1>9. ASSUME IngestsAgain
      PROVE  RowStep
    <2>1. row[Msg].state \notin {"absent", "acked"} /\ BecomesOpen
        BY <1>0, <1>9, RowAfter DEF IngestsAgain, Adoptable
    <2>2. \A i \in Open : ops[i].kind = "ack" => TwoAcks
        <3>1. OpenOf(Terminal, metadata) = {} /\ metadata # 0
            BY <1>9 DEF IngestsAgain
        <3> QED
            BY <3>1 DEF IInv, EndingOK, OpenOf, Terminal
    <2>3. \A i \in Open \cap Open' : ops[i].kind = "renew" => ops[i].claim # metadata
        BY <1>9 DEF IngestsAgain, Open, OpenOf
    <2> QED
        BY <1>c, <2>1, <2>2, <2>3
<1>10. ASSUME MissesMetadata
       PROVE  RowStep
    <2>1. CASE UNCHANGED storeVars
        BY <1>b, <2>1
    <2>2. CASE ~UNCHANGED storeVars
        <3>1. row[Msg].state \in {"unclaimed", "claimed"} /\ BecomesOpen /\ metadata = 0
            BY <1>0, <1>10, <2>2, RowAfter DEF MissesMetadata
        <3>2. \A i \in Open : ops[i].kind # "ack"
            BY <1>10, <2>2 DEF MissesMetadata, Terminal
        <3> QED
            BY <1>c, <1>e, <3>1, <3>2
    <2> QED
        BY <2>1, <2>2
<1>11. ASSUME RetriedAckAccepted
       PROVE  RowStep
    <2>1. CASE UNCHANGED storeVars
        BY <1>b, <2>1
    <2>2. CASE ~UNCHANGED storeVars
        <3>1. /\ FinishCloudClaimedMessage(Msg, ops[poller.base].holder, "acked")
              /\ poller.phase = "acking" /\ poller.op \in applied /\ cloud' = cloud
            BY <1>11, <2>2 DEF RetriedAckAccepted
        <3>2. ops[poller.op].kind = "ack"
            BY <3>1 DEF IInv, PollerOK
        <3>3. cloud'.status = "acked"
            BY <3>1, <3>2 DEF IInv, AppliedOK
        <3> QED
            BY <1>d, <3>1, <3>3, PollerFacts
    <2> QED
        BY <2>1, <2>2
<1>12. ASSUME LeaseRunsOutHere
       PROVE  RowStep
    BY <1>0, <1>12, <1>a, RowAfter DEF LeaseRunsOutHere
<1>13. ASSUME NEW x \in Slots, \/ AnswerUncertain(x) \/ AnswerRefused(x)
                               \/ \E h \in Holders, kind \in Kinds : Ask(x, h, kind)
       PROVE  RowStep
    BY <1>13, <1>b DEF AnswerUncertain, AnswerRefused, Ask
<1>14. ASSUME NEW h \in Holders, \E i \in OpIds : RecoverLocallyCompleted(h, i)
       PROVE  RowStep
    BY <1>14, <1>b DEF RecoverLocallyCompleted
<1>15. ASSUME \/ CloudLeaseEnds \/ MetadataLost \/ Crash \/ RepairStarts
              \/ \E s \in Sessions : SessionDies(s)
       PROVE  RowStep
    BY <1>15, <1>b DEF CloudLeaseEnds, MetadataLost, Crash, RepairStarts, SessionDies
<1>16. ASSUME NEW i \in OpIds,
              \/ CloudCarriesOut(i) \/ RepairCompletes(i) \/ RepairDropsRenew(i)
              \/ RepairIsBlocked(i) \/ RepairFails(i)
       PROVE  RowStep
    BY <1>16, <1>b
    DEF CloudCarriesOut, RepairCompletes, RepairDropsRenew, RepairIsBlocked, RepairFails
<1>17. ASSUME \/ PollerLeases \/ DeclinesDuplicate \/ MeetsPendingTerminal \/ PollerDeclines
              \/ PollerRetriesAck \/ DeclineAccepted \/ PollerUncertain \/ PollerRefused
              \/ IngestStops
       PROVE  RowStep
    BY <1>17, <1>b
    DEF IngestStops, PollerLeases, DeclinesDuplicate, MeetsPendingTerminal, PollerDeclines,
        PollerRetriesAck, DeclineAccepted, PollerUncertain, PollerRefused
<1>18. CASE UNCHANGED ccVars
    BY <1>18, <1>b DEF ccVars
<1> QED
    BY <1>2, <1>3, <1>5, <1>6, <1>7, <1>8, <1>9, <1>10, <1>11, <1>12, <1>13, <1>14,
       <1>15, <1>16, <1>17, <1>18
    DEF CCNext, PollerNext, RepairNext

-----------------------------------------------------------------------------
(* The parts of the invariant, from what a step may do. *)

LEMMA Steps ==
    ASSUME IInv, [CCNext]_ccVars
    PROVE  /\ CCTypeOK' /\ RowsCoherent'
           /\ JournalStep /\ CloudStep /\ MetadataStep /\ DoneStep /\ CallStep
           /\ RepairStep /\ PollerStep /\ RowStep
<1>1. RowsCoherent'
    BY StoreStep, RowsInductive DEF IInv, CCTypeOK
<1> QED
    BY <1>1, TypeStep, JournalSteps, CloudSteps, MetadataSteps, DoneSteps, CallSteps,
       RepairSteps, PollerSteps, RowSteps

\* What is open was open, or is new.
LEMMA OpenAfter ==
    ASSUME IInv, CCTypeOK', JournalStep
    PROVE  /\ Created \subseteq Created' /\ \A i \in Created : ops'[i] = ops[i]
           /\ Open \subseteq Created /\ Open' \subseteq Created'
           /\ \A i \in Open' : i \in Open \/ i \in Created' \ Created
           /\ \A i \in Created' : i \in OpIds /\ i # 0 /\ ops'[i] \in Op
           /\ \A i \in Created : ops[i] \in Op
           /\ TwoAcks => TwoAcks'
<1>1. /\ Created \subseteq Created' /\ \A i \in Created : ops'[i] = ops[i]
    BY DEF JournalStep
<1>2. Open \subseteq Created /\ Open' \subseteq Created'
    BY DEF IInv, CCTypeOK, Open
<1>3. \A i \in Open' : i \in Open \/ i \in Created' \ Created
    BY <1>2 DEF JournalStep, Open
<1>4. \A i \in Created' : i \in OpIds /\ i # 0 /\ ops'[i] \in Op
    BY CloudAssumption DEF CCTypeOK, Created, OpIds
<1>5. TwoAcks => TwoAcks'
    BY <1>1 DEF TwoAcks
<1>6. \A i \in Created : ops[i] \in Op
    BY CreatedOps DEF IInv
<1> QED
    BY <1>1, <1>2, <1>3, <1>4, <1>5, <1>6

\* No claim is newer than the newest, also after the step.
LEMMA CloudClaimGrows ==
    ASSUME IInv, CCTypeOK', CloudStep
    PROVE  /\ cloud.claim \in Nat /\ cloud'.claim \in Nat /\ cloud.claim <= cloud'.claim
           /\ metadata \in Nat
BY CloudAssumption DEF IInv, CCTypeOK, CloudStep

LEMMA OpsNext ==
    ASSUME IInv, CCTypeOK', RowsCoherent', JournalStep, CloudStep, MetadataStep, RowStep
    PROVE  OpsOK'
<1>1. cloud.claim \in Nat /\ cloud'.claim \in Nat /\ cloud.claim <= cloud'.claim
    BY CloudClaimGrows
<1>2. metadata' <= cloud'.claim
    BY <1>1, CloudClaimGrows, PollerFacts DEF MetadataStep, IInv, OpsOK
<1>3. ASSUME NEW i \in Created'
      PROVE  ops'[i].claim <= cloud'.claim /\ (ops'[i].holder = None <=> ops'[i].kind = "decline")
    <2>0. ops'[i] \in Op
        BY OpenAfter
    <2>1. CASE i \in Created
        <3>1. ops'[i].claim = ops[i].claim /\ ops[i].claim \in Nat
            BY <2>1, OpenAfter DEF Op, Claims
        <3> QED
            BY <1>1, <2>1, <3>1, OpenAfter DEF IInv, OpsOK
    <2>2. CASE Asked(i) \/ Released(i)
        <3>1. ops'[i].claim = metadata /\ ops'[i].kind # "decline"
            BY <2>2 DEF Asked, Released
        <3>2. ops'[i].holder \in Holders
            BY <2>0, <2>2, ClaimedHolder DEF Asked, Released, IInv, Op
        <3>3. None \notin Holders
            BY StoreAssumption DEF Holders
        <3> QED
            BY <1>1, <3>1, <3>2, <3>3, CloudClaimGrows DEF IInv, OpsOK
    <2>3. CASE Declined(i)
        <3>1. ops'[i].claim = cloud.claim
            BY <2>3, PollerFacts DEF Declined
        <3> QED
            BY <1>1, <2>3, <3>1 DEF Declined
    <2>4. CASE Retried(i)
        <3>1. /\ ops'[i].claim = cloud.claim /\ poller.base \in Created
              /\ ops[poller.base].kind = "ack"
            BY <2>4, PollerFacts DEF Retried
        <3>2. ops[poller.base].holder # None
            BY <3>1 DEF IInv, OpsOK
        <3> QED
            BY <1>1, <2>4, <3>1, <3>2 DEF Retried
    <2> QED
        BY <2>1, <2>2, <2>3, <2>4 DEF JournalStep
<1> QED
    BY <1>2, <1>3 DEF OpsOK

LEMMA PollerNextOK ==
    ASSUME IInv, CCTypeOK', JournalStep, CloudStep, MetadataStep, PollerStep
    PROVE  PollerOK'
<1> USE DEF PollerOK
<1>0. poller \in PollerRecord(Created) /\ cloud'.claim \in 0..MaxClaims
    BY PollerFacts DEF CCTypeOK
<1>a. PollerOK
    BY DEF IInv
<1>1. CASE poller' = Idle
    BY <1>1, IdleFits
<1>2. CASE poller' \in {Leased(cloud'.claim), Declining(cloud'.claim)} /\ cloud'.claim # 0
    <2>0. /\ Leased(cloud'.claim).phase = "leased" /\ Declining(cloud'.claim).phase = "declines"
          /\ Leased(cloud'.claim).claim = cloud'.claim
          /\ Declining(cloud'.claim).claim = cloud'.claim
          /\ Leased(cloud'.claim).op = 0 /\ Declining(cloud'.claim).op = 0
          /\ Leased(cloud'.claim).keep = FALSE /\ Declining(cloud'.claim).keep = FALSE
        BY <1>0, LeasedFits
    <2>1. /\ poller'.phase \in {"leased", "declines"} /\ poller'.claim = cloud'.claim
          /\ poller'.op = 0 /\ poller'.keep = FALSE
        BY <1>2, <2>0
    <2> QED
        BY <1>2, <2>1
<1>3. ASSUME poller' = poller, poller'.phase # "idle"
      PROVE  cloud'.claim = cloud.claim
    <2>1. cloud'.claim # cloud.claim => poller.phase = "idle"
        BY DEF CloudStep
    <2> QED
        BY <1>3, <2>1
<1>4. CASE poller' = poller
    <2>1. poller.keep => metadata' \in {0, poller.claim}
        BY <1>a DEF MetadataStep
    <2>2. poller.op # 0 => ops'[poller.op] = ops[poller.op]
        BY OpenAfter, PollerFacts
    <2>3. poller.phase \in {"retrying", "acking"} => ops'[poller.base] = ops[poller.base]
        BY OpenAfter, PollerFacts
    <2> QED
        BY <1>a, <1>3, <1>4, <2>1, <2>2, <2>3
<1>5. ASSUME NEW i \in Created' \ {0}, Begun(i)
      PROVE  PollerOK'
    <2>1. poller.claim = cloud.claim /\ poller.claim # 0
        BY <1>5, <1>a DEF Begun
    <2>2. poller.keep => metadata' \in {0, poller.claim}
        BY <1>5, <1>a DEF Begun
    <2>3. CASE /\ poller' = [poller EXCEPT !.phase = "declining", !.op = i]
               /\ ops'[i].kind = "decline"
        <3>1. /\ poller'.phase = "declining" /\ poller'.op = i /\ poller'.claim = poller.claim
              /\ poller'.keep = poller.keep
            BY <1>0, <2>3 DEF PollerRecord
        <3> QED
            BY <1>5, <2>1, <2>2, <2>3, <3>1 DEF Begun
    <2>4. CASE /\ poller' = [poller EXCEPT !.phase = "acking", !.op = i]
               /\ ops'[i].kind = "ack" /\ poller.phase = "retrying"
        <3>1. /\ poller'.phase = "acking" /\ poller'.op = i /\ poller'.claim = poller.claim
              /\ poller'.keep = poller.keep /\ poller'.base = poller.base
            BY <1>0, <2>4 DEF PollerRecord
        <3>2. poller.base # 0 /\ poller.base \in Created /\ ops[poller.base].kind = "ack"
            BY <1>a, <2>4, PollerFacts
        <3>3. ops'[poller.base] = ops[poller.base]
            BY <3>2, OpenAfter
        <3> QED
            BY <1>5, <2>1, <2>2, <2>4, <3>1, <3>2, <3>3 DEF Begun
    <2> QED
        BY <1>5, <2>3, <2>4 DEF Begun
<1>6. ASSUME NEW i \in Created \ {0}, Retrying(i)
      PROVE  PollerOK'
    <2>1. /\ poller'.phase = "retrying" /\ poller'.op = poller.op /\ poller'.claim = poller.claim
          /\ poller'.base = i /\ poller'.keep = HasThisClaim
        BY <1>0, <1>6 DEF PollerRecord, Retrying
    <2>2. poller.claim = cloud.claim /\ poller.claim # 0 /\ poller.op = 0
        BY <1>6, <1>a DEF Retrying
    <2>3. ops'[i].kind = "ack" /\ cloud'.claim = cloud.claim /\ metadata' = metadata
        BY <1>6 DEF Retrying
    <2>4. HasThisClaim => metadata = poller.claim
        BY DEF HasThisClaim
    <2> QED
        BY <1>6, <2>1, <2>2, <2>3, <2>4
<1> QED
    BY <1>1, <1>2, <1>4, <1>5, <1>6 DEF PollerStep

LEMMA AbsentNext ==
    ASSUME IInv, CCTypeOK', JournalStep, PollerStep, RowStep
    PROVE  AbsentOK'
<1> SUFFICES ASSUME row'[Msg].state = "absent"
             PROVE  Created' = {} /\ poller'.phase \in {"idle", "leased"}
    BY DEF AbsentOK
<1>1. row[Msg].state = "absent"
    BY DEF RowStep, SameRow, Taken, AckedNow, Lost, BecomesOpen
<1>2. Created = {} /\ poller.phase \in {"idle", "leased"}
    BY <1>1 DEF IInv, AbsentOK
<1>3. Created' = {}
    BY <1>1, <1>2 DEF JournalStep, Asked, Released, Declined, Retried, ClaimedBy
<1>4. poller'.phase \in {"idle", "leased"}
    <2>1. cloud'.claim \in 0..MaxClaims
        BY DEF CCTypeOK
    <2> QED
        BY <1>1, <1>2, <1>3, <2>1, IdleFits, LeasedFits DEF PollerStep, Retrying
<1> QED
    BY <1>3, <1>4

LEMMA NewerNext ==
    ASSUME IInv, CCTypeOK', JournalStep, CloudStep, MetadataStep
    PROVE  NewerOK'
<1> SUFFICES ASSUME metadata' # 0, NEW i \in Created', ops'[i].claim > metadata'
             PROVE  ops'[i].kind \in {"ack", "decline"}
    BY DEF NewerOK
<1>0. ops'[i].claim \in Nat /\ cloud.claim \in Nat /\ metadata \in Nat
    BY OpenAfter, CloudClaimGrows DEF Op, Claims
<1>1. CASE i \in Created
    <2>1. ops'[i] = ops[i] /\ ops[i].claim <= cloud.claim
        BY <1>1, OpenAfter DEF IInv, OpsOK
    <2>2. CASE metadata' = metadata
        BY <1>1, <2>1, <2>2 DEF IInv, NewerOK
    <2>3. CASE metadata' = poller.claim /\ poller.phase = "leased"
        BY <1>0, <2>1, <2>3, PollerFacts
    <2> QED
        BY <2>2, <2>3 DEF MetadataStep
<1>2. CASE Asked(i) \/ Released(i)
    BY <1>0, <1>2 DEF Asked, Released
<1>3. CASE Declined(i) \/ Retried(i)
    BY <1>3 DEF Declined, Retried
<1> QED
    BY <1>1, <1>2, <1>3 DEF JournalStep

LEMMA AppliedNext ==
    ASSUME IInv, JournalStep, CloudStep
    PROVE  AppliedOK'
BY DEF AppliedOK, IInv, CCTypeOK, JournalStep, CloudStep

\* A new operation that would end a claim finds no other one of that claim.
LEMMA NewTerminal ==
    ASSUME IInv, JournalStep, NEW i \in Created' \ Created, ops'[i].kind \in Terminal,
           NEW j \in Open, ops[j].kind \in Terminal
    PROVE  ops[j].claim # ops'[i].claim
<1>1. CASE Asked(i) \/ Released(i)
    BY <1>1 DEF Asked, Released, OpenOf
<1>2. CASE Retried(i)
    <2>1. /\ ops'[i].claim = poller.claim /\ OpenOf({"ack"}, poller.claim) = {}
          /\ poller.phase = "retrying" /\ RetryUsable(poller.base)
        BY <1>2 DEF Retried
    <2>2. /\ poller.base \in Created /\ ops[poller.base].kind = "ack"
          /\ poller.claim = cloud.claim /\ poller.claim # 0
        BY <2>1, PollerFacts DEF IInv, PollerOK
    <2>3. metadata = ops[poller.base].claim /\ poller.base \in pending \cup done
        BY <2>1 DEF RetryUsable
    <2>4. CASE ops[j].kind = "ack"
        BY <2>1, <2>4 DEF OpenOf
    <2>5. CASE ops[j].kind = "release" /\ ops[j].claim = poller.claim
        <3>1. j \in Created /\ metadata \in Nat /\ ops[j].claim \in Nat /\ metadata # 0
            <4>1. j \in Created /\ ops[j] \in Op /\ ops[poller.base] \in Op
                BY <2>2, CreatedOps DEF IInv, CCTypeOK, Open
            <4> QED
                BY <2>3, <4>1 DEF Op, Claims
        <3>2. metadata <= cloud.claim /\ cloud.claim \in Nat
            BY CloudAssumption DEF IInv, OpsOK, CCTypeOK
        <3>3. ~(ops[j].claim > metadata)
            BY <2>5, <3>1 DEF IInv, NewerOK
        <3>4. metadata = poller.claim
            BY <2>2, <2>5, <3>1, <3>2, <3>3
        <3>5. CASE poller.base \in done
            BY <2>2, <2>3, <2>5, <3>4, <3>5 DEF IInv, DoneOK
        <3>6. CASE poller.base \in Open
            BY <2>1, <2>2, <2>3, <3>4, <3>6 DEF OpenOf
        <3> QED
            BY <2>3, <3>5, <3>6 DEF Open
    <2> QED
        BY <2>1, <2>4, <2>5 DEF Terminal
<1>3. ~Declined(i)
    BY DEF Declined, Terminal
<1> QED
    BY <1>1, <1>2, <1>3 DEF JournalStep

LEMMA OneTerminalNext ==
    ASSUME IInv, CCTypeOK', JournalStep
    PROVE  OneTerminalPerClaim'
<1> SUFFICES ASSUME NEW i \in Open', NEW j \in Open',
                    ops'[i].kind \in Terminal, ops'[j].kind \in Terminal,
                    ops'[i].claim = ops'[j].claim, i # j
             PROVE  FALSE
    BY DEF OneTerminalPerClaim
<1>1. CASE i \in Open /\ j \in Open
    BY <1>1, OpenAfter DEF IInv, OneTerminalPerClaim
<1>2. CASE i \in Open /\ j \in Created' \ Created
    BY <1>2, OpenAfter, NewTerminal
<1>3. CASE j \in Open /\ i \in Created' \ Created
    BY <1>3, OpenAfter, NewTerminal
<1> QED
    BY <1>1, <1>2, <1>3, OpenAfter DEF JournalStep

LEMMA DoneNext ==
    ASSUME IInv, CCTypeOK', OneTerminalPerClaim', JournalStep, DoneStep, CallStep, RepairStep,
           RowStep
    PROVE  DoneOK'
<1>0. pending \subseteq Created /\ done \subseteq Created /\ repair.todo \subseteq Created
    BY DEF IInv, CCTypeOK
<1>1. ASSUME NEW i \in done', ops'[i].kind = "ack"
      PROVE  row'[Msg].state = "acked"
    <2>1. i \in Created' /\ (i \in done => i \in Created)
        BY <1>0 DEF CCTypeOK
    <2>2. CASE i \in done
        <3>1. row[Msg].state = "acked"
            BY <1>1, <2>1, <2>2, OpenAfter DEF IInv, DoneOK
        <3> QED
            BY <3>1 DEF RowStep, SameRow, Taken, AckedNow, Lost
    <2>3. CASE i \in Created /\ i \notin done
        BY <1>1, <2>3, OpenAfter DEF DoneStep
    <2>4. CASE i \notin Created
        <3>1. i \notin done
            BY <2>4, <1>0
        <3> QED
            BY <1>1, <2>1, <2>4, <3>1 DEF JournalStep, Asked, Released, Declined, Retried
    <2> QED
        BY <2>2, <2>3, <2>4
<1>2. ASSUME NEW i \in done' \cup repair'.todo, NEW j \in Open', ops'[i].kind = "ack",
             ops'[j].kind = "release", ops'[i].claim = ops'[j].claim
      PROVE  FALSE
    <2>1. i \notin Open'
        BY <1>2 DEF OneTerminalPerClaim, Terminal
    <2>2. i \in done' \/ i \in repair.todo
        BY <1>2, <2>1 DEF RepairStep, Open
    \* i is not new: what is new is not done, unless it is a release.
    <2>3. i \in Created
        BY <1>0, <1>2, <2>2 DEF JournalStep, Asked, Released, Declined, Retried, CCTypeOK
    <2>4. ops'[i] = ops[i]
        BY <2>3, OpenAfter
    <2>5. CASE j \in Open
        <3>1. ops'[j] = ops[j] /\ j \in Created
            BY <2>5, OpenAfter
        <3>2. i \notin done \cup repair.todo
            BY <1>2, <2>4, <2>5, <3>1 DEF IInv, DoneOK
        <3>3. i \notin Open
            BY <1>2, <2>4, <2>5, <3>1 DEF IInv, OneTerminalPerClaim, Terminal
        <3>4. RetryDone(i)
            BY <1>2, <2>2, <2>3, <2>4, <3>2, <3>3 DEF DoneStep
        <3>5. /\ ops[i].claim = cloud.claim /\ poller.base \in Created /\ i # 0
              /\ ops[poller.base].kind = "ack" /\ metadata = ops[poller.base].claim
              /\ poller.base \in pending \cup done
            BY <2>3, <3>4, PollerFacts DEF RetryDone, IInv, PollerOK, Created, OpIds
        <3>6. metadata \in Nat /\ metadata # 0 /\ ops[j].claim \in Nat
            <4>1. ops[poller.base] \in Op /\ ops[j] \in Op
                BY <3>1, <3>5, OpenAfter
            <4> QED
                BY <3>5, <4>1 DEF Op, Claims
        <3>7. ~(ops[j].claim > metadata) /\ metadata <= cloud.claim /\ cloud.claim \in Nat
            BY <1>2, <3>1, <3>6, CloudAssumption DEF IInv, NewerOK, OpsOK, CCTypeOK
        <3>8. ops[poller.base].claim = ops[j].claim
            BY <1>2, <2>4, <3>1, <3>5, <3>6, <3>7
        <3>9. poller.base \notin done
            BY <1>2, <2>5, <3>1, <3>5, <3>8 DEF IInv, DoneOK
        <3>10. poller.base \in Open /\ poller.base # j
            BY <1>2, <3>1, <3>5, <3>9 DEF Open
        <3> QED
            BY <1>2, <2>5, <3>1, <3>5, <3>8, <3>10 DEF IInv, OneTerminalPerClaim, Terminal
    <2>6. CASE j \in Created' \ Created
        <3>1. Asked(j) \/ Released(j)
            BY <1>2, <2>6 DEF JournalStep, Declined, Retried
        <3>2. row[Msg].state = "claimed" /\ done' \subseteq done \cup {j} /\ ~repair'.on
            BY <3>1 DEF Asked, Released, ClaimedBy, BusFree
        <3>3. i \notin done
            BY <1>2, <2>4, <3>2 DEF IInv, DoneOK
        <3>4. i \in repair'.todo
            BY <1>2, <2>3, <2>6, <3>2, <3>3
        <3> QED
            BY <3>1, <3>2, <3>4 DEF RepairStep, Asked, IInv, RepairOK, BusFree
    <2> QED
        BY <2>5, <2>6, OpenAfter
<1>3. Called' \cap pending' \cap done' = {}
    <2> SUFFICES ASSUME NEW i \in Called', i \in pending', i \in done'
                 PROVE  FALSE
        OBVIOUS
    <2>1. i # 0 /\ i \in Created'
        BY OpenAfter DEF CCTypeOK
    <2>2. i \in done
        BY <2>1 DEF CallStep
    <2>3. i \in Called
        BY <2>1, <2>2 DEF CallStep
    <2>4. i \in pending
        BY <1>0, <2>2 DEF JournalStep
    <2> QED
        BY <2>2, <2>3, <2>4 DEF IInv, DoneOK
<1> QED
    BY <1>1, <1>2, <1>3 DEF DoneOK

LEMMA EndingNext ==
    ASSUME IInv, CCTypeOK', JournalStep, MetadataStep
    PROVE  EndingOK'
<1> SUFFICES ASSUME ~TwoAcks'
             PROVE  /\ \A i, j \in Open' :
                         ops'[i].kind \in Terminal /\ ops'[j].kind \in Terminal =>
                             ops'[i].claim = ops'[j].claim
                    /\ \A i \in Open' : ops'[i].kind \in Terminal => metadata' \in {0, ops'[i].claim}
    BY DEF EndingOK
<1>1. /\ \A i, j \in Open : ops[i].kind \in Terminal /\ ops[j].kind \in Terminal =>
                                ops[i].claim = ops[j].claim
      /\ \A i \in Open : ops[i].kind \in Terminal => metadata \in {0, ops[i].claim}
    BY OpenAfter DEF IInv, EndingOK
<1>2. ASSUME NEW i \in Created' \ Created, ops'[i].kind \in Terminal
      PROVE  metadata # 0 /\ ops'[i].claim = metadata /\ metadata' = metadata
    <2>1. CASE Asked(i) \/ Released(i)
        BY <2>1 DEF Asked, Released
    <2>2. CASE Retried(i)
        <3>1. /\ ops'[i].kind = "ack" /\ poller.base \in Created
              /\ ops[poller.base].kind = "ack" /\ metadata = ops[poller.base].claim
              /\ metadata' = metadata
            BY <2>2, PollerFacts DEF Retried, RetryUsable
        <3>2. ops'[poller.base] = ops[poller.base] /\ poller.base \in Created'
            BY <3>1, OpenAfter
        <3>3. ops'[i].claim = metadata
            BY <1>2, <3>1, <3>2 DEF TwoAcks
        <3>4. ops[poller.base] \in Op
            BY <3>1, OpenAfter
        <3> QED
            BY <3>1, <3>3, <3>4 DEF Op, Claims
    <2> QED
        BY <1>2, <2>1, <2>2 DEF JournalStep, Declined, Terminal
<1>3. ASSUME NEW i \in Open', ops'[i].kind \in Terminal
      PROVE  metadata' \in {0, ops'[i].claim}
    <2>1. CASE i \in Created' \ Created
        BY <1>2, <1>3, <2>1
    <2>2. CASE i \in Open
        <3>1. ops'[i] = ops[i] /\ i \in Created
            BY <2>2, OpenAfter
        <3>2. metadata \in {0, ops[i].claim}
            BY <1>1, <1>3, <2>2, <3>1
        <3>3. CASE metadata' \notin {0, metadata}
            <4>1. row[Msg].state # "absent"
                BY <3>1 DEF IInv, AbsentOK
            <4>2. metadata # 0 /\ OpenOf(Terminal, metadata) = {}
                BY <3>3, <4>1 DEF MetadataStep
            <4> QED
                BY <1>3, <2>2, <3>1, <3>2, <4>2 DEF OpenOf
        <3> QED
            BY <3>1, <3>2, <3>3
    <2> QED
        BY <2>1, <2>2, OpenAfter
<1>4. ASSUME NEW i \in Open', NEW j \in Open',
             ops'[i].kind \in Terminal, ops'[j].kind \in Terminal
      PROVE  ops'[i].claim = ops'[j].claim
    <2>1. CASE i \in Open /\ j \in Open
        BY <1>1, <1>4, <2>1, OpenAfter
    <2>2. CASE i \in Created' \ Created \/ j \in Created' \ Created
        BY <1>2, <1>3, <1>4, <2>2
    <2> QED
        BY <2>1, <2>2, OpenAfter
<1> QED
    BY <1>3, <1>4

LEMMA RepairNextOK ==
    ASSUME IInv, CCTypeOK', JournalStep, MetadataStep, RepairStep, RowStep
    PROVE  RepairOK'
<1>1. repair'.on \/ repair'.todo = {}
    BY DEF RepairStep, IInv, RepairOK
<1>2. ASSUME repair'.on, ~repair'.blocked, NEW i \in Open',
             ops'[i].kind \in {"ack", "release", "renew"}, i \notin repair'.todo
      PROVE  /\ repair.on /\ ~repair.blocked
             /\ i \notin repair.todo
             /\ i \notin Created => Retried(i)
    <2>1. repair'.todo # pending'
        BY <1>2 DEF Open
    <2>2. repair.on /\ ~repair.blocked
        BY <1>2, <2>1 DEF RepairStep
    <2>3. i \in Created => ops'[i] = ops[i]
        BY OpenAfter
    <2>4. i \notin repair.todo
        BY <1>2, <2>1, <2>3 DEF RepairStep, IInv, CCTypeOK
    <2>5. i \notin Created => Retried(i)
        BY <1>2, <2>2, OpenAfter DEF JournalStep, Asked, Released, Declined, BusFree
    <2> QED
        BY <2>2, <2>4, <2>5
<1>3. ASSUME repair'.on, ~repair'.blocked, NEW i \in Open', ops'[i].kind = "renew"
      PROVE  i \in repair'.todo
    <2> SUFFICES ASSUME i \notin repair'.todo PROVE FALSE
        OBVIOUS
    <2>1. /\ repair.on /\ ~repair.blocked /\ i \notin repair.todo
          /\ i \notin Created => Retried(i)
        BY <1>2, <1>3
    <2>2. i \in Created
        BY <1>3, <2>1 DEF Retried
    <2>3. i \in Open /\ ops[i].kind = "renew"
        BY <1>3, <2>2, OpenAfter
    <2> QED
        BY <2>1, <2>3 DEF IInv, RepairOK
<1>4. ASSUME repair'.on, ~repair'.blocked, row'[Msg].state = "claimed",
             NEW i \in Open', ops'[i].kind \in Terminal, i \notin repair'.todo
      PROVE  IF metadata' = 0 THEN TwoAcks' ELSE ops'[i].claim # metadata'
    <2>1. /\ repair.on /\ ~repair.blocked /\ i \notin repair.todo
          /\ i \notin Created => Retried(i)
        BY <1>2, <1>4 DEF Terminal
    <2>2. row[Msg].state = "claimed"
        BY <1>4, <2>1 DEF RowStep, SameRow, Taken, AckedNow, Lost, BecomesOpen, BusFree
    <2>3. metadata' = metadata \/ (metadata' = 0 /\ UNCHANGED ops)
        BY <2>1 DEF MetadataStep, BusFree
    <2>4. CASE i \in Created
        <3>1. i \in Open /\ ops'[i] = ops[i]
            BY <2>4, OpenAfter
        <3>2. IF metadata = 0 THEN TwoAcks ELSE ops[i].claim # metadata
            BY <1>4, <2>1, <2>2, <3>1 DEF IInv, RepairOK
        <3>3. TwoAcks \/ metadata \in {0, ops[i].claim}
            BY <1>4, <3>1 DEF IInv, EndingOK
        <3> QED
            BY <2>3, <3>1, <3>2, <3>3, OpenAfter
    <2>5. CASE i \notin Created
        <3>1. /\ ops'[i].claim = poller.claim /\ OpenOf({"ack"}, poller.claim) = {}
              /\ poller.base \in Created /\ ops[poller.base].kind = "ack"
              /\ metadata = ops[poller.base].claim /\ metadata' = metadata
              /\ poller.base \in pending \cup done
            BY <2>1, <2>5, PollerFacts DEF Retried, RetryUsable
        <3>2. metadata # 0
            BY <3>1, OpenAfter DEF Op, Claims
        <3>3. poller.base \in Open
            BY <2>2, <3>1 DEF IInv, DoneOK, Open
        <3>4. metadata # poller.claim
            BY <3>1, <3>3 DEF OpenOf
        <3> QED
            BY <3>1, <3>2, <3>4
    <2> QED
        BY <2>4, <2>5
<1> QED
    BY <1>1, <1>3, <1>4 DEF RepairOK

LEMMA RenewNext ==
    ASSUME IInv, CCTypeOK', JournalStep, MetadataStep, RowStep
    PROVE  RenewOK'
<1> SUFFICES ASSUME NEW i \in Open', ops'[i].kind = "renew", ops'[i].claim = metadata'
             PROVE  \/ row'[Msg].state = "claimed" /\ row'[Msg].holder = ops'[i].holder
                    \/ \E j \in Created' : /\ ops'[j].kind \in Terminal
                                           /\ ops'[j].holder = ops'[i].holder
    BY DEF RenewOK, ClaimedBy
<1>0. ops'[i] \in Op /\ ops'[i].claim # 0
    BY OpenAfter DEF Op, Claims
<1>1. CASE i \notin Created
    <2>1. Asked(i)
        BY <1>1, OpenAfter DEF JournalStep, Released, Declined, Retried
    <2> QED
        BY <2>1 DEF Asked, ClaimedBy
<1>2. CASE i \in Created
    <2>1. i \in Open /\ ops'[i] = ops[i]
        BY <1>2, OpenAfter
    <2>2. metadata = metadata'
        <3>1. CASE metadata' = poller.claim /\ poller.phase = "leased" /\ metadata' # metadata
            <4>1. row[Msg].state # "absent"
                BY <1>2 DEF IInv, AbsentOK
            <4>2. metadata # 0
                BY <1>0, <3>1, <4>1 DEF MetadataStep
            <4>3. metadata <= cloud.claim /\ metadata' = cloud.claim
                BY <3>1, PollerFacts DEF IInv, OpsOK
            <4>4. metadata \in Nat /\ cloud.claim \in Nat
                BY CloudAssumption DEF IInv, CCTypeOK
            <4>5. ops[i].claim > metadata
                BY <2>1, <3>1, <4>3, <4>4
            <4> QED
                BY <1>2, <2>1, <4>2, <4>5 DEF IInv, NewerOK
        <3> QED
            BY <1>0, <3>1 DEF MetadataStep
    <2>3. \/ ClaimedBy(Msg, ops[i].holder)
          \/ \E j \in Created : ops[j].kind \in Terminal /\ ops[j].holder = ops[i].holder
        BY <2>1, <2>2 DEF IInv, RenewOK
    <2>4. ASSUME NEW j \in Created, ops[j].kind \in Terminal, ops[j].holder = ops[i].holder
          PROVE  \E k \in Created' : /\ ops'[k].kind \in Terminal
                                     /\ ops'[k].holder = ops'[i].holder
        BY <2>1, <2>4, OpenAfter
    <2>5. CASE ClaimedBy(Msg, ops[i].holder)
        <3>1. CASE SameRow
            BY <2>1, <2>5, <3>1 DEF SameRow, ClaimedBy
        <3>2. CASE AckedNow
            BY <2>4, <2>5, <3>2 DEF AckedNow, ClaimedBy, Terminal
        <3>3. CASE Lost
            BY <2>1, <2>2, <2>4, <2>5, <3>3 DEF Lost
        <3> QED
            BY <2>5, <3>1, <3>2, <3>3 DEF RowStep, Taken, ClaimedBy
    <2> QED
        BY <2>3, <2>4, <2>5
<1> QED
    BY <1>1, <1>2

LEMMA AgreedNext ==
    ASSUME IInv, CCTypeOK', JournalStep, CloudStep, DoneStep, RowStep
    PROVE  AckAgreed'
<1>1. ASSUME row'[Msg].state = "acked", row'[Msg].holder # None
      PROVE  cloud'.status = "acked"
    <2>1. CASE row[Msg].state = "acked" /\ row[Msg].holder # None
        BY <2>1 DEF IInv, AckAgreed, CloudStep
    <2> QED
        BY <1>1, <2>1 DEF RowStep, SameRow, Taken, AckedNow, Lost, BecomesOpen
<1>2. ASSUME NEW i \in done', ops'[i].kind = "ack"
      PROVE  cloud'.status = "acked"
    <2>1. i \in Created' /\ done \subseteq Created
        BY DEF IInv, CCTypeOK
    <2>2. CASE i \in done
        BY <1>2, <2>1, <2>2, OpenAfter DEF IInv, AckAgreed, CloudStep
    <2>3. CASE i \in Created \ done
        BY <1>2, <2>3, OpenAfter DEF DoneStep
    <2>4. CASE i \notin Created
        BY <1>2, <2>1, <2>4 DEF JournalStep, Asked, Released, Declined, Retried
    <2> QED
        BY <2>2, <2>3, <2>4
<1> QED
    BY <1>1, <1>2 DEF AckAgreed

LEMMA PinsNext ==
    ASSUME IInv, CCTypeOK', JournalStep, RowStep
    PROVE  PendingAckPins'
<1> SUFFICES ASSUME NEW i \in Open', ops'[i].kind = "ack"
             PROVE  \/ row'[Msg].state \in {"claimed", "acked"} /\ row'[Msg].holder = ops'[i].holder
                    \/ \E j \in Created' : ops'[j].kind = "ack" /\ ops'[j].claim # ops'[i].claim
    BY DEF PendingAckPins
<1>1. CASE i \notin Created
    <2>1. Asked(i) \/ Retried(i)
        BY <1>1, OpenAfter DEF JournalStep, Released, Declined
    <2>2. CASE Asked(i)
        BY <2>2 DEF Asked, ClaimedBy
    <2>3. CASE Retried(i)
        <3>1. /\ ops'[i].holder = ops[poller.base].holder /\ ops[poller.base].kind = "ack"
              /\ Reflected(poller.base) \/ ClaimedBy(Msg, ops[poller.base].holder)
              /\ row' = row
            BY <2>3, PollerFacts DEF Retried, RetryUsable
        <3> QED
            BY <3>1 DEF Reflected, ClaimedBy
    <2> QED
        BY <2>1, <2>2, <2>3
<1>2. CASE i \in Created
    <2>1. i \in Open /\ ops'[i] = ops[i] /\ ops[i].kind = "ack"
        BY <1>2, OpenAfter
    <2>2. ASSUME NEW j \in Created, ops[j].kind = "ack", ops[j].claim # ops[i].claim
          PROVE  \E k \in Created' : ops'[k].kind = "ack" /\ ops'[k].claim # ops'[i].claim
        BY <2>1, <2>2, OpenAfter
    <2>3. CASE TwoAcks
        BY <2>2, <2>3 DEF TwoAcks
    <2>4. CASE row[Msg].state \in {"claimed", "acked"} /\ row[Msg].holder = ops[i].holder /\ ~TwoAcks
        BY <2>1, <2>4, OpenAfter DEF RowStep, SameRow, Taken, AckedNow, ClaimedBy, Lost
    <2> QED
        BY <2>1, <2>2, <2>3, <2>4 DEF IInv, PendingAckPins
<1> QED
    BY <1>1, <1>2

LEMMA ForgottenNext ==
    ASSUME IInv, CCTypeOK', JournalStep, CloudStep, MetadataStep, PollerStep
    PROVE  NoClaimForgotten'
<1> DEFINE Ends == \E i \in Created' : ops'[i].kind # "renew" /\ ops'[i].claim = cloud'.claim
<1> SUFFICES ASSUME cloud'.status = "leased", metadata' # 0,
                    cloud'.claim # poller'.claim, cloud'.claim # metadata'
             PROVE  Ends
    BY DEF NoClaimForgotten
<1>0. cloud'.claim \in 0..MaxClaims /\ poller \in PollerRecord(Created)
    BY PollerFacts DEF CCTypeOK
<1>1. poller' # Leased(cloud'.claim) /\ poller' # Declining(cloud'.claim)
    BY <1>0, LeasedFits
<1>2. cloud'.claim = cloud.claim /\ cloud.status = "leased"
    BY <1>1 DEF CloudStep
<1>3. metadata' = metadata
    BY <1>2, PollerFacts DEF MetadataStep
<1>4. ASSUME NEW i \in Created, ops[i].kind # "renew", ops[i].claim = cloud.claim
      PROVE  Ends
    BY <1>2, <1>4, OpenAfter
<1>5. CASE poller.claim = cloud.claim
    <2>1. poller'.claim # poller.claim
        BY <1>2, <1>5
    <2>2. \A i : Begun(i) \/ Retrying(i) => poller'.claim = poller.claim
        BY <1>0 DEF Begun, Retrying, PollerRecord
    <2>3. poller' = Idle /\ HandedOver
        BY <1>1, <2>1, <2>2 DEF PollerStep
    <2>4. poller.claim # 0
        BY <2>1, <2>3, IdleFits
    <2> QED
        BY <1>2, <1>3, <1>4, <1>5, <2>3, <2>4 DEF HandedOver
<1>6. CASE poller.claim # cloud.claim
    BY <1>2, <1>3, <1>4, <1>6 DEF IInv, NoClaimForgotten
<1> QED
    BY <1>5, <1>6

LEMMA InvInit == CCInit => IInv
<1> SUFFICES ASSUME CCInit PROVE IInv
    OBVIOUS
<1>a. StoreInit /\ TypeOK
    <2>1. StoreInit
        BY DEF CCInit
    <2> QED
        BY <2>1, StoreAssumption
        DEF StoreInit, TypeOK, Row, Cleared, NoEntry, OutboxEntry, Messages
<1>b. RowsCoherent
    BY <1>a, InitHolds
<1>c. row[Msg] = Cleared("absent")
    BY <1>a, OneMessage DEF StoreInit
<1>0. /\ cloud = [status |-> "open", claim |-> 0] /\ metadata = 0
      /\ ops = [i \in OpIds |-> NoOp] /\ pending = {} /\ done = {}
      /\ applied = {} /\ loose = {} /\ calls = NoCalls /\ poller = Idle
      /\ running = Sessions /\ repair = NoRepair /\ starts = 0
    BY DEF CCInit
<1>1. Created = {} /\ Open = {}
    BY <1>0 DEF Created, Open
<1>2. row[Msg].state = "absent" /\ row[Msg].holder = None
    BY <1>c DEF Cleared
<1>3. cloud.claim = 0 /\ cloud.status = "open"
    BY <1>0
<1>4. Called \subseteq {0}
    BY <1>0, IdleFits DEF Called, NoCalls
<1>5. CCTypeOK
    <2>1. poller \in PollerRecord(Created) /\ repair \in RepairRecord(Created)
        BY <1>0, IdleFits
    <2>2. cloud \in [status : {"open", "leased", "acked"}, claim : 0..MaxClaims]
        BY <1>0, CloudAssumption
    <2>3. starts \in 0..MaxStarts /\ metadata \in 0..MaxClaims
        BY <1>0, CloudAssumption
    <2>4. Typed(Created)
        BY <1>0, <1>1, <2>1 DEF Typed, NoCalls
    <2> QED
        BY <1>0, <1>a, <2>2, <2>3, <2>4, TypeParts
<1>6. OpsOK /\ NewerOK /\ AppliedOK /\ EndingOK /\ RenewOK /\ OneTerminalPerClaim
      /\ AckAgreed /\ PendingAckPins /\ NoClaimForgotten
    BY <1>0, <1>1, <1>2, <1>3
    DEF OpsOK, NewerOK, AppliedOK, EndingOK, RenewOK, OneTerminalPerClaim, AckAgreed,
        PendingAckPins, NoClaimForgotten
<1>7. PollerOK /\ RepairOK
    BY <1>0, <1>1, <1>3, IdleFits DEF PollerOK, RepairOK
<1>8. AbsentOK /\ DoneOK
    BY <1>0, <1>1, <1>2, <1>4, IdleFits DEF AbsentOK, DoneOK
<1> QED
    BY <1>b, <1>5, <1>6, <1>7, <1>8 DEF IInv

LEMMA InvStep == IInv /\ [CCNext]_ccVars => IInv'
<1> SUFFICES ASSUME IInv, [CCNext]_ccVars PROVE IInv'
    OBVIOUS
<1>1. /\ CCTypeOK' /\ RowsCoherent'
      /\ JournalStep /\ CloudStep /\ MetadataStep /\ DoneStep /\ CallStep
      /\ RepairStep /\ PollerStep /\ RowStep
    BY Steps
<1>2. OneTerminalPerClaim'
    BY <1>1, OneTerminalNext
<1>3. DoneOK'
    BY <1>1, <1>2, DoneNext
<1>4. OpsOK' /\ PollerOK' /\ AbsentOK'
    BY <1>1, OpsNext, PollerNextOK, AbsentNext
<1>5. NewerOK' /\ AppliedOK' /\ EndingOK'
    BY <1>1, NewerNext, AppliedNext, EndingNext
<1>6. RepairOK' /\ RenewOK'
    BY <1>1, RepairNextOK, RenewNext
<1>7. AckAgreed' /\ PendingAckPins' /\ NoClaimForgotten'
    BY <1>1, AgreedNext, PinsNext, ForgottenNext
<1> QED
    BY <1>1, <1>2, <1>3, <1>4, <1>5, <1>6, <1>7 DEF IInv

\* The inductive invariant holds in every reachable state.
THEOREM ClaimsInvariant == CCSpec => []IInv
BY InvInit, InvStep, PTL DEF CCSpec

-----------------------------------------------------------------------------
(* Results. *)

\* Every variable of the daemon and of the cloud keeps its type: in particular no
\* operation id in the journal, the archive or a call is without its operation.
THEOREM ClaimsTypeCorrect == CCSpec => []CCTypeOK
<1>1. IInv => CCTypeOK
    BY DEF IInv
<1> QED
    BY <1>1, ClaimsInvariant, PTL

\* The daemon believes in an ack only when the cloud has agreed to it, through
\* crashes, lost answers, refusals, replays and retries under another claim.
THEOREM AcksAreAgreed == CCSpec => []AckAgreed
<1>1. IInv => AckAgreed
    BY DEF IInv
<1> QED
    BY <1>1, ClaimsInvariant, PTL

\* Two operations that would end the same claim are never open together, whoever
\* asks: requests, the repair, a session's end and the poller's retry.
THEOREM TerminalsDoNotRace == CCSpec => []OneTerminalPerClaim
<1>1. IInv => OneTerminalPerClaim
    BY DEF IInv
<1> QED
    BY <1>1, ClaimsInvariant, PTL

\* While an ack that was not retried is open, its holder keeps the delivery.
THEOREM AcksPinTheirHolder == CCSpec => []PendingAckPins
<1>1. IInv => PendingAckPins
    BY DEF IInv
<1> QED
    BY <1>1, ClaimsInvariant, PTL

\* An open renew of the message's claim is its holder's, unless an operation of
\* the renew's own holder took the claim away.
THEOREM RenewsAreNotForeign == CCSpec => []NoForeignRenew
<1>1. IInv => NoForeignRenew
    BY DEF IInv, RenewOK, NoForeignRenew, ClaimedBy
<1> QED
    BY <1>1, ClaimsInvariant, PTL

\* A claim for which the cloud keeps the notification is in the poller's hands,
\* the message's, or that of a journaled operation that ends it.
THEOREM ClaimsAreNotForgotten == CCSpec => []NoClaimForgotten
<1>1. IInv => NoClaimForgotten
    BY DEF IInv
<1> QED
    BY <1>1, ClaimsInvariant, PTL

\* Whatever requests, poller, repair and crashes do, the store is changed by its
\* own transactions only: this composition implements the store's specification.
THEOREM ClaimsUseTheStore == CCSpec => StoreSpec
<1>1. CCInit => StoreInit
    BY DEF CCInit
<1>2. IInv /\ [CCNext]_ccVars => [StoreNext]_storeVars
    BY StoreStep DEF IInv
<1> QED
    BY <1>1, <1>2, ClaimsInvariant, PTL DEF CCSpec, StoreSpec

\* So the message keeps the promise of Inbox also with the cloud in the loop: one
\* holder at a time, no handover but through the open state, no way back from done.
THEOREM ClaimsKeepPromise == CCSpec => KeepsPromise
BY ClaimsUseTheStore, StoreKeepsPromise
=============================================================================
