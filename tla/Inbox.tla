------------------------------- MODULE Inbox -------------------------------
(***************************************************************************)
(* What the message store of the Comment bus promises the agents that read *)
(* from it, without leases, databases or clouds: a message arrives once,   *)
(* is open or in the hands of exactly one holder, goes from one holder to  *)
(* another only through the open state, and once done stays done.          *)
(* A message of Guarded is finished only by the holder that has it; the    *)
(* others may also be written off while they are open.                     *)
(***************************************************************************)
CONSTANTS Items, Guarded, Holders

VARIABLE where

Statuses == {"absent", "open", "held", "done"}

\* An item is a status and, while it is held, its holder.
Place == [status : Statuses, by : SUBSET Holders]

At(s) == [status |-> s, by |-> {}]
HeldBy(h) == [status |-> "held", by |-> {h}]

Init == where = [i \in Items |-> At("absent")]

Move(S, to) == where' = [i \in Items |-> IF i \in S THEN to ELSE where[i]]

\* New messages arrive together, open.
Arrive == \E S \in SUBSET Items :
            /\ \A i \in S : where[i] = At("absent")
            /\ Move(S, At("open"))

\* A holder takes an open message.
Take == \E i \in Items, h \in Holders :
            /\ where[i] = At("open")
            /\ Move({i}, HeldBy(h))

\* Holders give messages back, or lose them.
GiveBack == \E S \in SUBSET Items :
            /\ \A i \in S : where[i].status = "held"
            /\ Move(S, At("open"))

\* A held message is finished; one that is not Guarded also when it is open.
Finish == \E i \in Items :
            /\ \/ where[i].status = "held"
               \/ where[i] = At("open") /\ i \notin Guarded
            /\ Move({i}, At("done"))

Next == Arrive \/ Take \/ GiveBack \/ Finish

Spec == Init /\ [][Next]_where
=============================================================================
