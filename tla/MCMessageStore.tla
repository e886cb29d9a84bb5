--------------------------- MODULE MCMessageStore ---------------------------
(* TLC instance of the message store: sessions that compete with each other  *)
(* and with an owner, local and cloud messages, one retried idempotency key. *)
EXTENDS MessageStore, TLC

Symmetry == Permutations(Sessions) \cup Permutations(LocalMessages)
=============================================================================
