---------------------------- MODULE MCOutboxRelay ----------------------------
(* Instances of OutboxRelay for TLC. *)
EXTENDS OutboxRelay, TLC

Interchangeable == Permutations(Relays) \cup Permutations(Handlers)
=============================================================================
