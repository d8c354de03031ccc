--------------------------- MODULE MCIdempotency ---------------------------
(***************************************************************************)
(* Small instances of Idempotency for TLC: requests that race, retry and   *)
(* expire.  A clock of two values is enough with KeyedTtl = 0 (valid in    *)
(* the tick it is stored, expired in the next) and HashTtl = 1 (rejects in *)
(* the tick it is stored, not in the next): both sides of both boundaries  *)
(* of the code, `expiresAt < now` and `expiresAt > now`, occur.            *)
(***************************************************************************)
EXTENDS Idempotency, TLC

Symmetry == Permutations(Requests) \cup Permutations(Hashes)

\* Retries and races of one operation under Idempotency-Keys.
KeyedInit == Init /\ \A r \in Requests : call[r].key \in Keys
KeyedSpec == KeyedInit /\ [][Next]_vars
=============================================================================
