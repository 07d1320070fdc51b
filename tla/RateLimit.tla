----------------------------- MODULE RateLimit -----------------------------
(***************************************************************************)
(* The sliding-window limiter behind refills, wagers, logins and joins: a  *)
(* sorted set of admitted attempts scored by Redis TIME.  A log maps every *)
(* attempt to the instant it was admitted, or to None if it is not a       *)
(* member.  rate_limit.lua runs alone, so each of its lines is an operator *)
(* on the log rather than a step.                                          *)
(***************************************************************************)
EXTENDS Integers, FiniteSets

CONSTANT None

Members(log) == {k \in DOMAIN log : log[k] # None}

\* Mutant: the range to remove ends one millisecond late.
PruneTooMuch(log, now, window) ==
  [k \in DOMAIN log |-> IF log[k] # None /\ log[k] > now - window + 1 THEN log[k] ELSE None]

\* Mutant: the range to remove is open at its end.
PruneTooLittle(log, now, window) ==
  [k \in DOMAIN log |-> IF log[k] # None /\ log[k] >= now - window THEN log[k] ELSE None]

\* ZREMRANGEBYSCORE
Prune(log, now, window) ==
  [k \in DOMAIN log |-> IF log[k] # None /\ log[k] > now - window THEN log[k] ELSE None]

Full(log, limit) == Cardinality(Members(log)) >= limit

\* A full window has room again when its oldest member is pruned; a limit of
\* zero never has, and the script says a whole window.
ResetAt(log, now, window) ==
  IF Members(log) = {} THEN now + window
  ELSE window + (CHOOSE t \in {log[k] : k \in Members(log)} :
                   \A k \in Members(log) : t <= log[k])

RetryAt(log, now, window) ==
  LET resetAt == ResetAt(log, now, window) IN
  IF resetAt <= now THEN now + 1 ELSE resetAt

\* ZADD
Admit(log, k, now) == [log EXCEPT ![k] = now]

\* Store.Revoke
Remove(log, k) == [log EXCEPT ![k] = None]
=============================================================================
