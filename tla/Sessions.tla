-------------------------------- MODULE Sessions --------------------------------
(***************************************************************************)
(* The sessions of server/session/session.go: the Redis hashes            *)
(* session:<id> and their expiry.  Logins make them, update streams keep   *)
(* them (Subscription), and what becomes of players and games ends them    *)
(* (Accounts).                                                             *)
(*                                                                         *)
(* How long a time to live is does not matter here: one that runs may run  *)
(* out.                                                                    *)
(***************************************************************************)
EXTENDS Integers, FiniteSets

CONSTANT SessionIDs   \* the IDs session.New may generate, each once

VARIABLE sessions     \* what Redis holds under each ID

\* expiring: with a time to live; kept: without one.  An ID that was removed or
\* that ran out is not generated again.
SessionStates == {"unused", "expiring", "kept", "gone"}

SessionsTypeOK == sessions \in [SessionIDs -> SessionStates]

SessionsInit == sessions = [i \in SessionIDs |-> "unused"]

-----------------------------------------------------------------------------
\* session.GetByID finds it.
Exists(i) == sessions[i] \in {"expiring", "kept"}

\* EXPIRE and PERSIST do nothing to a key that does not exist.
Set(i, state) ==
    sessions' = IF Exists(i) THEN [sessions EXCEPT ![i] = state] ELSE sessions

Unexpire(i) == Set(i, "kept")
Expire(i) == Set(i, "expiring")

\* HMSET, and then EXPIRE.
Create(i) ==
    /\ sessions[i] = "unused"
    /\ sessions' = [sessions EXCEPT ![i] = "expiring"]

\* One of the two commands fails, or its answer is lost: the login is answered by
\* an error, and nobody learns the ID.
FailCreate(i) ==
    /\ sessions[i] = "unused"
    /\ \E left \in {"kept", "expiring"} : sessions' = [sessions EXCEPT ![i] = left]

\* DEL.
Remove(i) ==
    /\ Exists(i)
    /\ sessions' = [sessions EXCEPT ![i] = "gone"]

\* The time to live has run out.
TimeOut(i) ==
    /\ sessions[i] = "expiring"
    /\ sessions' = [sessions EXCEPT ![i] = "gone"]
=============================================================================
