------------------------------ MODULE ClientStream ------------------------------
(***************************************************************************)
(* The browser's end of the update stream: the EventSource, and the timer  *)
(* that makes another when it fails (web/src/sseStream/Provider.tsx).      *)
(* Both are variables of the module, whatever component asked for them.    *)
(***************************************************************************)
EXTENDS Naturals

CONSTANTS
    Targets,      \* the sessions it may be made with, one of each game
    NoTarget,     \* none of them
    NumDelays     \* the length of RETRY_DELAYS

ASSUME ClientStreamAssumption == NoTarget \notin Targets /\ NumDelays \in Nat

VARIABLES
    source,       \* the EventSource
    retryID,      \* the timer: off, or set to fire now or after some seconds
    streamOf,     \* the session they were made with
    retries,      \* the failures in a row that they know of, see Count
    connection    \* what the page shows of the connection

streamVars == << source, retryID, streamOf, retries, connection >>

Connections ==
    {"offline", "connecting", "connected", "errored", "disconnected", "retrying"}

StreamTypeOK ==
    /\ source \in {"none", "opening", "open"}
    /\ retryID \in {"off", "now", "later"}
    /\ streamOf \in Targets \cup {NoTarget}
    /\ retries \in 0 .. NumDelays + 1
    /\ connection \in Connections

StreamInit ==
    /\ source = "none" /\ retryID = "off"
    /\ streamOf = NoTarget
    /\ retries = 0

\* A count past the end of the table is as good as any other: only >, = and < the
\* length of the table are told apart.
Count(n) == IF n > NumDelays THEN NumDelays + 1 ELSE n

\* RETRY_MAX past the end of the table.  One before, RETRY_DELAYS[retries] is undefined:
\* setTimeout takes that for 0.
Delay(n) == IF n = NumDelays THEN "now" ELSE "later"

-----------------------------------------------------------------------------
\* Mutant: the timer of the stream before is left running.
ConnectKeepingTimer(target, failures) ==
    /\ source' = "opening"
    /\ streamOf' = target
    /\ retries' = failures
    /\ UNCHANGED retryID

\* connect: closes the EventSource and clears the timer there may be.
Connect(target, failures) ==
    /\ source' = "opening" /\ retryID' = "off"
    /\ streamOf' = target
    /\ retries' = failures

\* onopen: connectionSucessful will have a later error count as the first.
StreamOpens ==
    /\ source = "opening" /\ source' = "open"
    /\ retries' = 0
    /\ connection' = "connected"
    /\ UNCHANGED << retryID, streamOf >>

\* onerror: refused, not reached or lost.
StreamFails ==
    /\ source # "none" /\ source' = "none"
    /\ retryID' = Delay(retries)
    /\ connection' = IF retries > NumDelays THEN "disconnected" ELSE "retrying"
    /\ UNCHANGED << streamOf, retries >>

\* Mutant: the count stops at the end of the table.
RetryWithinTable ==
    /\ retryID # "off"
    /\ Connect(streamOf, IF retries < NumDelays THEN retries + 1 ELSE NumDelays)
    /\ connection' = "connecting"

\* The timer fires.
Retry ==
    /\ retryID # "off"
    /\ Connect(streamOf, Count(retries + 1))
    /\ connection' = "connecting"

\* clearSource and clearRetryID; a page that is loaded again has neither.
ClearStream ==
    /\ source' = "none" /\ retryID' = "off"
    /\ streamOf' = NoTarget /\ retries' = 0

\* What a request that was given setConnection shows (BackendRequest).
ShowConnection(shown) ==
    /\ connection' = shown
    /\ UNCHANGED << source, retryID, streamOf, retries >>
=============================================================================
