------------------------------ MODULE Subscription ------------------------------
(***************************************************************************)
(* The life of an update stream (handleSubscription in                     *)
(* server/routes/gameSubscription.go) between what lets it in, a session,  *)
(* and what waits for it to end, the shutdown of the server                *)
(* (server/main/main.go, server/http/server.go).                           *)
(*                                                                         *)
(* Each step of a handler is a call to Redis or to the shutdown package;   *)
(* its deferred calls run in turn, whatever ended it.  What a stream does  *)
(* while it is open is in GameEvents and Presence.                         *)
(***************************************************************************)
EXTENDS Sessions, Shutdown

CONSTANTS
    Streams,      \* the requests for a stream that may be served at once
    SessionOf     \* the session each is sent with

ASSUME SubscriptionAssumption ==
    /\ IsFiniteSet(Tasks)
    /\ Streams \cup {"setup", "server"} \subseteq Tasks
    /\ Streams \cap {"setup", "server"} = {}
    /\ SessionOf \in [Streams -> SessionIDs]

VARIABLES
    connected,    \* the browser's end of the connection is open
    pc,           \* what each stream's handler has done
    main,         \* where the main goroutine is: waiting (in WaitGroup.Wait), woken (from
                  \* it), returning
    http          \* the HTTP server

vars == << sessions, shutdownVars, connected, pc, main, http >>

\* On the way in: checked (the session), registered, subscribed, kept (the session
\* does not expire), open (and counted).  On the way out, what is to be done:
\* expiring, cleaning, stuck (for ever, in the clean-up), releasing.
PCs == {"closed", "checked", "registered", "subscribed", "kept", "open",
        "expiring", "cleaning", "stuck", "releasing"}

\* The goroutines that run beside the HTTP server: the dice, the exporter of traces.
Background == Tasks \ (Streams \cup {"setup", "server"})

TypeOK ==
    /\ SessionsTypeOK
    /\ ShutdownTypeOK
    /\ connected \in [Streams -> BOOLEAN]
    /\ pc \in [Streams -> PCs]
    /\ main \in {"setup", "starting", "serving", "waiting", "woken", "returning",
                 "returned", "down"}
    /\ http \in {"none", "listening", "draining", "stopped", "timedOut"}

Running == main \notin {"returned", "down"}

AllClosed == [s \in Streams |-> "closed"]

\* What main registers before it sets up the games and players.
FirstTasks == Background \cup {"setup"}

Init ==
    /\ SessionsInit
    /\ ShutdownInit(FirstTasks)
    /\ connected = [s \in Streams |-> FALSE]
    /\ pc = AllClosed
    /\ main = "setup"
    /\ http = "none"

-----------------------------------------------------------------------------
(* The handler of a stream.                                                *)

Goto(s, from, to) ==
    /\ Running
    /\ pc[s] = from
    /\ pc' = [pc EXCEPT ![s] = to]

\* A request with the ID of a session that Redis holds.
OpenStream(s) ==
    /\ http = "listening" /\ Exists(SessionOf[s])
    /\ Goto(s, "closed", "checked")
    /\ connected' = [connected EXCEPT ![s] = TRUE]
    /\ UNCHANGED << sessions, shutdownVars, main, http >>

\* The tab is closed or reloaded, or the network fails.
Disconnect(s) ==
    /\ connected[s]
    /\ connected' = [connected EXCEPT ![s] = FALSE]
    /\ UNCHANGED << sessions, shutdownVars, pc, main, http >>

RegisterStream(s) ==
    /\ Goto(s, "checked", "registered")
    /\ Register(s)
    /\ UNCHANGED << sessions, connected, main, http >>

\* The first ping cannot be written.
FailUpgrade(s) ==
    /\ ~connected[s]
    /\ Goto(s, "registered", "releasing")
    /\ UNCHANGED << sessions, shutdownVars, connected, main, http >>

Subscribe(s) ==
    /\ Goto(s, "registered", "subscribed")
    /\ UNCHANGED << sessions, shutdownVars, connected, main, http >>

\* Mutant: the time to live is set again instead of taken away.
KeepSessionExpiring(s) ==
    /\ Goto(s, "subscribed", "kept")
    /\ Expire(SessionOf[s])
    /\ UNCHANGED << shutdownVars, connected, main, http >>

\* The session may have been removed since it was checked: that is no error.
KeepSession(s) ==
    /\ Goto(s, "subscribed", "kept")
    /\ Unexpire(SessionOf[s])
    /\ UNCHANGED << shutdownVars, connected, main, http >>

\* Redis answers by an error, or not before the request is cancelled, whether or not
\* it executed the command.  That the session is to expire is not deferred yet.
FailKeepSession(s) ==
    /\ Goto(s, "subscribed", "cleaning")
    /\ Unexpire(SessionOf[s]) \/ UNCHANGED sessions
    /\ UNCHANGED << shutdownVars, connected, main, http >>

\* The player's counter is increased (Presence).
CountStream(s) ==
    /\ Goto(s, "kept", "open")
    /\ UNCHANGED << sessions, shutdownVars, connected, main, http >>

\* Mutant: the expiry of the session is deferred after the stream is counted.
FailCountStreamTooEarly(s) ==
    /\ Goto(s, "kept", "cleaning")
    /\ UNCHANGED << sessions, shutdownVars, connected, main, http >>

FailCountStream(s) ==
    /\ Goto(s, "kept", "expiring")
    /\ UNCHANGED << sessions, shutdownVars, connected, main, http >>

\* Mutant: the handler does not look whether its stream is still open.
EndByCancelOnly(s) ==
    /\ s \in cancelled
    /\ Goto(s, "open", "expiring")
    /\ UNCHANGED << sessions, shutdownVars, connected, main, http >>

\* The loop finds the connection closed (it looks every 2 seconds, and with each
\* write) or its context cancelled.  The player's counter is decreased.
End(s) ==
    /\ ~connected[s] \/ s \in cancelled
    /\ Goto(s, "open", "expiring")
    /\ UNCHANGED << sessions, shutdownVars, connected, main, http >>

LetSessionExpire(s) ==
    /\ Goto(s, "expiring", "cleaning")
    /\ Expire(SessionOf[s])
    /\ UNCHANGED << shutdownVars, connected, main, http >>

\* The error is logged.
FailLetSessionExpire(s) ==
    /\ Goto(s, "expiring", "cleaning")
    /\ UNCHANGED << sessions, shutdownVars, connected, main, http >>

\* Unsubscribe from the channels of Redis, then close the connection to it and the
\* browser's.
CleanUp(s) ==
    /\ Goto(s, "cleaning", "releasing")
    /\ connected' = [connected EXCEPT ![s] = FALSE]
    /\ UNCHANGED << sessions, shutdownVars, main, http >>

\* An error is sent on the channel that this goroutine itself was to read.
FailCleanUp(s) ==
    /\ Goto(s, "cleaning", "stuck")
    /\ UNCHANGED << sessions, shutdownVars, connected, main, http >>

\* The step that takes the wait group to 0 lets main out of its wait, whatever is
\* registered after that.
WakeMain == main' = IF main = "waiting" /\ waitGroup' = 0 THEN "woken" ELSE main

ReleaseStream(s) ==
    /\ Goto(s, "releasing", "closed")
    /\ Release(s) /\ WakeMain
    /\ connected' = [connected EXCEPT ![s] = FALSE]
    /\ UNCHANGED << sessions, http >>

-----------------------------------------------------------------------------
(* Logins, logouts and the clock.                                          *)

CreateSession(i) ==
    /\ http \in {"listening", "draining"} /\ Running
    /\ Create(i) \/ FailCreate(i)
    /\ UNCHANGED << shutdownVars, connected, pc, main, http >>

\* A logout, a session of a player who left, or /task/clear-all-sessions.  The streams
\* of the session are not told.
RemoveSession(i) ==
    /\ http \in {"listening", "draining"} /\ Running
    /\ Remove(i)
    /\ UNCHANGED << shutdownVars, connected, pc, main, http >>

\* /task/timeout-all-sessions, of each session that it has listed: in use or not.
TimeoutSession(i) ==
    /\ http \in {"listening", "draining"} /\ Running
    /\ Exists(i) /\ Expire(i)
    /\ UNCHANGED << shutdownVars, connected, pc, main, http >>

SessionTimesOut(i) ==
    /\ TimeOut(i)
    /\ UNCHANGED << shutdownVars, connected, pc, main, http >>

-----------------------------------------------------------------------------
(* The process.                                                            *)

FinishSetup ==
    /\ main = "setup" /\ main' = "starting"
    /\ Release("setup")
    /\ UNCHANGED << sessions, connected, pc, http >>

\* RunServer registers the server and listens.
StartServer ==
    /\ main = "starting" /\ main' = "serving"
    /\ http' = "listening"
    /\ Register("server")
    /\ UNCHANGED << sessions, connected, pc >>

BackgroundEnds(t) ==
    /\ Running
    /\ t \in registered \cap cancelled
    /\ Release(t) /\ WakeMain
    /\ UNCHANGED << sessions, connected, pc, http >>

GetSignal ==
    /\ Running
    /\ Interrupt /\ WakeMain
    /\ UNCHANGED << sessions, connected, pc, http >>

\* Mutant: the server is released before it has waited for its requests.
CloseListenerAndRelease ==
    /\ Running
    /\ http = "listening" /\ "server" \in cancelled
    /\ http' = "stopped"
    /\ Release("server") /\ WakeMain
    /\ UNCHANGED << sessions, connected, pc >>

\* server.Shutdown: no more requests, and it waits for those being served.
CloseListener ==
    /\ Running
    /\ http = "listening" /\ "server" \in cancelled
    /\ http' = "draining"
    /\ UNCHANGED << sessions, shutdownVars, connected, pc, main >>

\* ... until there are none, or for 10 seconds.
Drain ==
    /\ Running
    /\ http = "draining"
    /\ http' = IF pc = AllClosed THEN "stopped" ELSE "timedOut"
    /\ Release("server") /\ WakeMain
    /\ UNCHANGED << sessions, connected, pc >>

\* ListenAndServe returns once the listener is closed.  main waits, unless the wait
\* group is at 0 already.
StopServing ==
    /\ main = "serving" /\ http # "listening"
    /\ main' = IF waitGroup = 0 THEN "returning" ELSE "waiting"
    /\ UNCHANGED << sessions, shutdownVars, connected, pc, http >>

\* WaitGroup.Wait returns.  It panics when it finds, woken, that the wait group was
\* added to since it was at 0.
LeaveWait ==
    /\ main = "woken"
    /\ main' = IF waitGroup = 0 THEN "returning" ELSE "down"
    /\ UNCHANGED << sessions, shutdownVars, connected, pc, http >>

\* main returns: the process is over, with all its goroutines.
Return ==
    /\ main = "returning"
    /\ main' = "returned"
    /\ UNCHANGED << sessions, shutdownVars, connected, pc, http >>

\* The process is killed, or panics in its setup.
Crash ==
    /\ Running
    /\ main' = "down"
    /\ UNCHANGED << sessions, shutdownVars, connected, pc, http >>

Restart ==
    /\ ~Running
    /\ ShutdownRestart(FirstTasks)
    /\ connected' = [s \in Streams |-> FALSE]
    /\ pc' = AllClosed
    /\ main' = "setup"
    /\ http' = "none"
    /\ UNCHANGED sessions

-----------------------------------------------------------------------------
Next ==
    \/ \E s \in Streams :
        \/ OpenStream(s) \/ Disconnect(s)
        \/ RegisterStream(s) \/ FailUpgrade(s) \/ Subscribe(s)
        \/ KeepSession(s) \/ FailKeepSession(s)
        \/ CountStream(s) \/ FailCountStream(s)
        \/ End(s) \/ LetSessionExpire(s) \/ FailLetSessionExpire(s)
        \/ CleanUp(s) \/ FailCleanUp(s) \/ ReleaseStream(s)
    \/ \E i \in SessionIDs :
        \/ CreateSession(i) \/ RemoveSession(i) \/ TimeoutSession(i) \/ SessionTimesOut(i)
    \/ FinishSetup \/ StartServer \/ GetSignal
    \/ \E t \in Background : BackgroundEnds(t)
    \/ CloseListener \/ Drain \/ StopServing \/ LeaveWait \/ Return \/ Crash \/ Restart

Spec == Init /\ [][Next]_vars

\* A handler goes on to its next step, whichever way it turns out, and so do main and
\* the server; Redis ends what has run out.  Nobody has to open or close a
\* stream, stop the server or start it again.
Advance(s) ==
    \/ RegisterStream(s) \/ FailUpgrade(s) \/ Subscribe(s)
    \/ KeepSession(s) \/ FailKeepSession(s) \/ CountStream(s) \/ FailCountStream(s)
    \/ End(s) \/ LetSessionExpire(s) \/ FailLetSessionExpire(s)
    \/ CleanUp(s) \/ FailCleanUp(s) \/ ReleaseStream(s)

Fairness ==
    /\ \A s \in Streams : WF_vars(Advance(s))
    /\ \A i \in SessionIDs : WF_vars(SessionTimesOut(i))
    /\ \A t \in Background : WF_vars(BackgroundEnds(t))
    /\ WF_vars(FinishSetup) /\ WF_vars(StartServer) /\ WF_vars(CloseListener)
    /\ WF_vars(Drain) /\ WF_vars(StopServing) /\ WF_vars(LeaveWait) /\ WF_vars(Return)

FairSpec == Spec /\ Fairness

-----------------------------------------------------------------------------
\* main is past its wait.
Over == main \in {"woken", "returning", "returned"}

\* When main's wait is over, every stream that registered has finished its deferred
\* calls, and so has, unless the server gave up after 10 seconds, every stream that it
\* let in.  Only the requests it gave up, and no others, may still register after that,
\* and be cut off by main's return (or make its wait panic).
WaitsForStreams ==
    [][Over' => \A s \in Streams :
                    \/ pc'[s] = "closed"
                    \/ pc'[s] = "checked" /\ http' = "timedOut"
                    \/ Over /\ pc[s] # "closed" /\ http = "timedOut"]_vars

\* The handlers that have yet to start the session's expiry.
Holders(i) ==
    {s \in Streams : Running /\ SessionOf[s] = i /\ pc[s] \in {"kept", "open", "expiring"}}

\* Something will end the session, or it has ended.
Held(i) == sessions[i] = "kept" => Holders(i) # {}

\* Nothing but a failure leaves behind a session that never ends: not the order in
\* which streams of one session open and close, nor a logout, nor a shutdown, unless the
\* server gave up requests that then registered too late to be waited for.
SessionsAreHanded ==
    [][\/ Crash
       \/ http = "timedOut" /\ (LeaveWait \/ Return)
       \/ \E s \in Streams : FailKeepSession(s) \/ FailLetSessionExpire(s)
       \/ \A i \in SessionIDs : sessions[i] # "unused" /\ Held(i) => Held(i)']_vars

InUse(s) == Running /\ pc[s] \in {"kept", "open"}

Expires(s) == sessions[SessionOf[s]] = "expiring"

\* The session of a stream does not expire under it, except that another stream of the
\* same session has closed, or all sessions are told to: an opening stream undoes the
\* expiry that any stream before it began.
OnlyOthersEndUse ==
    [][\A s \in Streams :
        InUse(s)' /\ Expires(s)' =>
            \/ InUse(s) /\ Expires(s)
            \/ \E other \in Streams \ {s} :
                  SessionOf[other] = SessionOf[s] /\ LetSessionExpire(other)
            \/ TimeoutSession(SessionOf[s])]_vars

\* Once interrupted the server does stop, unless a clean-up failed: that one
\* handler waits for itself, and main for the handler.
Stops ==
    terminating ~> (~Running \/ \E s \in Streams : pc[s] = "stuck")

\* A session that is not used any more ends, if it was not left behind by a failure.
AbandonedSessionsEnd ==
    \A i \in SessionIDs :
        /\ <>[](\A s \in Streams : SessionOf[s] = i => ~connected[s])
        /\ <>[](Held(i))
        => <>[](~Exists(i))

\* docs/database.org: sessions are kept persistent while a player is actively
\* connected.
ConnectedKeepsSession ==
    \A s \in Streams :
        Running /\ pc[s] = "open" /\ connected[s] => sessions[SessionOf[s]] # "expiring"
=============================================================================
