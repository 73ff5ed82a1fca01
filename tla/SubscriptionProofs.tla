--------------------------- MODULE SubscriptionProofs ---------------------------
(***************************************************************************)
(* What the shutdown of Subscription waits for, with any number of streams *)
(* and background tasks.                                                   *)
(***************************************************************************)
EXTENDS Subscription, FiniteSetTheorems, TLAPS

-----------------------------------------------------------------------------
(* The invariant.                                                          *)

Types ==
    /\ SessionsTypeOK
    /\ registered \subseteq Tasks
    /\ cancelled \subseteq Tasks
    /\ terminating \in BOOLEAN
    /\ connected \in [Streams -> BOOLEAN]
    /\ pc \in [Streams -> PCs]
    /\ main \in {"setup", "starting", "serving", "waiting", "woken", "returning",
                 "returned", "down"}
    /\ http \in {"none", "listening", "draining", "stopped", "timedOut"}

\* The wait group counts the table, and its own goroutine until the interrupt.
CountInv == waitGroup = Cardinality(registered) + (IF terminating THEN 0 ELSE 1)

Outside == {"closed", "checked"}

StreamsInv == \A s \in Streams : s \in registered <=> pc[s] \notin Outside

ServerInv == Running => ("server" \in registered <=> http \in {"listening", "draining"})

MainInv ==
    /\ Running => ("setup" \in registered <=> main = "setup")
    /\ main \in {"setup", "starting"} => http = "none"
    /\ main \in {"serving", "waiting"} => http # "none"
    /\ main = "waiting" => http # "listening"
    /\ Over => http \in {"stopped", "timedOut"}

\* A server that has stopped had no more requests.
StoppedInv == http = "stopped" => pc = AllClosed

IInv ==
    /\ Types
    /\ CountInv
    /\ StreamsInv
    /\ ServerInv
    /\ MainInv
    /\ StoppedInv

-----------------------------------------------------------------------------
(* Lemmas about the wait group and about sessions.                         *)

LEMMA RegisterCounts ==
    ASSUME Types, CountInv, NEW t \in Tasks, t \notin registered, Register(t)
    PROVE  /\ CountInv'
           /\ registered' = registered \cup {t}
           /\ registered' \subseteq Tasks /\ cancelled' \subseteq Tasks
           /\ terminating' = terminating
  <1>1. IsFiniteSet(registered)
    BY FS_Subset, SubscriptionAssumption DEF Types
  <1>2. /\ Cardinality(registered) \in Nat
        /\ Cardinality(registered \cup {t}) = Cardinality(registered) + 1
    BY <1>1, FS_AddElement, FS_CardinalityType
  <1> QED BY <1>2 DEF Register, CountInv, Types

LEMMA ReleaseCounts ==
    ASSUME Types, CountInv, NEW t \in Tasks, t \in registered, Release(t)
    PROVE  /\ CountInv'
           /\ registered' = registered \ {t}
           /\ registered' \subseteq Tasks /\ cancelled' \subseteq Tasks
           /\ terminating' = terminating
  <1>1. IsFiniteSet(registered)
    BY FS_Subset, SubscriptionAssumption DEF Types
  <1>2. /\ Cardinality(registered) \in Nat
        /\ Cardinality(registered \ {t}) = Cardinality(registered) - 1
    BY <1>1, FS_RemoveElement, FS_CardinalityType
  <1> QED BY <1>2 DEF Release, CountInv, Types

LEMMA NobodyLeft ==
    ASSUME NEW table \in SUBSET Tasks, NEW ended \in BOOLEAN,
           Cardinality(table) + (IF ended THEN 0 ELSE 1) = 0
    PROVE  table = {}
  <1>1. IsFiniteSet(table)
    BY FS_Subset, SubscriptionAssumption
  <1>2. Cardinality(table) \in Nat
    BY <1>1, FS_CardinalityType
  <1>3. Cardinality(table) = 0
    BY <1>2
  <1> QED BY <1>1, <1>3, FS_EmptySet

\* When a step leaves the wait group at 0 the table is empty: no stream and no server is
\* in it.
LEMMA WaitIsOver ==
    ASSUME Types', CountInv', StreamsInv', ServerInv', StoppedInv',
           Running', waitGroup' = 0, http' # "none"
    PROVE  /\ http' \in {"stopped", "timedOut"}
           /\ \A s \in Streams :
                 pc'[s] = "closed" \/ (pc'[s] = "checked" /\ http' = "timedOut")
  <1>1. registered' = {}
    BY NobodyLeft DEF Types, CountInv
  <1>2. http' \in {"stopped", "timedOut"}
    BY <1>1 DEF Types, ServerInv
  <1>3. ASSUME NEW s \in Streams, pc'[s] # "closed"
        PROVE  pc'[s] = "checked" /\ http' = "timedOut"
    <2>1. pc'[s] = "checked"
      BY <1>1, <1>3 DEF StreamsInv, Outside
    <2>2. http' # "stopped"
      BY <2>1 DEF StoppedInv, AllClosed
    <2> QED BY <1>2, <2>1, <2>2
  <1> QED BY <1>2, <1>3

\* Such a step may let main out of its wait; no other changes where main is so.
LEMMA WakeStep ==
    ASSUME IInv, WakeMain, Running,
           \/ http' = http
           \/ http' \notin {"none", "listening"} /\ main \notin {"setup", "starting"} /\ ~Over,
           Types', CountInv', StreamsInv', ServerInv', StoppedInv',
           "setup" \in registered' <=> "setup" \in registered
    PROVE  MainInv'
  <1> USE DEF IInv, WakeMain
  <1>1. CASE main' = main
    BY <1>1 DEF MainInv, Running, Over
  <1>2. CASE main' # main
    <2>1. main = "waiting" /\ main' = "woken" /\ waitGroup' = 0
      BY <1>2
    <2>2. http' # "none" /\ Running'
      BY <2>1 DEF MainInv, Running
    <2>3. http' \in {"stopped", "timedOut"}
      BY <2>1, <2>2, WaitIsOver
    <2> QED BY <2>1, <2>3 DEF MainInv, Running, Over
  <1> QED BY <1>1, <1>2

LEMMA SessionsTyped ==
    ASSUME SessionsTypeOK, NEW i \in SessionIDs,
           \/ Expire(i) \/ Unexpire(i) \/ Create(i) \/ FailCreate(i)
           \/ Remove(i) \/ TimeOut(i) \/ UNCHANGED sessions
    PROVE  SessionsTypeOK'
  <1> DEFINE To(state) == [sessions EXCEPT ![i] = state]
  <1>1. \A state \in SessionStates : To(state) \in [SessionIDs -> SessionStates]
    BY DEF SessionsTypeOK
  <1>2. {"expiring", "kept", "gone"} \subseteq SessionStates
    BY DEF SessionStates
  <1>3. sessions' = sessions \/ \E state \in SessionStates : sessions' = To(state)
    BY <1>2 DEF Expire, Unexpire, Set, Create, FailCreate, Remove, TimeOut
  <1> QED BY <1>1, <1>3 DEF SessionsTypeOK

-----------------------------------------------------------------------------
(* Steps.                                                                  *)

\* A handler that has registered goes on.
LEMMA GoesOn ==
    ASSUME IInv, NEW s \in Streams, NEW from \in PCs \ Outside, NEW to \in PCs \ Outside,
           Goto(s, from, to),
           UNCHANGED << shutdownVars, main, http >>,
           SessionsTypeOK', connected' \in [Streams -> BOOLEAN]
    PROVE  IInv'
  <1>1. pc[s] = from /\ pc' = [pc EXCEPT ![s] = to] /\ pc \in [Streams -> PCs] /\ Running
    BY DEF Goto, IInv, Types
  <1>2. /\ pc' \in [Streams -> PCs]
        /\ \A x \in Streams : pc'[x] \notin Outside <=> pc[x] \notin Outside
    BY <1>1
  <1>3. Types'
    BY <1>2 DEF IInv, Types, shutdownVars
  <1>4. CountInv' /\ ServerInv' /\ MainInv'
    BY DEF IInv, CountInv, ServerInv, MainInv, Running, Over, shutdownVars
  <1>5. StreamsInv'
    BY <1>2 DEF IInv, StreamsInv, shutdownVars
  <1>6. StoppedInv'
    BY <1>1 DEF IInv, StoppedInv, AllClosed, Outside
  <1> QED BY <1>3, <1>4, <1>5, <1>6 DEF IInv

LEMMA HandlerStep ==
    ASSUME IInv, NEW s \in Streams,
           \/ FailUpgrade(s) \/ Subscribe(s) \/ KeepSession(s) \/ FailKeepSession(s)
           \/ CountStream(s) \/ FailCountStream(s) \/ End(s)
           \/ LetSessionExpire(s) \/ FailLetSessionExpire(s)
           \/ CleanUp(s) \/ FailCleanUp(s)
    PROVE  IInv'
  <1>1. SessionOf[s] \in SessionIDs
    BY SubscriptionAssumption
  <1>2. \/ Expire(SessionOf[s]) \/ Unexpire(SessionOf[s]) \/ UNCHANGED sessions
    BY DEF FailUpgrade, Subscribe, KeepSession, FailKeepSession, CountStream, FailCountStream,
           End, LetSessionExpire, FailLetSessionExpire, CleanUp, FailCleanUp
  <1>3. SessionsTypeOK'
    BY <1>1, <1>2, SessionsTyped DEF IInv, Types
  <1>4. connected' \in [Streams -> BOOLEAN] /\ UNCHANGED << shutdownVars, main, http >>
    BY DEF FailUpgrade, Subscribe, KeepSession, FailKeepSession, CountStream, FailCountStream,
           End, LetSessionExpire, FailLetSessionExpire, CleanUp, FailCleanUp, IInv, Types
  <1>5. \E from \in PCs \ Outside, to \in PCs \ Outside : Goto(s, from, to)
    BY DEF FailUpgrade, Subscribe, KeepSession, FailKeepSession, CountStream, FailCountStream,
           End, LetSessionExpire, FailLetSessionExpire, CleanUp, FailCleanUp, PCs, Outside
  <1> QED BY <1>3, <1>4, <1>5, GoesOn

LEMMA ComingAndGoing ==
    ASSUME IInv, NEW s \in Streams,
           OpenStream(s) \/ RegisterStream(s) \/ ReleaseStream(s)
    PROVE  IInv'
  <1> USE DEF IInv
  <1>1. /\ s \in Tasks /\ s # "setup" /\ s # "server"
        /\ Running /\ pc \in [Streams -> PCs]
    BY SubscriptionAssumption DEF Types, OpenStream, RegisterStream, ReleaseStream, Goto
  <1>3. CASE OpenStream(s)
    <2>1. /\ pc[s] = "closed" /\ pc' = [pc EXCEPT ![s] = "checked"]
          /\ UNCHANGED << sessions, shutdownVars, main, http >>
          /\ http = "listening"
      BY <1>3 DEF OpenStream, Goto
    <2>2. Types'
      BY <1>3, <2>1 DEF Types, OpenStream, PCs, SessionsTypeOK, shutdownVars
    <2>3. CountInv' /\ ServerInv' /\ MainInv' /\ StoppedInv'
      BY <2>1 DEF CountInv, ServerInv, MainInv, StoppedInv, Running, Over, shutdownVars
    <2>4. StreamsInv'
      BY <1>1, <2>1 DEF StreamsInv, Outside, shutdownVars
    <2> QED BY <2>2, <2>3, <2>4
  <1>4. CASE RegisterStream(s)
    <2>1. /\ pc[s] = "checked" /\ pc' = [pc EXCEPT ![s] = "registered"]
          /\ UNCHANGED << sessions, connected, main, http >>
          /\ Register(s)
      BY <1>4 DEF RegisterStream, Goto
    <2>2. s \notin registered
      BY <2>1 DEF StreamsInv, Outside
    <2>3. /\ CountInv'
          /\ registered' = registered \cup {s}
          /\ registered' \subseteq Tasks /\ cancelled' \subseteq Tasks
          /\ terminating' = terminating
      BY <1>1, <2>1, <2>2, RegisterCounts
    <2>4. Types'
      BY <2>1, <2>3 DEF Types, PCs, SessionsTypeOK
    <2>5. ServerInv' /\ MainInv'
      BY <1>1, <2>1, <2>3 DEF ServerInv, MainInv, Running, Over
    <2>6. StreamsInv'
      BY <1>1, <2>1, <2>3 DEF StreamsInv, Outside
    <2>7. StoppedInv'
      BY <2>1 DEF StoppedInv, AllClosed
    <2> QED BY <2>3, <2>4, <2>5, <2>6, <2>7
  <1>5. CASE ReleaseStream(s)
    <2>1. /\ pc[s] = "releasing" /\ pc' = [pc EXCEPT ![s] = "closed"]
          /\ connected' = [connected EXCEPT ![s] = FALSE]
          /\ UNCHANGED << sessions, http >>
          /\ Release(s) /\ WakeMain
          /\ main' \in {main, "woken"}
      BY <1>5 DEF ReleaseStream, Goto, WakeMain
    <2>2. s \in registered
      BY <2>1 DEF StreamsInv, Outside
    <2>3. /\ CountInv'
          /\ registered' = registered \ {s}
          /\ registered' \subseteq Tasks /\ cancelled' \subseteq Tasks
          /\ terminating' = terminating
      BY <1>1, <2>1, <2>2, ReleaseCounts
    <2>4. Types'
      BY <2>1, <2>3 DEF Types, PCs, SessionsTypeOK
    <2>5. ServerInv'
      BY <1>1, <2>1, <2>3 DEF ServerInv, Running
    <2>6. StreamsInv'
      BY <1>1, <2>1, <2>3 DEF StreamsInv, Outside
    <2>7. StoppedInv'
      BY <2>1 DEF StoppedInv, AllClosed
    <2>8. MainInv'
      BY <1>1, <2>1, <2>3, <2>4, <2>5, <2>6, <2>7, WakeStep
    <2> QED BY <2>3, <2>4, <2>5, <2>6, <2>7, <2>8
  <1> QED BY <1>3, <1>4, <1>5

\* Browsers, logins, logouts and the clock change neither the handlers nor the process.
LEMMA OtherStep ==
    ASSUME IInv,
           \/ \E s \in Streams : Disconnect(s)
           \/ \E i \in SessionIDs :
                  \/ CreateSession(i) \/ RemoveSession(i)
                  \/ TimeoutSession(i) \/ SessionTimesOut(i)
    PROVE  IInv'
  <1>1. UNCHANGED << shutdownVars, pc, main, http >>
    BY DEF Disconnect, CreateSession, RemoveSession, TimeoutSession, SessionTimesOut
  <1>2. SessionsTypeOK'
    <2>1. CASE \E s \in Streams : Disconnect(s)
      BY <2>1 DEF Disconnect, IInv, Types, SessionsTypeOK
    <2>2. ASSUME NEW i \in SessionIDs,
                 CreateSession(i) \/ RemoveSession(i) \/ TimeoutSession(i) \/ SessionTimesOut(i)
          PROVE  SessionsTypeOK'
      BY <2>2, SessionsTyped DEF CreateSession, RemoveSession, TimeoutSession,
         SessionTimesOut, IInv, Types
    <2> QED BY <2>1, <2>2
  <1>3. connected' \in [Streams -> BOOLEAN]
    BY DEF Disconnect, CreateSession, RemoveSession, TimeoutSession, SessionTimesOut, IInv, Types
  <1>4. Types'
    BY <1>1, <1>2, <1>3 DEF IInv, Types, shutdownVars
  <1>5. CountInv' /\ StreamsInv' /\ ServerInv' /\ MainInv' /\ StoppedInv'
    BY <1>1 DEF IInv, CountInv, StreamsInv, ServerInv, MainInv, StoppedInv, Running, Over,
                shutdownVars
  <1> QED BY <1>4, <1>5 DEF IInv

\* The process goes on: its handlers do not.
LEMMA MainStep ==
    ASSUME IInv,
           \/ FinishSetup \/ StartServer \/ Drain
           \/ \E t \in Background : BackgroundEnds(t)
    PROVE  IInv'
  <1> USE DEF IInv
  <1>1. UNCHANGED << sessions, connected, pc >> /\ SessionsTypeOK'
    BY DEF FinishSetup, StartServer, Drain, BackgroundEnds, Types, SessionsTypeOK
  <1>2. {"setup", "server"} \subseteq Tasks \ Streams /\ "setup" # "server"
    BY SubscriptionAssumption
  <1>3. CASE FinishSetup
    <2>1. "setup" \in registered /\ main = "setup" /\ main' = "starting" /\ http' = http
      BY <1>3 DEF FinishSetup, MainInv, Running
    <2>2. /\ CountInv'
          /\ registered' = registered \ {"setup"}
          /\ registered' \subseteq Tasks /\ cancelled' \subseteq Tasks
          /\ terminating' = terminating
      BY <1>2, <1>3, <2>1, ReleaseCounts DEF FinishSetup
    <2>3. Types' /\ StoppedInv'
      BY <1>1, <2>1, <2>2 DEF Types, StoppedInv
    <2>4. StreamsInv'
      BY <1>1, <1>2, <2>2 DEF StreamsInv
    <2>5. ServerInv' /\ MainInv'
      BY <1>2, <2>1, <2>2 DEF ServerInv, MainInv, Running, Over
    <2> QED BY <2>2, <2>3, <2>4, <2>5
  <1>4. CASE StartServer
    <2>1. /\ main = "starting" /\ main' = "serving"
          /\ http = "none" /\ http' = "listening"
          /\ "server" \notin registered
      BY <1>4 DEF StartServer, ServerInv, MainInv, Running
    <2>2. /\ CountInv'
          /\ registered' = registered \cup {"server"}
          /\ registered' \subseteq Tasks /\ cancelled' \subseteq Tasks
          /\ terminating' = terminating
      BY <1>2, <1>4, <2>1, RegisterCounts DEF StartServer
    <2>3. Types' /\ StoppedInv'
      BY <1>1, <2>1, <2>2 DEF Types, StoppedInv
    <2>4. StreamsInv'
      BY <1>1, <1>2, <2>2 DEF StreamsInv
    <2>5. ServerInv' /\ MainInv'
      BY <1>2, <2>1, <2>2 DEF ServerInv, MainInv, Running, Over
    <2> QED BY <2>2, <2>3, <2>4, <2>5
  <1>5. CASE Drain
    <2>1. /\ http = "draining" /\ main' \in {main, "woken"} /\ WakeMain /\ Running /\ Running'
          /\ http' = IF pc = AllClosed THEN "stopped" ELSE "timedOut"
          /\ "server" \in registered
      BY <1>5 DEF Drain, ServerInv, Running, WakeMain
    <2>2. /\ CountInv'
          /\ registered' = registered \ {"server"}
          /\ registered' \subseteq Tasks /\ cancelled' \subseteq Tasks
          /\ terminating' = terminating
      BY <1>2, <1>5, <2>1, ReleaseCounts DEF Drain
    <2>3. Types' /\ StoppedInv'
      BY <1>1, <2>1, <2>2 DEF Types, StoppedInv, AllClosed
    <2>4. StreamsInv'
      BY <1>1, <1>2, <2>2 DEF StreamsInv
    <2>5. ServerInv'
      BY <1>2, <2>1, <2>2 DEF ServerInv, Running
    <2>6. MainInv'
      BY <1>2, <2>1, <2>2, <2>3, <2>4, <2>5, WakeStep DEF MainInv
    <2> QED BY <2>2, <2>3, <2>4, <2>5, <2>6
  <1>6. ASSUME NEW t \in Background, BackgroundEnds(t)
        PROVE  IInv'
    <2>1. /\ t \in registered /\ t \in Tasks /\ t \notin Streams
          /\ t # "setup" /\ t # "server"
          /\ http' = http /\ WakeMain /\ main' \in {main, "woken"} /\ Running
      BY <1>6 DEF BackgroundEnds, Background, WakeMain
    <2>2. /\ CountInv'
          /\ registered' = registered \ {t}
          /\ registered' \subseteq Tasks /\ cancelled' \subseteq Tasks
          /\ terminating' = terminating
      BY <1>6, <2>1, ReleaseCounts DEF BackgroundEnds
    <2>3. Types' /\ StoppedInv'
      BY <1>1, <2>1, <2>2 DEF Types, StoppedInv
    <2>4. StreamsInv'
      BY <1>1, <2>1, <2>2 DEF StreamsInv
    <2>5. ServerInv'
      BY <2>1, <2>2 DEF ServerInv, Running
    <2>6. MainInv'
      BY <2>1, <2>2, <2>3, <2>4, <2>5, WakeStep
    <2> QED BY <2>2, <2>3, <2>4, <2>5, <2>6
  <1> QED BY <1>3, <1>4, <1>5, <1>6

\* The interrupt, and what follows from it.
LEMMA StopStep ==
    ASSUME IInv,
           \/ GetSignal \/ CloseListener \/ StopServing \/ LeaveWait \/ Return \/ Crash
    PROVE  IInv'
  <1> USE DEF IInv
  <1>1. UNCHANGED << sessions, connected, pc, registered >> /\ SessionsTypeOK'
    BY DEF GetSignal, Interrupt, CloseListener, StopServing, LeaveWait, Return, Crash,
           shutdownVars, Types, SessionsTypeOK
  <1>2. StreamsInv'
    BY <1>1 DEF StreamsInv
  <1>3. CASE GetSignal
    <2>1. /\ ~terminating /\ terminating' /\ waitGroup' = waitGroup - 1
          /\ cancelled' = cancelled \cup registered
          /\ http' = http /\ WakeMain /\ main' \in {main, "woken"} /\ Running
      BY <1>3 DEF GetSignal, Interrupt, WakeMain
    <2>2. Types' /\ StoppedInv' /\ ServerInv'
      BY <1>1, <1>3, <2>1 DEF GetSignal, Interrupt, Types, StoppedInv, ServerInv, Running
    <2>3. Cardinality(registered) \in Nat
      BY FS_Subset, FS_CardinalityType, SubscriptionAssumption DEF Types
    <2>4. CountInv'
      BY <1>1, <2>1, <2>3 DEF CountInv
    <2>5. MainInv'
      BY <1>1, <1>2, <2>1, <2>2, <2>4, WakeStep
    <2> QED BY <1>2, <2>2, <2>4, <2>5
  <1>4. CASE \/ CloseListener \/ StopServing \/ LeaveWait \/ Return \/ Crash
    <2>1. UNCHANGED shutdownVars
      BY <1>4 DEF CloseListener, StopServing, LeaveWait, Return, Crash
    <2>2. CountInv'
      BY <2>1 DEF CountInv, shutdownVars
    <2>3. Types'
      BY <1>1, <1>4, <2>1
      DEF CloseListener, StopServing, LeaveWait, Return, Crash, Types, shutdownVars
    <2>4. StoppedInv' /\ ServerInv'
      BY <1>1, <1>4 DEF CloseListener, StopServing, LeaveWait, Return, Crash, StoppedInv,
         ServerInv, Running
    <2>5. CASE CloseListener \/ LeaveWait \/ Return \/ Crash
      <3>1. MainInv'
        BY <1>1, <2>5 DEF CloseListener, LeaveWait, Return, Crash, MainInv, Running, Over
      <3> QED BY <1>2, <2>2, <2>3, <2>4, <3>1
    <2>6. CASE StopServing
      <3>1. /\ main = "serving" /\ http # "listening" /\ http' = http /\ http' # "none"
            /\ main' = IF waitGroup' = 0 THEN "returning" ELSE "waiting"
        BY <2>1, <2>6 DEF StopServing, MainInv, shutdownVars
      <3>2. waitGroup' = 0 => http' \in {"stopped", "timedOut"}
        BY <1>2, <2>2, <2>3, <2>4, <3>1, WaitIsOver DEF Running
      <3>3. MainInv'
        BY <1>1, <3>1, <3>2 DEF MainInv, Running, Over
      <3> QED BY <1>2, <2>2, <2>3, <2>4, <3>3
    <2> QED BY <1>4, <2>5, <2>6
  <1> QED BY <1>3, <1>4

-----------------------------------------------------------------------------
\* A process begins with its first tasks in the table, and no handler.
LEMMA FirstTasksInv ==
    /\ FirstTasks \subseteq Tasks /\ FirstTasks \cap Streams = {}
    /\ "setup" \in FirstTasks /\ "server" \notin FirstTasks
    /\ Cardinality(FirstTasks) \in Nat
  <1>1. /\ FirstTasks \subseteq Tasks /\ FirstTasks \cap Streams = {}
        /\ "setup" \in FirstTasks /\ "server" \notin FirstTasks
    BY SubscriptionAssumption DEF FirstTasks, Background
  <1> QED BY <1>1, FS_Subset, FS_CardinalityType, SubscriptionAssumption

LEMMA InitInv == Init => IInv
  <1> SUFFICES ASSUME Init PROVE IInv
    OBVIOUS
  <1> USE DEF Init, ShutdownInit
  <1>1. Types
    BY FirstTasksInv DEF Types, SessionsInit, SessionsTypeOK, SessionStates, AllClosed, PCs
  <1>2. CountInv
    BY FirstTasksInv DEF CountInv
  <1>3. StreamsInv
    BY FirstTasksInv DEF StreamsInv, AllClosed, Outside
  <1>4. ServerInv /\ MainInv /\ StoppedInv
    BY FirstTasksInv DEF ServerInv, MainInv, StoppedInv, Running, Over
  <1> QED BY <1>1, <1>2, <1>3, <1>4 DEF IInv

LEMMA RestartStep ==
    ASSUME IInv, Restart
    PROVE  IInv'
  <1> USE DEF Restart, ShutdownRestart
  <1>1. Types'
    BY FirstTasksInv DEF IInv, Types, SessionsTypeOK, AllClosed, PCs
  <1>2. CountInv'
    BY FirstTasksInv DEF CountInv
  <1>3. StreamsInv'
    BY FirstTasksInv DEF StreamsInv, AllClosed, Outside
  <1>4. ServerInv' /\ MainInv' /\ StoppedInv'
    BY FirstTasksInv DEF ServerInv, MainInv, StoppedInv, Running, Over
  <1> QED BY <1>1, <1>2, <1>3, <1>4 DEF IInv

LEMMA StutterStep ==
    ASSUME IInv, UNCHANGED vars
    PROVE  IInv'
  BY DEF IInv, vars, shutdownVars, Types, SessionsTypeOK, CountInv, StreamsInv, ServerInv,
         MainInv, StoppedInv, Running, Over

LEMMA StepInv == IInv /\ [Next]_vars => IInv'
  <1> SUFFICES ASSUME IInv, [Next]_vars PROVE IInv'
    OBVIOUS
  <1>1. CASE UNCHANGED vars
    BY <1>1, StutterStep
  <1>2. ASSUME NEW s \in Streams,
               \/ OpenStream(s) \/ Disconnect(s)
               \/ RegisterStream(s) \/ FailUpgrade(s) \/ Subscribe(s)
               \/ KeepSession(s) \/ FailKeepSession(s)
               \/ CountStream(s) \/ FailCountStream(s)
               \/ End(s) \/ LetSessionExpire(s) \/ FailLetSessionExpire(s)
               \/ CleanUp(s) \/ FailCleanUp(s) \/ ReleaseStream(s)
        PROVE  IInv'
    BY <1>2, HandlerStep, ComingAndGoing, OtherStep
  <1>3. CASE \E i \in SessionIDs :
               CreateSession(i) \/ RemoveSession(i) \/ TimeoutSession(i) \/ SessionTimesOut(i)
    BY <1>3, OtherStep
  <1>4. CASE FinishSetup \/ StartServer \/ Drain \/ \E t \in Background : BackgroundEnds(t)
    BY <1>4, MainStep
  <1>5. CASE \/ GetSignal \/ CloseListener \/ StopServing \/ LeaveWait \/ Return \/ Crash
    BY <1>5, StopStep
  <1>6. CASE Restart
    BY <1>6, RestartStep
  <1> QED BY <1>1, <1>2, <1>3, <1>4, <1>5, <1>6 DEF Next

LEMMA Invariant == Spec => []IInv
  BY InitInv, StepInv, PTL DEF Spec

\* The wait group never drops below 0 (it would panic), and every variable has its type, however
\* streams and tasks register and release while the server is interrupted
\* (handleShutdownTask, server/shutdown/shutdown.go).
THEOREM TypeCorrect == Spec => []TypeOK
  <1>1. IInv => TypeOK
    <2> SUFFICES ASSUME IInv PROVE TypeOK
      OBVIOUS
    <2>1. Cardinality(registered) \in Nat
      BY FS_Subset, FS_CardinalityType, SubscriptionAssumption DEF IInv, Types
    <2>2. waitGroup \in Nat
      BY <2>1 DEF IInv, CountInv, Types
    <2> QED BY <2>2 DEF IInv, Types, TypeOK, ShutdownTypeOK
  <1> QED BY Invariant, <1>1, PTL

\* Nobody but OpenStream takes a handler out of "closed".
LEMMA StaysClosed ==
    ASSUME pc \in [Streams -> PCs], [Next]_vars, NEW s \in Streams, ~OpenStream(s), pc[s] = "closed"
    PROVE  pc'[s] = "closed"
  <1>1. ASSUME NEW x \in Streams,
               \/ OpenStream(x)
               \/ RegisterStream(x) \/ FailUpgrade(x) \/ Subscribe(x)
               \/ KeepSession(x) \/ FailKeepSession(x) \/ CountStream(x) \/ FailCountStream(x)
               \/ End(x) \/ LetSessionExpire(x) \/ FailLetSessionExpire(x)
               \/ CleanUp(x) \/ FailCleanUp(x) \/ ReleaseStream(x)
        PROVE  pc'[s] = "closed"
    <2>1. CASE x # s
      BY <1>1, <2>1 DEF Goto, OpenStream, RegisterStream, FailUpgrade, Subscribe,
         KeepSession, FailKeepSession, CountStream, FailCountStream, End, LetSessionExpire,
         FailLetSessionExpire, CleanUp, FailCleanUp, ReleaseStream
    <2>2. CASE x = s
      BY <1>1, <2>2 DEF Goto, RegisterStream, FailUpgrade, Subscribe,
         KeepSession, FailKeepSession, CountStream, FailCountStream, End, LetSessionExpire,
         FailLetSessionExpire, CleanUp, FailCleanUp, ReleaseStream
    <2> QED BY <2>1, <2>2
  <1>2. ASSUME \/ FinishSetup \/ StartServer \/ GetSignal \/ CloseListener \/ Drain
               \/ StopServing \/ LeaveWait \/ Return \/ Crash \/ Restart \/ UNCHANGED vars
               \/ \E t \in Background : BackgroundEnds(t)
               \/ \E x \in Streams : Disconnect(x)
               \/ \E i \in SessionIDs :
                    CreateSession(i) \/ RemoveSession(i) \/ TimeoutSession(i) \/ SessionTimesOut(i)
        PROVE  pc'[s] = "closed"
    BY <1>2 DEF FinishSetup, StartServer, GetSignal, CloseListener, Drain, StopServing,
       LeaveWait, Return, Crash, Restart, BackgroundEnds, Disconnect, CreateSession, RemoveSession,
       TimeoutSession, SessionTimesOut, AllClosed, vars
  <1> QED BY <1>1, <1>2 DEF Next

\* main's wait ends by a step that leaves the wait group at 0.
LEMMA WaitEnds ==
    ASSUME IInv, IInv', Next, Over', ~Over
    PROVE  waitGroup' = 0 /\ Running'
  <1>1. CASE WakeMain
    BY <1>1 DEF WakeMain, Over, Running
  <1>2. CASE StopServing
    BY <1>2 DEF StopServing, Over, Running, shutdownVars
  <1>3. CASE UNCHANGED main \/ FinishSetup \/ StartServer \/ LeaveWait \/ Return \/ Crash \/ Restart
    BY <1>3 DEF FinishSetup, StartServer, LeaveWait, Return, Crash, Restart, Over
  <1>4. ASSUME NEW s \in Streams,
               \/ OpenStream(s) \/ Disconnect(s) \/ RegisterStream(s) \/ FailUpgrade(s)
               \/ Subscribe(s) \/ KeepSession(s) \/ FailKeepSession(s) \/ CountStream(s)
               \/ FailCountStream(s) \/ End(s) \/ LetSessionExpire(s)
               \/ FailLetSessionExpire(s) \/ CleanUp(s) \/ FailCleanUp(s) \/ ReleaseStream(s)
        PROVE  WakeMain \/ UNCHANGED main
    BY <1>4 DEF OpenStream, Disconnect, RegisterStream, FailUpgrade, Subscribe, KeepSession,
       FailKeepSession, CountStream, FailCountStream, End, LetSessionExpire,
       FailLetSessionExpire, CleanUp, FailCleanUp, ReleaseStream
  <1>5. ASSUME \/ GetSignal \/ CloseListener \/ Drain \/ \E t \in Background : BackgroundEnds(t)
               \/ \E i \in SessionIDs :
                    CreateSession(i) \/ RemoveSession(i) \/ TimeoutSession(i) \/ SessionTimesOut(i)
        PROVE  WakeMain \/ UNCHANGED main
    BY <1>5 DEF GetSignal, CloseListener, Drain, BackgroundEnds, CreateSession, RemoveSession,
       TimeoutSession, SessionTimesOut
  <1> QED BY <1>1, <1>2, <1>3, <1>4, <1>5 DEF Next

LEMMA WaitsStep ==
    ASSUME IInv, IInv', [Next]_vars, Over', NEW s \in Streams, pc'[s] # "closed"
    PROVE  \/ pc'[s] = "checked" /\ http' = "timedOut"
           \/ Over /\ pc[s] # "closed" /\ http = "timedOut"
  <1>1. CASE Over
    <2>1. http \in {"stopped", "timedOut"}
      BY <1>1 DEF IInv, MainInv
    <2>2. pc[s] # "closed"
      BY <2>1, StaysClosed DEF OpenStream, IInv, Types
    <2>3. http # "stopped"
      BY <2>2 DEF IInv, StoppedInv, AllClosed
    <2> QED BY <1>1, <2>1, <2>2, <2>3
  <1>2. CASE ~Over
    <2>1. Next
      BY <1>2 DEF vars, Over
    <2>2. waitGroup' = 0 /\ Running'
      BY <1>2, <2>1, WaitEnds
    <2>3. http' # "none"
      BY DEF IInv, MainInv
    <2> QED BY <2>2, <2>3, WaitIsOver DEF IInv
  <1> QED BY <1>1, <1>2

\* main's wait does not end before every stream that registered has run its deferred
\* calls, for any number of streams; only requests that the server had given up may
\* register after that (main.go, shutdown.go, gameSubscription.go).
THEOREM ShutdownWaits == Spec => WaitsForStreams
  <1> DEFINE Waits ==
        Over' => \A s \in Streams :
                    \/ pc'[s] = "closed"
                    \/ pc'[s] = "checked" /\ http' = "timedOut"
                    \/ Over /\ pc[s] # "closed" /\ http = "timedOut"
  <1>1. IInv /\ IInv' /\ [Next]_vars => [Waits]_vars
    BY WaitsStep
  <1>2. Spec => [][Waits]_vars
    BY <1>1, Invariant, PTL DEF Spec
  <1> QED BY <1>2 DEF WaitsForStreams

-----------------------------------------------------------------------------
(* Sessions.                                                               *)

\* Once the server has stopped with no request left nobody holds a session.
LEMMA NobodyHolds ==
    ASSUME IInv, Over, http # "timedOut", NEW i \in SessionIDs
    PROVE  Holders(i) = {}
  <1>1. pc = AllClosed
    BY DEF IInv, MainInv, StoppedInv
  <1> QED BY <1>1 DEF Holders, AllClosed

LEMMA HandedStep ==
    ASSUME IInv, Next, NEW i \in SessionIDs,
           ~Crash, ~(http = "timedOut" /\ (LeaveWait \/ Return)),
           \A s \in Streams : ~FailKeepSession(s) /\ ~FailLetSessionExpire(s),
           sessions[i] # "unused", Held(i)
    PROVE  Held(i)'
  <1> SUFFICES ASSUME sessions'[i] = "kept"
               PROVE  Holders(i)' # {}
    BY DEF Held
  <1>1. pc \in [Streams -> PCs] /\ sessions \in [SessionIDs -> SessionStates]
    BY DEF IInv, Types, SessionsTypeOK
  <1>2. ASSUME NEW s \in Streams, SessionOf[s] = i, KeepSession(s)
        PROVE  s \in Holders(i)'
    BY <1>1, <1>2 DEF KeepSession, Goto, Running, Holders
  <1>3. ASSUME sessions[i] = "kept",
               NEW s \in Streams,
               \/ OpenStream(s) \/ RegisterStream(s) \/ FailUpgrade(s) \/ Subscribe(s)
               \/ KeepSession(s) \/ CountStream(s) \/ FailCountStream(s) \/ End(s)
               \/ LetSessionExpire(s) \/ CleanUp(s) \/ FailCleanUp(s) \/ ReleaseStream(s)
        PROVE  Holders(i)' # {}
    <2>1. PICK holder \in Streams : holder \in Holders(i)
      BY <1>3 DEF Held, Holders
    <2>2. /\ Running /\ SessionOf[holder] = i
          /\ pc[holder] \in {"kept", "open", "expiring"}
      BY <2>1 DEF Holders
    <2>3. Running'
      BY <1>3, <2>2 DEF Running, WakeMain, OpenStream,
          RegisterStream, FailUpgrade, Subscribe, KeepSession,
         CountStream, FailCountStream, End, LetSessionExpire, CleanUp, FailCleanUp, ReleaseStream
    <2>4. ASSUME s = holder, LetSessionExpire(s)
          PROVE  FALSE
      BY <1>1, <1>3, <2>2, <2>4 DEF LetSessionExpire, Expire, Set, Exists, SessionStates
    <2>5. pc'[holder] \in {"kept", "open", "expiring"}
      BY <1>1, <1>3, <2>2, <2>4 DEF Goto, OpenStream, RegisterStream, FailUpgrade, Subscribe,
         KeepSession, CountStream, FailCountStream, End, LetSessionExpire, CleanUp, FailCleanUp,
         ReleaseStream
    <2> QED BY <2>2, <2>3, <2>5 DEF Holders
  <1>4. ASSUME sessions[i] = "kept", UNCHANGED pc, Running => Running'
        PROVE  Holders(i)' # {}
    BY <1>4 DEF Held, Holders
  <1>5. ASSUME NEW s \in Streams,
               \/ OpenStream(s) \/ RegisterStream(s) \/ FailUpgrade(s) \/ Subscribe(s)
               \/ KeepSession(s) \/ CountStream(s) \/ FailCountStream(s) \/ End(s)
               \/ LetSessionExpire(s) \/ CleanUp(s) \/ FailCleanUp(s) \/ ReleaseStream(s)
        PROVE  Holders(i)' # {}
    <2>1. CASE SessionOf[s] = i /\ KeepSession(s)
      BY <1>2, <2>1
    <2>2. CASE ~(SessionOf[s] = i /\ KeepSession(s))
      <3>1. sessions[i] = "kept"
        BY <1>1, <1>5, <2>2, SubscriptionAssumption
        DEF OpenStream, RegisterStream, FailUpgrade, Subscribe, KeepSession, CountStream,
            FailCountStream, End, LetSessionExpire, CleanUp, FailCleanUp, ReleaseStream,
            Unexpire, Expire, Set, Exists
      <3> QED BY <1>3, <1>5, <3>1
    <2> QED BY <2>1, <2>2
  <1>6. ASSUME NEW j \in SessionIDs,
               CreateSession(j) \/ RemoveSession(j) \/ TimeoutSession(j) \/ SessionTimesOut(j)
        PROVE  Holders(i)' # {}
    <2>1. sessions[i] = "kept" /\ UNCHANGED pc /\ (Running => Running')
      BY <1>1, <1>6 DEF CreateSession, Create, FailCreate, RemoveSession, Remove,
         TimeoutSession, Expire, Set, SessionTimesOut, TimeOut, Running
    <2> QED BY <1>4, <2>1
  <1>7. CASE LeaveWait \/ Return
    <2>1. sessions[i] = "kept" /\ Over /\ http # "timedOut"
      BY <1>7 DEF LeaveWait, Return, Over
    <2> QED BY <2>1, NobodyHolds DEF Held
  <1>8. CASE Restart
    BY <1>8 DEF Restart, Held, Holders
  <1>9. CASE \/ FinishSetup \/ StartServer \/ GetSignal \/ CloseListener \/ Drain \/ StopServing
             \/ \E t \in Background : BackgroundEnds(t)
             \/ \E s \in Streams : Disconnect(s)
    <2>1. sessions[i] = "kept" /\ UNCHANGED pc /\ (Running => Running')
      BY <1>9 DEF WakeMain, FinishSetup, StartServer, GetSignal, CloseListener, Drain, StopServing,
         BackgroundEnds, Disconnect, Running
    <2> QED BY <1>4, <2>1
  <1> QED BY <1>5, <1>6, <1>7, <1>8, <1>9 DEF Next

\* Only a failure leaves behind a session that never ends: for any number of streams and
\* sessions, however they open and close around logouts and a shutdown; an end that does
\* not wait for requests the server gave up is one
\* (handleSubscription, server/routes/gameSubscription.go).
THEOREM SessionsHanded == Spec => SessionsAreHanded
  <1> DEFINE Handed ==
        \/ Crash
        \/ http = "timedOut" /\ (LeaveWait \/ Return)
        \/ \E s \in Streams : FailKeepSession(s) \/ FailLetSessionExpire(s)
        \/ \A i \in SessionIDs : sessions[i] # "unused" /\ Held(i) => Held(i)'
  <1>1. IInv /\ [Next]_vars => [Handed]_vars
    BY HandedStep
  <1>2. Spec => [][Handed]_vars
    BY <1>1, Invariant, PTL DEF Spec
  <1> QED BY <1>2 DEF SessionsAreHanded

\* A stream was let in by a session, and an ID is not generated again.
UsedInv ==
    /\ sessions \in [SessionIDs -> SessionStates]
    /\ pc \in [Streams -> PCs]
    /\ \A s \in Streams : pc[s] # "closed" => sessions[SessionOf[s]] # "unused"

\* No step makes an ID unused again.
LEMMA StaysUsed ==
    ASSUME UsedInv, [Next]_vars, NEW i \in SessionIDs, sessions[i] # "unused"
    PROVE  sessions'[i] # "unused"
  <1>1. \A j \in SessionIDs :
          \/ Expire(j) \/ Unexpire(j) \/ Create(j) \/ FailCreate(j) \/ Remove(j) \/ TimeOut(j)
          => sessions'[i] # "unused"
    BY DEF UsedInv, Expire, Unexpire, Set, Create, FailCreate, Remove, TimeOut
  <1>2. ASSUME NEW s \in Streams,
               KeepSession(s) \/ FailKeepSession(s) \/ LetSessionExpire(s)
        PROVE  sessions'[i] # "unused"
    BY <1>1, <1>2, SubscriptionAssumption DEF KeepSession, FailKeepSession, LetSessionExpire
  <1>3. ASSUME NEW j \in SessionIDs,
               CreateSession(j) \/ RemoveSession(j) \/ TimeoutSession(j) \/ SessionTimesOut(j)
        PROVE  sessions'[i] # "unused"
    BY <1>1, <1>3 DEF CreateSession, RemoveSession, TimeoutSession, SessionTimesOut
  <1>4. ASSUME NEW s \in Streams,
               \/ OpenStream(s) \/ Disconnect(s) \/ RegisterStream(s) \/ FailUpgrade(s)
               \/ Subscribe(s) \/ CountStream(s) \/ FailCountStream(s) \/ End(s)
               \/ FailLetSessionExpire(s) \/ CleanUp(s) \/ FailCleanUp(s) \/ ReleaseStream(s)
        PROVE  sessions' = sessions
    BY <1>4 DEF OpenStream, Disconnect, RegisterStream, FailUpgrade, Subscribe, CountStream,
       FailCountStream, End, FailLetSessionExpire, CleanUp, FailCleanUp, ReleaseStream
  <1>5. ASSUME \/ FinishSetup \/ StartServer \/ GetSignal \/ CloseListener \/ Drain
               \/ StopServing \/ LeaveWait \/ Return \/ Crash \/ Restart \/ UNCHANGED vars
               \/ \E t \in Background : BackgroundEnds(t)
        PROVE  sessions' = sessions
    BY <1>5 DEF FinishSetup, StartServer, GetSignal, CloseListener, Drain, StopServing,
       LeaveWait, Return, Crash, Restart, BackgroundEnds, vars
  <1> QED BY <1>2, <1>3, <1>4, <1>5 DEF Next

LEMMA UsedStep == IInv' /\ UsedInv /\ [Next]_vars => UsedInv'
  <1> SUFFICES ASSUME IInv', UsedInv, [Next]_vars PROVE UsedInv'
    OBVIOUS
  <1>1. sessions' \in [SessionIDs -> SessionStates] /\ pc' \in [Streams -> PCs]
    BY DEF IInv, Types, SessionsTypeOK
  <1>2. ASSUME NEW s \in Streams, pc'[s] # "closed"
        PROVE  sessions'[SessionOf[s]] # "unused"
    <2>1. SessionOf[s] \in SessionIDs
      BY SubscriptionAssumption
    <2>2. sessions[SessionOf[s]] # "unused"
      <3>1. CASE OpenStream(s)
        BY <3>1 DEF OpenStream, Exists
      <3>2. CASE ~OpenStream(s)
        <4>1. pc[s] # "closed"
          BY <1>2, <3>2, StaysClosed DEF UsedInv
        <4> QED BY <4>1 DEF UsedInv
      <3> QED BY <3>1, <3>2
    <2> QED BY <2>1, <2>2, StaysUsed
  <1> QED BY <1>1, <1>2 DEF UsedInv

LEMMA UsedInvariant == Spec => []UsedInv
  <1>1. Init => UsedInv
    BY DEF Init, SessionsInit, UsedInv, AllClosed, SessionStates, PCs
  <1> QED BY <1>1, UsedStep, Invariant, PTL DEF Spec

\* A stream that is in use after a step was in use before it, or has just kept its session.
LEMMA ComesIntoUse ==
    ASSUME UsedInv, Next, NEW s \in Streams, InUse(s)', ~InUse(s)
    PROVE  KeepSession(s)
  <1>1. ASSUME NEW x \in Streams,
               \/ OpenStream(x) \/ Disconnect(x)
               \/ RegisterStream(x) \/ FailUpgrade(x) \/ Subscribe(x)
               \/ FailKeepSession(x) \/ CountStream(x) \/ FailCountStream(x)
               \/ End(x) \/ LetSessionExpire(x) \/ FailLetSessionExpire(x)
               \/ CleanUp(x) \/ FailCleanUp(x) \/ ReleaseStream(x)
               \/ KeepSession(x) /\ x # s
        PROVE  FALSE
    BY <1>1 DEF UsedInv, InUse, Running, Goto, OpenStream, Disconnect, RegisterStream,
       FailUpgrade, Subscribe, KeepSession, FailKeepSession, CountStream, FailCountStream, End,
       LetSessionExpire, FailLetSessionExpire, CleanUp, FailCleanUp, ReleaseStream
  <1>2. ASSUME \/ FinishSetup \/ StartServer \/ GetSignal \/ CloseListener \/ Drain
               \/ StopServing \/ LeaveWait \/ Return \/ Crash \/ Restart
               \/ \E t \in Background : BackgroundEnds(t)
               \/ \E i \in SessionIDs :
                    CreateSession(i) \/ RemoveSession(i) \/ TimeoutSession(i) \/ SessionTimesOut(i)
        PROVE  FALSE
    BY <1>2 DEF FinishSetup, StartServer, GetSignal, CloseListener, Drain, StopServing,
       LeaveWait, Return, Crash, Restart, BackgroundEnds, CreateSession, RemoveSession,
       TimeoutSession, SessionTimesOut, AllClosed, InUse, Running
  <1> QED BY <1>1, <1>2 DEF Next

\* A session that is used begins to expire only when a stream lets it, or all are told to.
LEMMA BeginsToExpire ==
    ASSUME UsedInv, Next, NEW s \in Streams, sessions[SessionOf[s]] # "unused",
           Expires(s)', ~Expires(s)
    PROVE  \/ \E other \in Streams : SessionOf[other] = SessionOf[s] /\ LetSessionExpire(other)
           \/ TimeoutSession(SessionOf[s])
  <1> DEFINE i == SessionOf[s]
  <1>1. i \in SessionIDs
    BY SubscriptionAssumption
  <1>2. sessions[i] # "expiring" /\ sessions'[i] = "expiring"
    BY DEF Expires
  <1>3. ASSUME NEW x \in Streams,
               KeepSession(x) \/ FailKeepSession(x) \/ (LetSessionExpire(x) /\ SessionOf[x] # i)
        PROVE  FALSE
    BY <1>1, <1>2, <1>3, SubscriptionAssumption
    DEF UsedInv, KeepSession, FailKeepSession, LetSessionExpire, Unexpire, Expire, Set
  <1>4. ASSUME NEW j \in SessionIDs,
               \/ CreateSession(j) \/ RemoveSession(j) \/ SessionTimesOut(j)
               \/ TimeoutSession(j) /\ j # i
        PROVE  FALSE
    BY <1>1, <1>2, <1>4 DEF UsedInv, CreateSession, Create, FailCreate, RemoveSession, Remove,
         TimeoutSession, Expire, Set,
       SessionTimesOut, TimeOut
  <1>5. ASSUME NEW x \in Streams,
               \/ OpenStream(x) \/ Disconnect(x) \/ RegisterStream(x) \/ FailUpgrade(x)
               \/ Subscribe(x) \/ CountStream(x) \/ FailCountStream(x) \/ End(x)
               \/ FailLetSessionExpire(x) \/ CleanUp(x) \/ FailCleanUp(x) \/ ReleaseStream(x)
        PROVE  FALSE
    BY <1>2, <1>5 DEF OpenStream, Disconnect, RegisterStream, FailUpgrade, Subscribe, CountStream,
       FailCountStream, End, FailLetSessionExpire, CleanUp, FailCleanUp, ReleaseStream
  <1>6. ASSUME \/ FinishSetup \/ StartServer \/ GetSignal \/ CloseListener \/ Drain
               \/ StopServing \/ LeaveWait \/ Return \/ Crash \/ Restart
               \/ \E t \in Background : BackgroundEnds(t)
        PROVE  FALSE
    BY <1>2, <1>6 DEF FinishSetup, StartServer, GetSignal, CloseListener, Drain, StopServing,
       LeaveWait, Return, Crash, Restart, BackgroundEnds
  <1> QED BY <1>3, <1>4, <1>5, <1>6 DEF Next

LEMMA UseStep ==
    ASSUME UsedInv, Next, NEW s \in Streams, InUse(s)', Expires(s)'
    PROVE  \/ InUse(s) /\ Expires(s)
           \/ \E other \in Streams \ {s} :
                 SessionOf[other] = SessionOf[s] /\ LetSessionExpire(other)
           \/ TimeoutSession(SessionOf[s])
  <1>0. SessionOf[s] \in SessionIDs
    BY SubscriptionAssumption
  <1>1. ~KeepSession(s)
    <2> SUFFICES ASSUME KeepSession(s) PROVE FALSE
      OBVIOUS
    <2> QED BY <1>0 DEF KeepSession, Unexpire, Set, Exists, Expires, UsedInv
  <1>2. InUse(s)
    BY <1>1, ComesIntoUse
  <1>3. sessions[SessionOf[s]] # "unused"
    BY <1>2 DEF UsedInv, InUse
  <1>4. ~LetSessionExpire(s)
    BY DEF LetSessionExpire, Goto, InUse, UsedInv
  <1> QED BY <1>2, <1>3, <1>4, BeginsToExpire

\* While a stream is in use its session expires only because another stream of that session
\* has closed or all sessions were told to expire, whatever the number of streams and sessions
\* (handleSubscription, server/routes/gameSubscription.go).
THEOREM UseEndsByOthers == Spec => OnlyOthersEndUse
  <1> DEFINE Kept ==
        \A s \in Streams : InUse(s)' /\ Expires(s)' =>
            \/ InUse(s) /\ Expires(s)
            \/ \E other \in Streams \ {s} :
                  SessionOf[other] = SessionOf[s] /\ LetSessionExpire(other)
            \/ TimeoutSession(SessionOf[s])
  <1>1. UsedInv /\ [Next]_vars => [Kept]_vars
    BY UseStep
  <1>2. Spec => [][Kept]_vars
    BY <1>1, UsedInvariant, PTL DEF Spec
  <1> QED BY <1>2 DEF OnlyOthersEndUse
=============================================================================
