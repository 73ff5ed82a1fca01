-------------------------------- MODULE Shutdown --------------------------------
(***************************************************************************)
(* The shutdown package (server/shutdown/shutdown.go): a goroutine that    *)
(* keeps the table of what has to end before the process may, and the      *)
(* WaitGroup its main goroutine waits on.                                  *)
(*                                                                         *)
(* Registrations, releases and the interrupt are sent to that goroutine on *)
(* an unbuffered channel.  It never blocks while it handles one, so each   *)
(* is one step of its sender.                                              *)
(***************************************************************************)
EXTENDS Integers, FiniteSets

CONSTANT Tasks       \* what may register

VARIABLES
    registered,      \* the table `clients`
    cancelled,       \* the tasks whose context is cancelled
    terminating,     \* the interrupt has been handled
    waitGroup        \* the counter of WaitGroup

shutdownVars == << registered, cancelled, terminating, waitGroup >>

\* A WaitGroup whose counter drops below 0 panics.
ShutdownTypeOK ==
    /\ registered \subseteq Tasks
    /\ cancelled \subseteq Tasks
    /\ terminating \in BOOLEAN
    /\ waitGroup \in Nat

\* The goroutine has counted itself, and main has registered the tasks in first.
\* (Of an interrupt that came before, they hear when they register.)
ShutdownInit(first) ==
    /\ registered = first
    /\ cancelled = {}
    /\ terminating = FALSE
    /\ waitGroup = 1 + Cardinality(first)

\* The same of the next process.
ShutdownRestart(first) ==
    /\ registered' = first
    /\ cancelled' = {}
    /\ terminating' = FALSE
    /\ waitGroup' = 1 + Cardinality(first)

\* Mutant: a task that registers after the interrupt is not cancelled.
RegisterUnheard(t) ==
    /\ registered' = registered \cup {t}
    /\ waitGroup' = waitGroup + 1
    /\ cancelled' = cancelled \ {t}
    /\ UNCHANGED terminating

Register(t) ==
    /\ registered' = registered \cup {t}
    /\ waitGroup' = waitGroup + 1
    /\ cancelled' = IF terminating THEN cancelled \cup {t} ELSE cancelled \ {t}
    /\ UNCHANGED terminating

\* The function Register returns.
Release(t) ==
    /\ registered' = registered \ {t}
    /\ waitGroup' = waitGroup - 1
    /\ cancelled' = cancelled \cup {t}
    /\ UNCHANGED terminating

\* Mutant: every signal is handled, not only the first.
InterruptAgain ==
    /\ terminating' = TRUE
    /\ waitGroup' = waitGroup - 1
    /\ cancelled' = cancelled \cup registered
    /\ UNCHANGED registered

\* The first of the signals; only one is read.
Interrupt ==
    /\ ~terminating
    /\ terminating' = TRUE
    /\ waitGroup' = waitGroup - 1
    /\ cancelled' = cancelled \cup registered
    /\ UNCHANGED registered
=============================================================================
