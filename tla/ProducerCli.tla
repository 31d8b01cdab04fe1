------------------------------- MODULE ProducerCli -----------------------------
(***************************************************************************)
(* The producer's process: run_producer_cli and _wait_for_shutdown of      *)
(* cli.py, whose main thread is the owner of SensorProducer, the thread    *)
(* that watches stdin, and the signals of the operator.  The threads of    *)
(* the producer are daemons: they end with the process, wherever they are. *)
(*                                                                         *)
(* stop_event of _wait_for_shutdown is a threading.Event: wait() and set() *)
(* take its lock, which is not reentrant, and the handler of SIGTERM runs  *)
(* on the main thread, between any two steps of it or inside a wait for a  *)
(* lock, and holds it up until it returns.                                 *)
(***************************************************************************)
EXTENDS SensorProducer

VARIABLES
    main,               \* what the main thread does next, see MainStates
    handler,            \* the handler on top of it: "none"; "acquire": set()
                        \* needs the lock; "locked": set() has it; "nested":
                        \* a second handler needs the lock the first one has
    status,             \* the exit code that main is going to end with
    shutdown,           \* stop_event of _wait_for_shutdown
    sigterm,            \* what SIGTERM does: "kill" (the default) or "handle"
    watcher,            \* "off", "reading", "setting" or "ended"
    exitCode            \* -1 while the process lives

cliVars == <<main, handler, status, shutdown, sigterm, watcher, exitCode>>

allVars == <<vars, cliVars>>

CliInit ==
    /\ Init
    /\ main = "load"
    /\ handler = "none"
    /\ status = 0
    /\ shutdown = FALSE
    /\ sigterm = "kill"
    /\ watcher = "off"
    /\ exitCode = -1

Alive == exitCode = -1

Killed == 128           \* added to the number of the signal

\* In order.  The lock of the event is main's in "entered", before wait() has
\* released it, and in "leaving", after it was taken back; "blocked" is the
\* wait for notify_all() and "woken" the finally clause.
MainStates == {"load", "start", "print", "watch", "install", "wait", "entered",
               "blocked", "leaving", "woken", "stop", "stopping", "exit", "ended"}

MainHoldsLock == main \in {"entered", "leaving"}

HandlerHoldsLock == handler \in {"locked", "nested"}

\* The main thread waits for a lock of its own, and nothing but Ctrl-C gets it
\* out of there.
SelfBlocked == handler = "nested" \/ (handler = "acquire" /\ MainHoldsLock)

\* The process ends, and its threads with it.
EndProcess(code) ==
    /\ exitCode' = code
    /\ main' = "ended"
    /\ handler' = "none"
    /\ watcher' = "off"
    /\ ppc' = "off"
    /\ spc' = [s \in Senders |-> "off"]
    /\ UNCHANGED <<bufferVars, nextSeq, made, payload, position, ownerVars,
                   stopEvent, captureVars, historyVars, status, shutdown, sigterm>>
-------------------------------------------------------------------------------
(***************************************************************************)
(* The main thread.                                                        *)
(***************************************************************************)

\* load_config and the constructor; there is no producer if one raises.  What
\* the except clause names becomes exit code 2, anything else 1.
LoadOk ==
    /\ main = "load"
    /\ main' = "start"
    /\ UNCHANGED <<vars, handler, status, shutdown, sigterm, watcher, exitCode>>

LoadFails ==
    /\ main = "load"
    /\ main' = "exit"
    /\ status' \in {1, 2}
    /\ UNCHANGED <<vars, handler, shutdown, sigterm, watcher, exitCode>>

StartProducer ==
    /\ main = "start"
    /\ \/ Start /\ main' = "print" /\ UNCHANGED status
       \/ StartFails /\ main' = "stop" /\ status' = 2
    /\ UNCHANGED <<handler, shutdown, sigterm, watcher, exitCode>>

\* print() may meet a closed stdout, which is an OSError.
PrintEndpoint ==
    /\ main = "print"
    /\ \/ main' = "watch" /\ UNCHANGED status
       \/ main' = "stop" /\ status' = 2
    /\ UNCHANGED <<vars, handler, shutdown, sigterm, watcher, exitCode>>

\* _stdin_shutdown_watcher: no thread if there is no stdin.
StartWatcher ==
    /\ main = "watch"
    /\ watcher' \in {"off", "reading"}
    /\ main' = "install"
    /\ UNCHANGED <<vars, handler, status, shutdown, sigterm, exitCode>>

InstallHandler ==
    /\ main = "install"
    /\ sigterm' = "handle"
    /\ main' = "wait"
    /\ UNCHANGED <<vars, handler, status, shutdown, watcher, exitCode>>

\* stop_event.wait(): with the lock, the flag is looked at; if it is not set,
\* main leaves a waiter behind, gives the lock back and waits for the waiter,
\* then takes the lock again.  (The watcher never keeps the lock.)
EnterWait ==
    /\ main = "wait"
    /\ main' = "entered"
    /\ UNCHANGED <<vars, handler, status, shutdown, sigterm, watcher, exitCode>>

TestFlag ==
    /\ main = "entered"
    /\ main' = IF shutdown THEN "woken" ELSE "blocked"
    /\ UNCHANGED <<vars, handler, status, shutdown, sigterm, watcher, exitCode>>

Notified ==
    /\ main = "blocked"
    /\ shutdown
    /\ main' = "leaving"
    /\ UNCHANGED <<vars, handler, status, shutdown, sigterm, watcher, exitCode>>

LeaveWait ==
    /\ main = "leaving"
    /\ main' = "woken"
    /\ UNCHANGED <<vars, handler, status, shutdown, sigterm, watcher, exitCode>>

RestoreHandler ==
    /\ main = "woken"
    /\ sigterm' = "kill"
    /\ main' = "stop"
    /\ UNCHANGED <<vars, handler, status, shutdown, watcher, exitCode>>

\* The finally clause: producer.stop(), whose exception replaces any other.
StopProducer ==
    \/ /\ main = "stop"
       /\ StopBegin
       /\ main' = "stopping"
       /\ UNCHANGED <<handler, status, shutdown, sigterm, watcher, exitCode>>
    \/ /\ main = "stopping"
       /\ StopContinues
       /\ IF mpc' = "idle"
          THEN /\ main' = "exit"
               /\ status' = IF outcome' = "raised" THEN 1 ELSE status
          ELSE UNCHANGED <<main, status>>
       /\ UNCHANGED <<handler, shutdown, sigterm, watcher, exitCode>>

ExitProcess == main = "exit" /\ EndProcess(status)
-------------------------------------------------------------------------------
(***************************************************************************)
(* Signals and stdin.                                                      *)
(***************************************************************************)

\* stdin.read() returns at the end of stdin; an error ends the watcher only.
StdinEnds ==
    /\ watcher = "reading"
    /\ watcher' \in {"setting", "off"}
    /\ UNCHANGED <<vars, main, handler, status, shutdown, sigterm, exitCode>>

\* stop_event.set() of the watcher, which gives the lock back by itself.
WatcherSets ==
    /\ watcher = "setting"
    /\ ~MainHoldsLock /\ ~HandlerHoldsLock
    /\ shutdown' = TRUE
    /\ watcher' = "ended"
    /\ UNCHANGED <<vars, main, handler, status, sigterm, exitCode>>

\* The signal interrupts the main thread, also in the handler of an earlier
\* one.  (Of two handlers that both need the lock the second is served first
\* and does the work of the first.)
Sigterm ==
    \/ /\ sigterm = "handle"
       /\ handler' = IF HandlerHoldsLock THEN "nested" ELSE "acquire"
       /\ UNCHANGED <<vars, main, status, shutdown, sigterm, watcher, exitCode>>
    \/ sigterm = "kill" /\ EndProcess(Killed + 15)

\* stop_event.set() of the handler takes the lock ...
HandlerLocks ==
    /\ handler = "acquire"
    /\ ~MainHoldsLock
    /\ handler' = "locked"
    /\ UNCHANGED <<vars, main, status, shutdown, sigterm, watcher, exitCode>>

\* ... sets the flag and gives it back.
HandlerSets ==
    /\ handler = "locked"
    /\ shutdown' = TRUE
    /\ handler' = "none"
    /\ UNCHANGED <<vars, main, status, sigterm, watcher, exitCode>>

\* Mutation: the interrupt skips stop().
InterruptUnstopped ==
    \/ /\ main \in MainStates \ {"stop", "stopping", "exit", "ended"}
       /\ main' = "exit"
       /\ handler' = "none"
       /\ sigterm' = "kill"
       /\ UNCHANGED <<vars, status, shutdown, watcher, exitCode>>
    \/ main \in {"stop", "stopping", "exit"} /\ EndProcess(Killed + 2)

\* KeyboardInterrupt, raised in the handler if one runs, counts as a shutdown,
\* with stop() if there is a producer; in stop() or after it ends the process.
\* Inside wait() main still gives the lock back, or takes it back first and
\* then gives it back; caught where it has not taken it back, it fails with a
\* RuntimeError.  Outside of the try of _wait_for_shutdown, or in its finally
\* clause, the handler of SIGTERM stays in place.
Interrupt ==
    \/ /\ main \in {"load", "start", "print", "watch", "install"}
       /\ main' = IF main = "load" THEN "exit" ELSE "stop"
       /\ UNCHANGED <<vars, handler, status, shutdown, sigterm, watcher, exitCode>>
    \/ /\ main \in {"wait", "woken"}
       /\ main' = "stop"
       /\ handler' = "none"
       /\ sigterm' \in {"kill", "handle"}
       /\ UNCHANGED <<vars, status, shutdown, watcher, exitCode>>
    \/ /\ main \in {"entered", "blocked", "leaving"}
       /\ \/ main' = "leaving" /\ UNCHANGED status
          \/ main = "blocked" /\ main' = "woken" /\ status' = 1
       /\ handler' = "none"
       /\ UNCHANGED <<vars, shutdown, sigterm, watcher, exitCode>>
    \/ main \in {"stop", "stopping", "exit"} /\ EndProcess(Killed + 2)
-------------------------------------------------------------------------------
\* What main does when no handler holds it up.
Main ==
    /\ handler = "none"
    /\ \/ LoadOk \/ LoadFails \/ StartProducer \/ PrintEndpoint
       \/ StartWatcher \/ InstallHandler
       \/ EnterWait \/ TestFlag \/ Notified \/ LeaveWait \/ RestoreHandler
       \/ StopProducer \/ ExitProcess

Handler == HandlerLocks \/ HandlerSets

ProducerThread == Producer /\ UNCHANGED cliVars

SenderThread(s) == Sender(s) /\ UNCHANGED cliVars

CliNext ==
    /\ Alive
    /\ \/ Main \/ Handler \/ StdinEnds \/ WatcherSets \/ Sigterm \/ Interrupt
       \/ ProducerThread
       \/ \E s \in Senders : SenderThread(s)

\* All threads are scheduled; nobody has to send a signal or end stdin.  Main
\* gets on between the handlers of signals that come again and again.
CliSpec ==
    /\ CliInit
    /\ [][CliNext]_allVars
    /\ SF_allVars(Alive /\ Main)
    /\ WF_allVars(Alive /\ Handler)
    /\ WF_allVars(Alive /\ WatcherSets)
    /\ WF_allVars(Alive /\ ProducerThread)
    /\ \A s \in Senders : WF_allVars(Alive /\ SenderThread(s))
-------------------------------------------------------------------------------
(***************************************************************************)
(* Properties.                                                             *)
(***************************************************************************)

\* Exit code 0 means that the capture file is closed, whoever asked for the
\* shutdown and however often; and unless stop() gave up on the sender, that no
\* capture call failed and the file holds exactly what was sent.
ExitZeroIsClean ==
    exitCode = 0 =>
        /\ ~captureOpen
        /\ abandoned = {} => ~tainted /\ (CaptureEnabled => capture = sent)

\* The end of stdin was seen, SIGTERM has been handled or is being handled, or
\* Ctrl-C or a failed start has led to stop().
ShutdownRequested ==
    shutdown \/ handler # "none" \/ watcher = "setting" \/ main = "stop"

\* A process that is asked to shut down ends, at every moment from the start of
\* the watcher on, with requests that come together, and whatever the threads
\* are doing; unless a SIGTERM caught main, or the handler of another SIGTERM,
\* with the lock of the event in hand.
ShutdownEnds == ShutdownRequested ~> ~Alive \/ SelfBlocked
===============================================================================
