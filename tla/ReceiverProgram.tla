--------------------------- MODULE ReceiverProgram ---------------------------
(* The frame shared by the programs that listen on a UDP port, eas_monitor,   *)
(* record_service and cc_extract of apps/: a main thread that sleeps, a       *)
(* signal handler that runs in it, and a receiving thread.                    *)
CONSTANT
  HasDuration    \* the program was given a duration (record_service only)

VARIABLES
  main,          \* where the main thread is in main()
  worker,        \* "waiting" in recvfrom(), "busy" or "over"
  running,       \* _running of the recorder, extractor or monitor
  listening,     \* _running of the receiver
  interrupted    \* Ctrl+C was pressed

shell == <<main, worker, running, listening, interrupted>>

ShellInit ==
  /\ main = "sleeping" /\ worker = "waiting"
  /\ running = TRUE /\ listening = TRUE /\ interrupted = FALSE

(* signal_handler() replaces Python's own and raises no KeyboardInterrupt:    *)
(* the sleep it interrupts is resumed.                                        *)
Interrupt ==
  /\ main # "ended" /\ ~ interrupted
  /\ interrupted' = TRUE /\ running' = FALSE
  /\ UNCHANGED <<main, worker, listening>>

DurationReached ==
  /\ main = "sleeping" /\ HasDuration
  /\ main' = "stopping"
  /\ UNCHANGED <<worker, running, listening, interrupted>>

StopProcessing ==
  /\ main = "stopping"
  /\ main' = "stopped" /\ running' = FALSE
  /\ UNCHANGED <<worker, listening, interrupted>>

StopListening ==
  /\ main = "stopped"
  /\ main' = "joining" /\ listening' = FALSE
  /\ UNCHANGED <<worker, running, interrupted>>

(* join(timeout=2.0) ends with the thread or without it; the socket is        *)
(* closed, the summary printed, and a daemon thread dies with the process.    *)
Leave ==
  /\ main = "joining" /\ main' = "ended"
  /\ UNCHANGED <<worker, running, listening, interrupted>>

(* A time-out of recvfrom() or the end of some work leads back to the test of *)
(* _running.                                                                  *)
WorkerEnds ==
  /\ main # "ended" /\ worker = "waiting" /\ ~ listening
  /\ worker' = "over"
  /\ UNCHANGED <<main, running, listening, interrupted>>

Ending == StopListening \/ Leave \/ WorkerEnds

(* The thread may be waiting for a datagram. *)
CanReceive == main # "ended" /\ worker = "waiting" /\ listening
===============================================================================
