------------------------------- MODULE CaptureTool -------------------------------
(* apps/capture_iq.py: look for a signal, record, validate and save.  The     *)
(* streamer (external) delivers the samples of one request after the other,   *)
(* and keeps those of a request that was given up.                            *)
EXTENDS Integers, Sequences, SequencesExt

CONSTANTS
  Wanted         \* [1 .. 2 -> Nat]: samples of the test and of the recording

VARIABLES
  options,       \* --force, --validate-only, --skip-validation
  phase,          \* where main() is
  request,       \* captures begun
  streamer,      \* samples to come, each known by its request
  samples,       \* what capture() has received
  detected,      \* bootstrap["detected"] of the test
  validation,    \* "none", "passed" or "failed"
  saved          \* the recording written

vars == <<options, phase, request, streamer, samples, detected, validation, saved>>

Options == [force : BOOLEAN, validateOnly : BOOLEAN, skip : BOOLEAN]

(* connect() and configure(): no radio, or a frequency it cannot receive.     *)
Configure ==
  \E ok \in BOOLEAN :
    /\ phase = "configure"
    /\ phase' = IF ok THEN "issue" ELSE "exit 1"
    /\ UNCHANGED <<options, request, streamer, samples, detected, validation, saved>>

(* capture(): a new request and an empty buffer. *)
IssueStreamCmd ==
  /\ phase = "issue"
  /\ request' = request + 1
  /\ streamer' = streamer \o [i \in 1 .. Wanted[request'] |-> request']
  /\ samples' = <<>> /\ phase' = "recv"
  /\ UNCHANGED <<options, detected, validation, saved>>

Complete == Len(samples) = Wanted[request]

Recv ==
  \E n \in 1 .. Len(streamer) :
    /\ phase = "recv" /\ n <= Wanted[request] - Len(samples)
    /\ samples' = samples \o SubSeq(streamer, 1, n)
    /\ streamer' = SubSeq(streamer, n + 1, Len(streamer))
    /\ UNCHANGED <<options, phase, request, detected, validation, saved>>

(* All of them, or a time-out; an exception gives no samples at all. *)
Captured ==
  /\ phase = "recv"
  /\ phase' = IF request = 1 THEN "detect" ELSE "validate"
  /\ samples' \in {samples} \cup IF Complete THEN {} ELSE {<<>>}
  /\ UNCHANGED <<options, request, streamer, detected, validation, saved>>

(* detect_bootstrap(), of anything as long as two halves *)
Detect ==
  \E found \in IF samples = <<>> THEN {FALSE} ELSE BOOLEAN :
    /\ phase = "detect"
    /\ detected' = found
    /\ phase' = CASE ~ found /\ ~ options.force -> "exit 1"
                 [] (found \/ options.force) /\ options.validateOnly -> "exit 0"
                 [] OTHER -> "issue"
    /\ UNCHANGED <<options, request, streamer, samples, validation, saved>>

(* validate_capture(): main() reads validation["bootstrap"]["detected"],      *)
(* which raises for a recording too short to be looked at, --force or not.    *)
Validate ==
  \E valid \in BOOLEAN :
    /\ phase = "validate"
    /\ IF options.skip THEN validation' = "none" /\ phase' = "write"
       ELSE IF samples = <<>> THEN validation' = "none" /\ phase' = "exception"
       ELSE /\ validation' = IF valid THEN "passed" ELSE "failed"
            /\ phase' = IF valid \/ options.force THEN "write" ELSE "exit 1"
    /\ UNCHANGED <<options, request, streamer, samples, detected, saved>>

(* create_sigmf_meta() and write_sigmf() *)
WriteSigmf ==
  /\ phase = "write"
  /\ saved' = <<samples>> /\ phase' = "exit 0"
  /\ UNCHANGED <<options, request, streamer, samples, detected, validation>>

Init ==
  /\ options \in Options
  /\ phase = "configure" /\ request = 0 /\ streamer = <<>> /\ samples = <<>>
  /\ detected = FALSE /\ validation = "none" /\ saved = <<>>

Next ==
  \/ Configure \/ IssueStreamCmd \/ Recv \/ Captured \/ Detect \/ Validate \/ WriteSigmf

(* A recording in the test collection can be relied on: without --force it    *)
(* follows a test that found a signal and, unless validation was skipped, has *)
(* passed it; and its samples are in the order of the requests, those that    *)
(* the test left in the streamer first.                                       *)
SavedIsSound ==
  saved # <<>> =>
    /\ ~ options.validateOnly
    /\ options.force \/ (detected /\ (options.skip \/ validation = "passed"))
    /\ \A i, j \in DOMAIN saved[1] : i <= j => saved[1][i] <= saved[1][j]
===============================================================================
