------------------------------- MODULE FileSource -------------------------------
(* hal/src/file_source.cc: samples read from a recording, once or in a loop,  *)
(* in requests of any size; the last sample of the file may be cut off.       *)
EXTENDS Integers, FiniteSetsExt

CONSTANTS
  SampleBytes,   \* sizeof(std::complex<float>)
  FileSizes,     \* of recordings, in bytes
  Requests,      \* sample counts asked for
  MaxSamples     \* bound of what is read in all

VARIABLES
  file,          \* size of the file and whether to loop
  offset,        \* read position of the stream
  failed,        \* eofbit and failbit, or badbit: reading gives nothing
  error,         \* last_error_
  delivered,     \* samples_read_
  inOrder        \* history: sample k was the k-th of the file, over and over

vars == <<file, offset, failed, error, delivered, inOrder>>

Samples == file.size \div SampleBytes

(* ifstream::read() at a position: the bytes there are *)
Bytes(at, n) == Min({n * SampleBytes, file.size - at})

(* The samples from a position on are those that come next. *)
Continues(at, already) ==
  at % SampleBytes = 0 /\ at \div SampleBytes = (delivered + already) % Samples

Finish(n, order) ==
  /\ delivered' = delivered + n
  /\ inOrder' = (inOrder /\ order)
  /\ UNCHANGED file

ReadWhole ==
  \E n \in Requests :
    /\ failed = "no" /\ delivered < MaxSamples
    /\ Bytes(offset, n) = n * SampleBytes
    /\ offset' = offset + n * SampleBytes
    /\ error' = "success"
    /\ Finish(n, Continues(offset, 0))
    /\ UNCHANGED failed

(* The end of the file, reached now or by an earlier read. *)
AtEnd(n) == failed = "eof" \/ (failed = "no" /\ Bytes(offset, n) < n * SampleBytes)
Remainder == IF failed = "eof" THEN 0 ELSE Bytes(offset, Samples + 1) \div SampleBytes

ReadToEnd ==
  \E n \in Requests :
    /\ ~ file.loop /\ AtEnd(n) /\ delivered < MaxSamples
    /\ offset' = file.size /\ failed' = "eof"
    /\ error' = "end"
    /\ Finish(Remainder, Remainder = 0 \/ Continues(offset, 0))

(* Mutant: what remains is read for the whole request. *)
ReadAroundAgain ==
  \E n \in Requests :
    /\ file.loop /\ AtEnd(n) /\ delivered < MaxSamples
    /\ LET first == Remainder
           again == Bytes(0, n)
       IN  /\ offset' = again
           /\ failed' = IF again < (n - first) * SampleBytes THEN "eof" ELSE "no"
           /\ error' = "success"
           /\ Finish(n, /\ first = 0 \/ Continues(offset, 0)
                        /\ again < SampleBytes \/ Continues(0, first))

(* clear(), seekg(0), and the rest of the request from the beginning, which   *)
(* may reach the end again *)
ReadAround ==
  \E n \in Requests :
    /\ file.loop /\ AtEnd(n) /\ delivered < MaxSamples
    /\ LET first == Remainder
           again == Bytes(0, n - first)
       IN  /\ offset' = again
           /\ failed' = IF again < (n - first) * SampleBytes THEN "eof" ELSE "no"
           /\ error' = "success"
           /\ Finish(first + again \div SampleBytes,
                     /\ first = 0 \/ Continues(offset, 0)
                     /\ again < SampleBytes \/ Continues(0, first))

(* The disk fails; every later read fails with it. *)
ReadFails ==
  /\ failed # "eof"
  /\ failed' = "bad" /\ error' = "read error"
  /\ UNCHANGED <<file, offset, delivered, inOrder>>

Init ==
  /\ file \in [size : FileSizes, loop : BOOLEAN]
  /\ offset = 0 /\ failed = "no" /\ error = "success"
  /\ delivered = 0 /\ inOrder = TRUE

Next == ReadWhole \/ ReadToEnd \/ ReadAround \/ ReadFails

(* A replayed recording has no seam: whatever the sizes of the requests and   *)
(* of the file, samples come in the order recorded, over and over in a loop;  *)
(* without one, the end is reported when the last whole sample is out.        *)
RecordingInOrder ==
  /\ inOrder
  /\ error = "end" => delivered = Samples
===============================================================================
