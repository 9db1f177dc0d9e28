---------------------------- MODULE SegmentRecorder ----------------------------
(* apps/record_service.py: media segments of the services, one numbered file  *)
(* each, under a directory that a later run of the program may find filled.   *)
EXTENDS ReceiverProgram, Integers, Sequences

CONSTANTS
  Services, Types,   \* of segments
  Filter,            \* the services recorded, all or the one asked for
  MaxArrivals, MaxRuns

VARIABLES
  counters,      \* _segment_counters
  stats,         \* segments_received, segments_written, errors
  disk,          \* the files there are: where and what they hold
  arrivals,      \* datagrams so far; a segment is known by its number
  recorded,      \* history: the segments of this run, in the order numbered,
                 \* each with what became of its file
  began,         \* history: the arrivals when this run began
  runs           \* program runs

recorder == <<counters, stats, disk, arrivals, recorded, began, runs>>
vars == <<shell, recorder>>

Keys == Services \X Types
File(key, number, holds) == [key |-> key, number |-> number, holds |-> holds]
Lost == 0        \* what a file holds whose writing was cut off

Arrive == CanReceive /\ arrivals < MaxArrivals /\ arrivals' = arrivals + 1

Ignore(key) ==
  /\ Arrive
  /\ ~ running \/ key[1] \notin Filter
  /\ UNCHANGED <<shell, counters, stats, disk, recorded, began, runs>>

(* The statistics of a segment received. *)
Count(written, errors) ==
  stats' = [received |-> stats.received + 1, written |-> stats.written + written,
            errors |-> stats.errors + errors]

(* mkdir() lies outside the try: the exception reaches the receiving thread.  *)
NoDirectory(key) ==
  /\ Arrive /\ running /\ key[1] \in Filter
  /\ Count(0, 0)
  /\ UNCHANGED <<shell, counters, disk, recorded, began, runs>>

(* Mutant: video and audio of a service share a counter. *)
NumberedByService(key) ==
  counters' = [k \in Keys |-> IF k[1] = key[1] THEN counters[k] + 1 ELSE counters[k]]

Numbered(key) == counters' = [counters EXCEPT ![key] = @ + 1]

(* open() empties the file of that number, which an earlier run may have left. *)
Put(key, holds) ==
  disk' = {f \in disk : f.key # key \/ f.number # counters'[key]}
            \cup {File(key, counters'[key], holds)}

(* The segment is written, or cut off by a failing write(); when open() fails *)
(* there is no file, or the one of the earlier run is still there.            *)
WriteSegment(key) ==
  \E result \in {"written", "cut", "unopened"} :
    /\ Arrive /\ running /\ key[1] \in Filter
    /\ Numbered(key)
    /\ recorded' = [recorded EXCEPT ![key] =
                      Append(@, [segment |-> arrivals', result |-> result])]
    /\ \/ result = "written" /\ Put(key, arrivals') /\ Count(1, 0)
       \/ result = "cut" /\ Put(key, Lost) /\ Count(0, 1)
       \/ result = "unopened" /\ UNCHANGED disk /\ Count(0, 1)
    /\ UNCHANGED <<shell, began, runs>>

Fresh ==
  /\ counters' = [k \in Keys |-> 0]
  /\ recorded' = [k \in Keys |-> <<>>]
  /\ stats' = [received |-> 0, written |-> 0, errors |-> 0]

(* The program is started again over the same directory. *)
StartAgain ==
  /\ main = "ended" /\ runs < MaxRuns
  /\ runs' = runs + 1 /\ began' = arrivals /\ Fresh
  /\ main' = "sleeping" /\ worker' = "waiting"
  /\ running' = TRUE /\ listening' = TRUE /\ interrupted' = FALSE
  /\ UNCHANGED <<disk, arrivals>>

Init ==
  /\ ShellInit
  /\ counters = [k \in Keys |-> 0] /\ recorded = [k \in Keys |-> <<>>]
  /\ stats = [received |-> 0, written |-> 0, errors |-> 0]
  /\ disk = {} /\ arrivals = 0 /\ began = 0 /\ runs = 1

Next ==
  \/ \E key \in Keys : Ignore(key) \/ NoDirectory(key) \/ WriteSegment(key)
  \/ StartAgain
  \/ (Interrupt \/ DurationReached \/ StopProcessing \/ Ending) /\ UNCHANGED recorder

(* The segment that a number of this run stands for, and what there is under  *)
(* that number: of an earlier run, when the file could not be opened.         *)
Under(key, number) == {f.holds : f \in {g \in disk : g.key = key /\ g.number = number}}

Expected(entry, found) ==
  CASE entry.result = "written"  -> found = {entry.segment}
    [] entry.result = "cut"      -> found = {Lost}
    [] entry.result = "unopened" -> found \subseteq 0 .. began

(* What a directory holds is what a player needs: of every service and type   *)
(* the segments of this run are numbered without a gap in the order they      *)
(* came, and under each number is that segment, or what a failed write or an  *)
(* earlier run left there, never a segment of this run that belongs to        *)
(* another number.  Files beyond the last number are what earlier runs left.  *)
FilesInArrivalOrder ==
  \A k \in Keys :
    /\ counters[k] = Len(recorded[k])
    /\ \A n \in 1 .. counters[k] : Expected(recorded[k][n], Under(k, n))
    /\ \A m, n \in 1 .. counters[k] :
         m < n => recorded[k][m].segment < recorded[k][n].segment
===============================================================================
