----------------------------- MODULE AlertMonitor -----------------------------
(* apps/eas_monitor.py: emergency alerts that arrive again and again, shown   *)
(* once an hour.                                                              *)
EXTENDS ReceiverProgram, Integers, Sequences

CONSTANTS
  Identifiers,   \* CAP identifiers; "" for an alert that has none
  Hour,          \* 3600 seconds, in ticks
  MaxTime        \* bound of the clock

VARIABLES
  now,           \* datetime.now()
  recent,        \* _recent_alerts
  errors,        \* stats["parse_errors"]
  counted,       \* number of alerts in stats["by_type"]
  announced      \* history: what was displayed and given to the callbacks

monitor == <<recent, errors, counted, announced>>
vars == <<shell, now, monitor>>

Tick == now < MaxTime /\ now' = now + 1 /\ UNCHANGED <<shell, monitor>>

Kept == {e \in recent : now - e.at < Hour}

IsDuplicate(id) == \E e \in Kept : e.id = id

Remember(id) == recent' = Kept \cup {[id |-> id, at |-> now]}

(* A header cut off, no XML or no alert in it. *)
ParseError ==
  /\ CanReceive /\ errors < MaxTime
  /\ errors' = errors + 1
  /\ UNCHANGED <<shell, now, recent, counted, announced>>

Duplicate(id) ==
  /\ CanReceive /\ IsDuplicate(id)
  /\ recent' = Kept
  /\ UNCHANGED <<shell, now, errors, counted, announced>>

(* Mutant: the hour counts for the newest alert only. *)
AnnounceForgetful(id) ==
  /\ CanReceive /\ ~ IsDuplicate(id)
  /\ recent' = {[id |-> id, at |-> now]}
  /\ counted' = counted + 1
  /\ announced' = Append(announced, [id |-> id, at |-> now])
  /\ UNCHANGED <<shell, now, errors>>

(* Statistics, log, display, callbacks: an exception in one of the callbacks  *)
(* is kept from the others.                                                   *)
Announce(id) ==
  /\ CanReceive /\ ~ IsDuplicate(id)
  /\ Remember(id)
  /\ counted' = counted + 1
  /\ announced' = Append(announced, [id |-> id, at |-> now])
  /\ UNCHANGED <<shell, now, errors>>

(* The console is gone: print() raises when the alert is already recorded as  *)
(* seen, and the callbacks are not reached.                                   *)
DisplayFails(id) ==
  /\ CanReceive /\ ~ IsDuplicate(id) /\ errors < MaxTime
  /\ Remember(id)
  /\ counted' = counted + 1 /\ errors' = errors + 1
  /\ UNCHANGED <<shell, now, announced>>

Init ==
  /\ ShellInit
  /\ now = 0 /\ recent = {} /\ errors = 0 /\ counted = 0 /\ announced = <<>>

Next ==
  \/ Tick \/ ParseError
  \/ \E id \in Identifiers : Duplicate(id) \/ Announce(id) \/ DisplayFails(id)
  \/ (Interrupt \/ DurationReached \/ StopProcessing \/ Ending) /\ UNCHANGED <<now, monitor>>

Spec == Init /\ [][Next]_vars

FairSpec ==
  Spec /\ WF_vars((DurationReached \/ StopProcessing \/ Ending) /\ UNCHANGED <<now, monitor>>)

(* A broadcast repeats its alerts: between two announcements of one alert     *)
(* lies the hour that _is_duplicate() asks for, however many other alerts     *)
(* come and go in between.                                                    *)
AnnouncedOncePerHour ==
  \A i, j \in DOMAIN announced :
    i < j /\ announced[i].id = announced[j].id
      => announced[j].at - announced[i].at >= Hour

(* eas_monitor.py:712 prints "Press Ctrl+C to stop monitoring...". *)
CtrlCStops == interrupted ~> main = "ended"
===============================================================================
