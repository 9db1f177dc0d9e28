----------------------------- MODULE MetricsStore -----------------------------
(* apps/metrics_server.py: an updater thread writes the metrics, requests     *)
(* read them.  A value is known by the update it comes from.                  *)
EXTENDS Integers

CONSTANTS
  Fields,        \* keys of the dictionary, written one after the other
  Readers,       \* requests being served
  MaxUpdates, MaxRequests,
  None

VARIABLES
  metrics,       \* _metrics
  lock,          \* _lock: its holder
  pending,       \* fields update() has not written yet
  updates,       \* updates begun
  copy,          \* [Readers -> [field -> value]]: what dict() has copied
  served,        \* the snapshots sent
  requests

vars == <<metrics, lock, pending, updates, copy, served, requests>>

Empty == [f \in {} |-> 0]

(* SimulatedMetricsUpdater._generate_metrics() and MetricsStore.update() *)
UpdateBegin ==
  /\ lock = None /\ updates < MaxUpdates
  /\ lock' = "updater"
  /\ updates' = updates + 1 /\ pending' = Fields
  /\ UNCHANGED <<metrics, copy, served, requests>>

UpdateField ==
  \E f \in pending :
    /\ metrics' = [metrics EXCEPT ![f] = updates]
    /\ pending' = pending \ {f}
    /\ lock' = IF pending = {f} THEN None ELSE lock
    /\ UNCHANGED <<updates, copy, served, requests>>

(* Mutant: get() without the lock. *)
GetBeginUnlocked(r) ==
  /\ copy[r] = Empty /\ requests < MaxRequests
  /\ requests' = requests + 1
  /\ \E f \in Fields : copy' = [copy EXCEPT ![r] = [g \in {f} |-> metrics[f]]]
  /\ UNCHANGED <<metrics, pending, updates, served, lock>>

(* do_GET of "/metrics": _serve_json() and MetricsStore.get() *)
GetBegin(r) ==
  /\ lock = None /\ copy[r] = Empty /\ requests < MaxRequests
  /\ lock' = r /\ requests' = requests + 1
  /\ \E f \in Fields : copy' = [copy EXCEPT ![r] = [g \in {f} |-> metrics[f]]]
  /\ UNCHANGED <<metrics, pending, updates, served>>

GetField(r) ==
  /\ copy[r] # Empty
  /\ \E f \in Fields \ DOMAIN copy[r] :
       copy' = [copy EXCEPT ![r] = [g \in DOMAIN copy[r] \cup {f} |-> metrics[g]]]
  /\ UNCHANGED <<metrics, lock, pending, updates, served, requests>>

SendResponse(r) ==
  /\ DOMAIN copy[r] = Fields
  /\ served' = served \cup {copy[r]}
  /\ copy' = [copy EXCEPT ![r] = Empty]
  /\ lock' = IF lock = r THEN None ELSE lock
  /\ UNCHANGED <<metrics, pending, updates, requests>>

Init ==
  /\ metrics = [f \in Fields |-> 0] /\ lock = None /\ pending = {} /\ updates = 0
  /\ copy = [r \in Readers |-> Empty] /\ served = {} /\ requests = 0

Next ==
  \/ UpdateBegin \/ UpdateField
  \/ \E r \in Readers : GetBegin(r) \/ GetField(r) \/ SendResponse(r)

(* A dashboard never shows "locked" with the services of an unlocked update:  *)
(* what a request is sent belongs to one update.                              *)
SnapshotWhole == \A s \in served : \A f, g \in Fields : s[f] = s[g]
===============================================================================
