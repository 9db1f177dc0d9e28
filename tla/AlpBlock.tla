-------------------------------- MODULE AlpBlock --------------------------------
(* blocks/atsc3_alp_demux_impl.cc around AlpDemux: packets go out on message  *)
(* ports as soon as they are parsed and through a queue to the stream, where  *)
(* a tag marks the length of each.                                            *)
EXTENDS Integers, Sequences

CONSTANTS
  Plps,            \* numbers of PLPs; -1 selects them all
  Types,           \* of packets: IP, TS, signalling
  Sizes,           \* of packets
  Spaces,          \* noutput_items
  MaxPackets       \* bound: packets parsed

VARIABLES
  plpId,           \* plp_id_, set from any thread
  pending,         \* pending_packets_ and pending_types_
  working,         \* general_work(): the space left in its output, and where it is
  ports, stream,   \* history: packets published, packets written with their tag
  counts           \* packet_count_ and the counts by type

vars == <<plpId, pending, working, ports, stream, counts>>

All == -1

(* The head of the queue is written while it fits. *)
Fits == pending # <<>> /\ working.space > 0 /\ Head(pending).size <= working.space

Write ==
  /\ working.at \in {"before", "after"} /\ Fits
  /\ stream' = Append(stream, Head(pending))
  /\ pending' = Tail(pending)
  /\ working' = [working EXCEPT !.space = @ - Head(pending).size]
  /\ UNCHANGED <<plpId, ports, counts>>

Begin ==
  /\ working.at = "idle"
  /\ \E s \in Spaces : working' = [at |-> "before", space |-> s, plp |-> 0]
  /\ UNCHANGED <<plpId, pending, ports, stream, counts>>

(* All of the input goes to process(), as bytes of the PLP selected now ... *)
Process ==
  /\ working.at = "before" /\ ~ Fits
  /\ working' = [working EXCEPT !.at = "process", !.plp = IF plpId = All THEN 0 ELSE plpId]
  /\ UNCHANGED <<plpId, pending, ports, stream, counts>>

(* Mutant: a packet with no room in the output is not queued. *)
CallbackIfRoom ==
  \E t \in Types, n \in Sizes :
    LET packet == [type |-> t, size |-> n, number |-> Len(ports) + 1]
    IN  /\ working.at = "process" /\ Len(ports) < MaxPackets
        /\ plpId \in {All, working.plp}
        /\ ports' = Append(ports, packet)
        /\ pending' = IF n <= working.space THEN Append(pending, packet) ELSE pending
        /\ counts' = [counts EXCEPT ![t] = @ + 1]
        /\ UNCHANGED <<plpId, working, stream>>

(* ... and a packet is let through if it is of the PLP selected by then. *)
Callback ==
  \E t \in Types, n \in Sizes :
    LET packet == [type |-> t, size |-> n, number |-> Len(ports) + 1]
    IN  /\ working.at = "process" /\ Len(ports) < MaxPackets
        /\ plpId \in {All, working.plp}
        /\ ports' = Append(ports, packet)
        /\ pending' = Append(pending, packet)
        /\ counts' = [counts EXCEPT ![t] = @ + 1]
        /\ UNCHANGED <<plpId, working, stream>>

Filtered ==
  /\ working.at = "process" /\ plpId \notin {All, working.plp}
  /\ UNCHANGED vars

Processed ==
  /\ working.at = "process"
  /\ working' = [working EXCEPT !.at = "after"]
  /\ UNCHANGED <<plpId, pending, ports, stream, counts>>

(* Packets with no room wait for the next call. *)
Return ==
  /\ working.at = "after" /\ ~ Fits
  /\ working' = [working EXCEPT !.at = "idle"]
  /\ UNCHANGED <<plpId, pending, ports, stream, counts>>

SetPlpId ==
  /\ plpId' \in Plps \cup {All}
  /\ UNCHANGED <<pending, working, ports, stream, counts>>

Init ==
  /\ plpId \in Plps \cup {All}
  /\ pending = <<>> /\ ports = <<>> /\ stream = <<>>
  /\ working = [at |-> "idle", space |-> 0, plp |-> 0]
  /\ counts = [t \in Types |-> 0]

Next ==
  \/ Begin \/ Write \/ Process \/ Callback \/ Filtered \/ Processed \/ Return
  \/ SetPlpId

(* The stream carries the packets that the ports carry, whole and in order,   *)
(* however small its buffer is from call to call; what it owes is queued, and *)
(* a call that leaves a packet queued had no room for the next.               *)
StreamIsThePackets ==
  /\ stream \o pending = ports
  /\ working.at = "idle" /\ pending # <<>> => working.space < Head(pending).size
===============================================================================
