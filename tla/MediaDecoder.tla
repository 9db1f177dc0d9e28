------------------------------ MODULE MediaDecoder ------------------------------
(* av/hevc_decoder.cc and av/audio_decoder.cc, which share one shape: packets *)
(* into an FFmpeg codec (external), frames out of it through a ring buffer    *)
(* that drops the newest when it is full.  The video decoder's frames point   *)
(* into a pool of buffers used in turn; an audio frame owns its samples,      *)
(* which is a pool that never comes round.                                    *)
EXTENDS Integers, Sequences, FiniteSets

CONSTANTS
  OutputSize,    \* OUTPUT_BUFFER_SIZE: one slot of the ring buffer stays free
  PoolSize,      \* of frame_pool_; large for audio
  MaxPackets,    \* bound: packets offered
  MaxDelay       \* bound: packets the codec holds back

VARIABLES
  codec,         \* packets inside, "drained" after flush(), "closed"
  receiving,     \* inside receive_frames()
  output,        \* output_buffer_: numbers of the frames queued
  held,          \* the frame the consumer took last, 0 if none
  pool,          \* slot -> the frame whose picture it holds
  converted,     \* frames numbered: frame_pool_idx_, up to a rotation
  dropped,       \* history: the frames there was no room for
  packets

vars == <<codec, receiving, output, held, pool, converted, dropped, packets>>

Codec(state, inside) == [state |-> state, inside |-> inside]
Open == codec.state # "closed"

(* send_packet() that succeeds: the codec takes the packet, or has no room    *)
(* for it (EAGAIN). *)
SendPacket ==
  /\ codec.state = "ready"
  /\ \/ codec.inside < MaxDelay /\ codec' = Codec(codec.state, codec.inside + 1)
     \/ codec.inside > 0 /\ UNCHANGED codec

(* decode(): nothing is received for a packet that the codec refuses. *)
Decode ==
  /\ Open /\ ~ receiving /\ packets < MaxPackets
  /\ packets' = packets + 1
  /\ \/ SendPacket /\ receiving' = TRUE
     \/ UNCHANGED <<codec, receiving>>
  /\ UNCHANGED <<output, held, pool, converted, dropped>>

(* flush(): a null packet; the codec takes nothing afterwards. *)
Flush ==
  /\ Open /\ ~ receiving
  /\ codec' = Codec("drained", codec.inside) /\ receiving' = TRUE
  /\ UNCHANGED <<output, held, pool, converted, dropped, packets>>

SlotOfQueue(n) == n % OutputSize   \* mutant: a buffer per slot of the queue
(* get_frame_buffer(): the next slot of the pool. *)
Slot(n) == n % PoolSize

(* receive_frames(), one turn: convert_frame() copies the picture to the pool *)
(* before it is known whether there is room in the queue.                     *)
Receive ==
  /\ receiving /\ codec.inside > 0
  /\ LET n == converted + 1
         full == Len(output) = OutputSize - 1
     IN  /\ converted' = n
         /\ pool' = [pool EXCEPT ![Slot(n)] = n]
         /\ output' = IF full THEN output ELSE Append(output, n)
         /\ dropped' = IF full THEN dropped \cup {n} ELSE dropped
  /\ codec' = Codec(codec.state, codec.inside - 1)
  /\ UNCHANGED <<receiving, held, packets>>

(* A frame of no known format, or one the resampler fails on. *)
Skip ==
  /\ receiving /\ codec.inside > 0
  /\ codec' = Codec(codec.state, codec.inside - 1)
  /\ UNCHANGED <<receiving, output, held, pool, converted, dropped, packets>>

(* The codec wants more input, is at its end, or fails. *)
Received ==
  /\ receiving /\ receiving' = FALSE
  /\ UNCHANGED <<codec, output, held, pool, converted, dropped, packets>>

(* get_frame(), on the playback thread, which looks at the picture until it   *)
(* comes for the next. *)
GetFrame ==
  /\ output # <<>>
  /\ held' = Head(output) /\ output' = Tail(output)
  /\ UNCHANGED <<codec, receiving, pool, converted, dropped, packets>>

(* shutdown() and init(): a new codec and pool, frames numbered on; playback  *)
(* has stopped. *)
Restart ==
  /\ ~ receiving /\ Open
  /\ codec' = Codec("closed", 0)
  /\ output' = <<>> /\ held' = 0
  /\ UNCHANGED <<receiving, pool, converted, dropped, packets>>

InitCodec ==
  /\ ~ Open
  /\ codec' = Codec("ready", 0)
  /\ UNCHANGED <<receiving, output, held, pool, converted, dropped, packets>>

Init ==
  /\ codec = Codec("closed", 0) /\ receiving = FALSE
  /\ output = <<>> /\ held = 0
  /\ pool = [s \in 0 .. PoolSize - 1 |-> 0] /\ converted = 0
  /\ dropped = {} /\ packets = 0

Next == Decode \/ Flush \/ Receive \/ Skip \/ Received \/ GetFrame \/ Restart \/ InitCodec

(* The frames that playback may still look at, and those dropped after one.  *)
Shown == {output[i] : i \in DOMAIN output} \cup ({held} \ {0})
Missed(n) == {d \in dropped : d > n}

(* The frame that playback looks at, and every frame queued, still shows its  *)
(* own picture, unless playback has been so slow that as many frames were     *)
(* dropped since as the queue has slots: twice as many pool buffers as slots  *)
(* are enough for that and no more.                                           *)
PicturesKept ==
  \A n \in Shown : Cardinality(Missed(n)) <= OutputSize => pool[Slot(n)] = n
===============================================================================
