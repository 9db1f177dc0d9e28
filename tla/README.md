# A TLA+ model of usrp-atsc3

usrp-atsc3 is a software receiver for ATSC 3.0 television: samples of an SDR
(or of a recording) go in, video and audio come out. This directory holds TLA+
modules that model its control logic and its discrete algorithms, TLC
configurations that check them on small instances, and proofs for all instances
that the TLA+ proof system checks. Paths below are relative to the repository
(`src/` in `PROJECT.json`).

Contents: [the system](#the-system), [what is hard](#what-is-hard),
[the modules](#the-modules), [the runs](#the-runs), [the proofs](#the-proofs),
[where code and documents disagree](#where-code-and-documents-disagree),
[not modelled](#not-modelled), [the plan](#the-plan),
[how to run it](#how-to-run-it).

## The system

Four layers, from the antenna to the screen:

| layer | what it is | threads |
|---|---|---|
| `hal/` | sources of samples (file, null, UHD) and gain control | called by one block |
| `lib/` | the algorithms: synchronisation, OFDM, channel, FEC, framing, metrics, configuration | none of its own |
| `blocks/` | GNU Radio blocks around `lib/`, connected by streams and message ports | one thread per block; the API is called from the application |
| `av/`, `apps/` | player, decoders, ring buffer; Python programs | GStreamer's and the programs' own |

In a GNU Radio flowgraph each block has a thread, which alternates between the
block's work function and the handlers of the messages in its ports; a message
port is a FIFO queue. The setters and `reset()` of a block are called by the
application on a thread of its own. That is where most of the concurrency of
this program comes from.

Components, the state they keep, their operations and partners:

| component (files) | state | operations | talks to | what makes it correct |
|---|---|---|---|---|
| Frame queue (`av/ring_buffer.h`) | array, two atomic indices | push, pop, peek, clear | one producer and one consumer thread | it is a bounded FIFO; no slot is written while read |
| Frame synchroniser (`lib/sync/frame_sync.cc`) | tracker state, hit, miss and holdover counters, expected boundary | process, set_bootstrap_offset, update_frame_params, reset | fed chunk by chunk; bootstrap detector | locks on evidence, gives a lock up through holdover, gives up when there is no signal |
| Lock supervisor (`blocks/atsc3_lock_supervisor_impl.cc`) | locked, run of unlocks, reset count, threshold, delay | lock_status messages, manual_reset, setters | bootstrap_detect and ofdm_demod report to it; its resets go to the receiver's blocks | resets are numbered, justified, and lead to a new lock report |
| Bootstrap detection (`blocks/atsc3_bootstrap_detect_impl.cc`) | locked now and before | work, reset | supervisor, frame synchroniser | every change of lock is reported, also after a reset |
| L1 decoder and configuration bus (`lib/framing/l1_decoder.cc`, `lib/config/config_bus.cc`) | L1 pre and post, last configuration, array of observers | decode, build_config, register, unregister, publish | every configurable component | what is published as valid is one broadcast frame; every observer is told |
| L1 monitor (`blocks/atsc3_l1_monitor_impl.cc`) | configuration under a mutex | l1_config messages, getters, JSON | application; rebroadcasts the message | every message is published; readers return |
| Configured blocks (`blocks/atsc3_{constellation_demapper,fec_decode,time_deinterleaver}_impl.cc`) | settings, PLP id, decoder object | l1_config messages, setters | L1 monitor, application | the decoder in use was built from the settings reported |
| OFDM demodulator (`blocks/atsc3_ofdm_demod_impl.cc`, `lib/ofdm/cp_removal.cc`) | prefix length, partly filled symbol, place in the stream | work, set_cp_length, reset | channel equaliser | symbols are whole and begin where the stream's do |
| Pilot extraction (`lib/ofdm/pilot_extractor.cc`) | pattern, active carriers, symbol index | extract, is_pilot, set_config | channel estimation | extraction and test agree on the places |
| Channel estimation and equaliser (`lib/channel/channel_estimator.cc`, `equalizer.cc`, `blocks/atsc3_channel_eq_impl.cc`) | averaged estimate, residual phase, symbol index | estimate, equalize, reset, reconfigure | pilot extraction, demapper | what was sent is recovered; nothing survives a reset |
| De-interleavers (`lib/ofdm/{time,cell,freq}_deinterleaver.cc` and blocks) | delay lines with write positions; tables | process, set_config, reset | transmitter's interleavers | each undoes its interleaver, also after a disturbance or another size |
| FEC (`lib/fec/`) | matrix, LLRs and messages; error locator | decode, set_config, reset | ALP demultiplexer | what is handed out as corrected is what was sent |
| ALP demultiplexer (`lib/framing/alp_demux.cc`) | input buffer, reassembly contexts | process, flush, reset | ALP block; callbacks with datagrams | packets are found however the stream is cut; datagrams are whole and in order |
| ALP block (`blocks/atsc3_alp_demux_impl.cc`) | queue of pending packets, selected PLP | general_work, callbacks, set_plp_id | output buffer, message ports | packets leave whole and in order, none is lost |
| ROUTE parser (`lib/framing/route_parser.cc`, `blocks/atsc3_route_parser_impl.cc`) | current service list, MPD cache, segment buffer | process_signaling, reset | catalog; `catalog` and `segment` messages | the catalog lists the last table |
| Service catalog (`lib/framing/service_catalog.cc`) | array of services, count | update, remove, clear, find | parser, update callback | services are the first `count` entries, ids are unique |
| Service guide (`blocks/atsc3_service_guide_impl.cc`) | copy of the service list | handle_catalog, readers | `catalog` messages, application | shows what the catalog holds |
| Service selector (`blocks/atsc3_service_selector_impl.cc`) | selected service, sessions, object, segment buffer | general_work, set_service_id | ALP block, player | a segment is one object of the selected service |
| Player (`av/gst_player.cc`, `blocks/atsc3_av_player_impl.cc`) | player state, first data seen | push, play, pause, stop, bus messages | GStreamer | nothing starts or stops against the user; no thread is left in a deleted player |
| Media decoders (`av/{hevc,audio}_decoder.cc`) | FFmpeg's, picture pool, output queue | decode, flush, get_frame, init, shutdown | playback thread | a frame on its way keeps its picture |
| Sources and AGC (`hal/src/`) | file position; settings of the radio; gain | read, set_*, process | bootstrap detection | samples in order, settings reported truly, gain at rest |
| Applications (`apps/*.py`) | alert history, counters, files, metrics, radio | signal handlers, receiving and HTTP threads, main loops | blocks, UDP, HTTP, files | see the modules below |
| Timing, frequency, demapper mathematics, metrics | filters, estimates | numerical loops | the chain | numerical |

Interactions on message ports: `lock_status` (synchronisation blocks to the
supervisor), `reset` (supervisor to every block of the receiver), `l1_config`
(to the monitor, and on to de-interleaver, demapper and FEC), `catalog` (ROUTE
parser to guide) and `service_select` (guide to selector). Callbacks: of the ALP
demultiplexer to its block, of the catalog to the parser block, of the
configuration bus to its observers. Shared state: the supervisor's flags and the
monitor's configuration under a mutex; the catalog, the selector's session and
the decoders of the configured blocks without one; the ring buffer by atomics.

## What is hard

`PROJECT.json` lists every hazard at its line. The kinds that matter here:

* two threads on one object: API calls against handlers and work functions
  (supervisor, ROUTE parser's `reset()`, selector, configured blocks, player),
  the lock-free ring buffer, signal handlers and HTTP threads of the programs;
* streams cut anywhere: ALP packets and OFDM symbols arrive in chunks of any
  size, segments get lost, datagrams of several sub-streams share few contexts;
* state that survives what should have ended it: tracker counters, write
  positions of the delay lines, contexts after `flush()`, the catalog after
  removals, the error locator of the previous codeword, the locks of a monitor;
* something that must happen: holdover must end, a reset must lead to a new
  lock report, a lost signal must be noticed, a configuration must be published,
  the gain must come to rest, Ctrl+C must end a program;
* arithmetic at a boundary: full against empty, wrapping segment numbers,
  permutations of sizes that are no power of two, the seam of a looped file.

## The modules

### Frame queue: `BoundedFifo`, `RingBuffer`

`BoundedFifo` is the promise: a queue of at most `Capacity - 1` items with
put, take and clear. `RingBuffer` is `av/ring_buffer.h`, one step per access to
an atomic or to the array: `PushBegin`/`PushFull` load both indices and decide,
`PushWrite` fills the slot, `PushPublish` stores `head_`; likewise for pop, peek
and clear. The loads and stores are acquire and release and each index has a
single writer, so an interleaving of single accesses shows every outcome the C++
memory model allows. A pointer from `peek()` stays in use (`cons = "peeked"`)
until the consumer does something else. That is the contract of the class: the
decoders themselves call `peek()` only when a frame callback is set, and then on the
producer's thread (`hevc_decoder.cc:244`, `audio_decoder.cc:309`). `Fifo` maps the
indices to the queue.

### Frame synchroniser: `FrameSync`

State machine SEARCHING, ACQUIRING, LOCKED, HOLDOVER. `Process(n)` is
`process()` on a chunk of n samples and contains the handler of the current
state, as one action per outcome (`SearchHit`, `SearchMiss`, `AcquireHit`, ...).
All comparisons of the code relate `expected_boundary_` to `sample_counter_`, so
the model keeps their difference, `boundary`; it is cut off at `-PastFloor`.
A correlation is abstracted to whether it passes its threshold and where; the
offsets at which it may pass are those the loops search (`CoarseOffsets`,
`AcquireOffsets`, `TrackOffsets`), which depend on the chunk, the preamble length
and the window exactly as in the code. `TransitionState` resets the counters
of the state it enters and no others, as the code does.

### Lock recovery: `LockSupervisor`

The first half is the block on its own: the message handler, whose test of
the relock delay lies outside the mutex and therefore is a step of its own
(`TakeReport`) before the critical section (`ApplyLock`, `ApplyUnlock`), the API
calls from the application's thread, and a clock. `trigger_reset` runs on either
thread; it counts a reset (`CountReset`) and then sends what the counter is by then
(`SendReset`), two steps between which only `mutex_` keeps the other thread out
(`resetting`). The second half is the loop: it
adds `bootstrap_detect`, which reports changes of its lock, and the two message
queues between them, as in the connection example of
`blocks/grc/atsc3_lock_supervisor.block.yml`.

### Signalling: `SignallingPath`, `L1Control`

`SignallingPath` joins `L1Decoder` and `ConfigBus` the way the usage notes of
their headers do. A frame's two parts arrive as sent or damaged, each for
itself (`Received`); reserved indices read as the defaults (`Unpack`); a PLP
count of zero is replaced by the hint the code passes (`UnpackPlps`);
`build_config` joins the parts and the bus stores it and tells the observers in
its array, which come and go; `due` records who ought to have been told what. `L1Control` is what l1_config messages do: each
receiving block has a queue, a handler that looks for its PLP (`Entry`), and
setters on the application's thread, and both run `reconfigure()`, which reads
the settings (`Build`) and then puts the new decoder in place (`Replace`). The
monitor's mutex is a variable with its holder; `get_l1_json` wants it again
while the handler holds it.

### From samples to bits: `OfdmDemod`, `Pilots`, `ChannelEqualizer`, `TimeDeinterleaver`, `Deinterleavers`

`OfdmDemod` cuts the stream: a sample is its place in the stream, the FFT is the
identity, `Collect` is the loop of `CpRemoval::process` and `Work` one call of
the block with what GNU Radio's `sync_block` consumes for it. `Pilots` places the
scattered, continual and edge pilots for a configuration and symbol in both
ways the code has, by extraction and by `is_pilot`.

`ChannelEqualizer` takes a symbol from its pilots to its equalized carriers: least
squares at the pilots, the straight line between and beyond them, the running
average, zero forcing or MMSE, and the smoothed residual phase. A sample has one
coordinate, a channel is an integer per subcarrier and a quotient stays a pair, so
that the arithmetic is the code's without its rounding; the difference of two
`size_t` wraps at `SizeT`. There are two callers: the block, which hands over the
whole output of the FFT, and a user of the library who follows its header.

`TimeDeinterleaver`: one delay line per row, with its write position, and
`process()` on a whole block: cell i belongs to row `i % num_rows`, is written
where the position is and takes out what was there. `Resized` is
`std::vector::resize`, which keeps contents; `SetConfig` therefore keeps contents
and positions, and a position may lie outside a shortened line. Such an access is
undefined: what is read is `Wild`, what is written is gone, and the position
wraps. `Reconfigure` is what the block does instead, a new object. The
transmitter, an external part, is a pure function of the block number (`OnAir`):
row r of its interleaver delays by r blocks' worth of row cells, as the code's
comments and the tests' reference interleaver have it. A cell is tagged with the
block and place it was sent from.

`Deinterleavers` builds the permutations of `compute_permutation` as sets of
pairs: places whose bit reversal is in range change with it, the others take what
is left over in order (`Forward`); the tables in use are rebuilt when a size
changes, and a copy is taken for size zero.

### Error correction: `BchDecoder`, `LdpcDecoder`

`BchDecoder` is the algebraic decoder as it runs: syndromes, Berlekamp-Massey,
the copy of the locator, Chien search, correction, and the check afterwards, over
a field of 16 elements. An element of the field is the set of its non-zero
coefficients and adding is the symmetric difference. `error_locator_` is a
variable, because it outlives a codeword. `LdpcDecoder` has the generator of the
base matrices with its constants and `validate_matrix`, run for the twelve rates
and two lengths of the standard (`LoadParityMatrix`), and decodes with a small
matrix of the same generator, one check node a step, in the integer
arithmetic of the fixed-point path and, scaled so that nothing is rounded, of the
float path.

### ALP: `AlpFraming`, `AlpReassembly`, `AlpDatagrams`, `AlpBlock`

`AlpFraming` is the loop of `AlpDemux::process()`: chunks of the byte stream
are appended to the input buffer, a header is parsed, a packet waits for its
payload or is handled. A byte is known by the packet it belongs to and its place
there; that is all `parse_header` can tell apart once the header sizes
(`Shapes`) are given. A byte in the middle of a packet read as a header may be
taken for any header. `AlpReassembly` is what `handle_ipv4_packet` does with
segments: find or open a context, check the sequence and the size, extend,
complete, verify the CRC. `AlpDatagrams` is the promise to the client: per
sub-stream, datagrams in order and at most once. `MCAlpChannel` puts one
transmitter per sub-stream, which cuts one datagram after the other into segments,
and a channel that loses and damages segments in front of
`AlpReassembly` and shows that it keeps the promise. `AlpBlock` is
`general_work()` around the demultiplexer: it drains the pending queue, processes
the input, whose callbacks publish on a port and append to the queue, and drains
again; `set_plp_id` may fall anywhere.

### Services: `ServiceCatalog`, `ServiceDiscovery`, `RouteSignalling`, `ServiceSelector`

`ServiceCatalog` has the operations of the catalog as single steps, which is
what a single thread sees. `ServiceDiscovery` extends it with the parser, the
messages and the guide, implements it (`StepsAreOperations`), and takes `update_service()` apart into the steps
between which the `reset()` of the application's thread can fall (`FindSlot`,
`TestSlot`, `CopyService`, `CountService`, `Notify` against `ResetParser`,
`ClearEntries`, `ClearNumber`). `CountService` stores what was loaded one step
earlier, plus one: `++num_services_` is not atomic. A table is a sequence of
elements with attributes; `Attr` models `get_xml_attr`, which finds an
attribute in a later element when this one lacks it. `RouteSignalling` is the rest
of the parser: the LCT header, whose optional fields are read or passed over one
after the other, the choice of a table by its object, the test of its root, the
MPD cache, the counters and `reset()`. `ServiceSelector` takes a
packet in two steps, the match of its session and the use of the segment
buffer, between which `set_service_id` can fall.

### Sources: `FileSource`, `UhdSource`, `GainControl`

`FileSource` reads a file in bytes, so that a last sample may be cut off, with
the stream's end-of-file and bad bits. `UhdSource` keeps what the object reports
beside what the radio does: a setting is bounded, turned around and rounded on
the way, and any call of the radio may be refused, before the setting was made,
before it was read back, or with the stream stopped; what a refused call leaves is
undone by the setting's next call (`refused`). `GainControl` is one call of
`process()` in a loop with the source, in whole steps of the dead band.

### Playback: `MediaDecoder`, `Player`

`MediaDecoder` is what both decoders share: packets into a codec that may hold
some back, frames out through a pool used in turn and a ring buffer that drops
the newest; the playback thread looks at one while it asks for the next.
`Player` has the three threads of the player in the block (user, work, event
loop). `state_.exchange` and the publication of a change are two steps; the bus
is a queue of messages, each taken and handled in two steps.

### Programs: `ReceiverProgram`, `AlertMonitor`, `SegmentRecorder`, `CaptionExtractor`, `MetricsStore`, `ChannelScan`, `CaptureTool`

`ReceiverProgram` is the frame that three of the programs share: a sleeping main
thread, a signal handler that runs in it, a receiving thread that is a daemon,
and the join with a time limit. `AlertMonitor`, `SegmentRecorder` and
`CaptionExtractor` add what each does with a datagram. A segment file is written, cut
off by a failing `write()`, or not opened at all, which leaves nothing or what an
earlier run has under that number. `MetricsStore` copies and
updates field by field under its lock; `ChannelScan`, whose `mistuned` is a history
that `scanner.py` itself does not keep, and `CaptureTool` are
sequential programs in front of a radio that may fail at every call.

### Compositions: `MCControl`, `MCNetwork`, `MCDatapath`, `MCApplications`

Four instances check the modules. The modules in one of them share no state in
the program as it stands (between two of them there is a queue of samples or
bytes), so their product would only multiply the states: in each behaviour one
*unit* runs, which the initial state chooses, and the others stay as they are.
Where components do share state or messages they are composed inside a module:
`LockSupervisor`, `L1Control`, `SignallingPath`, `MCAlpChannel`, `ServiceDiscovery`.

### Conventions

A definition marked *mutant* or *Broken* is not part of the model: it is what
a plausible bug would make of its neighbour, and a run with it in that place
must fail. Variables marked *history* record what properties need and restrict
nothing. Constants marked *bound* exist to make the state space finite.

## The runs

Every property of a passing run has a mutant in `PROJECT.json`: a definition of
the model replaced by a broken form of it (a dropped test, a counter kept, an
index not masked, a callback not called), for which the run must report that very
property violated.

| run | units | distinct states | what it shows |
|---|---|---|---|
| `control` | `sync`, `loop`, `l1`, `signalling` | 488,140 | Frame tracker: locks need detections, losses pass through holdover, and holdover and acquisition end without a signal. Recovery loop: resets of both threads are numbered 1, 2, 3 in the order sent, automatic ones follow `threshold` reports in a row, each leads to a new report. Configured blocks work with the settings they report. An observer is told everything published while it is registered, and what is marked valid was broadcast. |
| `network` | `channel`, `framing`, `block`, `discovery`, `selector`, `route` | 906,352 | Contexts hold runs of sequence numbers of one sub-stream, in the order sent; verified datagrams are whole, in order, at most once (`AlpDatagrams`). In step, every packet of the byte stream is found in order. The block's stream is its packets. The catalog is compact and lists the last table, updates evict nothing, the guide follows. A segment put out is of one object. The MPD given is the newest one, for every form of header. |
| `datapath` | `time`, `ofdm`, `pilots`, `tables`, `band`, `bch`, `ldpc`, `matrix` | 90,105 | Blocks come out of the time de-interleaver as sent, also after a disturbance, and no access lies outside a line. Symbols are whole. Two ways to ask for pilots agree. Tables are permutations and invert the interleaver. A symbol is recovered through a channel that its pilots show in full, and averages hold nothing from before a reset. Corrected codewords are the ones sent; one doubtful bit is settled at once; every matrix of the standard's rates is generated and valid. |
| `applications` | `file`, `uhd`, `agc`, `ring`, `decoder`, `player`, `alerts`, `recorder`, `captions`, `dashboard`, `scanner`, `capture` | 149,584 | No race on a slot of the ring buffer, peek is stable, and it implements `BoundedFifo`. Recordings replay without a seam and are saved only after their tests; what is reported of a radio is true but for refused calls; the gain comes to rest; pictures stay whole in the pool; the player obeys the user and outlives its threads; alerts are announced once an hour; each number of a run has its segment or what a failure left; captions and metrics are whole. |
| `frame_sync_loss` | `sync` | | *violation*: a lock can outlast the signal for ever |
| `lock_loop_loss` | `loop` as the example connects it | | *violation*: nothing reports a lost signal |
| `l1_monitor_deadlock` | `l1` | | *violation*: the monitor waits for its own lock |
| `alp_framing_all` | `framing` without flush and reset | | *violation*: a long header cut off by the end of a call loses the framing |
| `ofdm_alignment` | `ofdm` | | *violation*: symbols are read where none begins |
| `bch_within_reach` | `bch` | | *violation*: a codeword within reach is given up |
| `alert_monitor_stop` | `AlertMonitor` | | *violation*: Ctrl+C does not end the program |
| `equalizer_carrier` | `band` | | *violation*: the block divides a carrier by the channel of another |

Deadlock is not checked: bounds stop every unit, programs end, and the L1 monitor
really blocks.

Why the bounds are enough. *Frame synchroniser*: the chunk sizes are shorter and
longer than the shortest frame, so a boundary falls into a chunk, behind it, and
two into one; `PastFloor` is further back than any boundary that can return into
a chunk. *Recovery loop*: three resets allow one on each thread at the same time
and one more afterwards; the clock stops at the longest delay, after which no
delay runs. *L1*: one receiver that rebuilds for every message and one that only
does for a change, messages with their PLP first, second and missing, and as many
setter calls as messages, so that the two can overlap both ways. *Signalling*: two
frames of different shape after each other, each part damaged or not, and one
observer more than there is room for. *ALP*: two sequence numbers make the
five-bit counter wrap within one datagram of three segments, which thirty-two would
only do in datagrams of more than thirty-two; one sender begins two datagrams, so
that a datagram follows one that was cut short, its context is restarted or spliced,
and order and repetition can go wrong; two contexts for three senders make contexts
scarce, so that one given up is taken over by another sub-stream; lengths include
empty payloads, buffers no longer than a CRC, and sums beyond the largest datagram. *ALP block*: packets that fit the output, that only fit an
empty output, and that never do. *Services*: two entries for three services fill
and overfill the catalog. *Selector*: a second payload may be too large for the
segment and the segment for the output. *Route*: every combination of the header's
flags with lengths around the shortest valid one, and three packets, so that an MPD
is replaced and another service comes between. *Time de-interleaver*: ten blocks let the
longest lines (six blocks) fill and drain once more after a disturbance at any
block. *OFDM*: prefix lengths the table has and lengths between. *Pilots*: the FFT
and its double and quadruple, dense and sparse patterns. *Band*: channels that are constant, that rise and
fall in a line and that vanish on a single carrier, two symbols after each other for what an
average keeps, and a reset or new settings between any two; `SizeT` is far above
every estimate, so that a wrapped one stands out. *Tables*: powers of two,
their neighbours and numbers with small factors; three calls change size twice.
*BCH*: codes for one and two errors and up to three errors, so that codewords are
clean, within reach and beyond it in any order. *LDPC*: the smallest matrix of the
generator with all parts of its structure, every codeword, up to two doubtful
bits; the matrices themselves are checked at full size. *Ring buffer*: with four
slots the indices wrap and the buffer is full, empty and in between at every
position; nothing depends on values. *Sources*: files shorter than a request, as
long, and longer, one with a cut last sample; settings on the radio's grid,
between its values and beyond them; levels in and out of the gain's reach.
*Decoder*: the pool goes round while the queue is full. *Programs*: two hours for
one alert, two runs over one directory, documents with cues inside, outside and
between divs, two readers during three updates.

Fairness. Safety needs none. `control` assumes that `process()` of the frame
synchroniser is called again and again (samples keep coming while the flowgraph
runs), not what it finds; that the threads of the supervisor and the detector go
on handling messages, that the clock ticks, and that a detector with a bootstrap
in its samples detects it at some time. API calls, reports of others and the
coming and going of the signal have no fairness. `applications` assumes that
`process()` of the gain control is called with every buffer. `l1_monitor_deadlock`
assumes that handlers run and that a mutex which is free again and again is got at
some time (strong fairness of `Acquire`), so nothing but the code keeps the monitor
from publishing; `alert_monitor_stop` that threads run. The liveness properties
`NoSignalDrains`, `ReportedAfterReset` and `GainSettles` hold under these
assumptions.

## The proofs

`tlapm` checks the seven `*Proofs` modules and `CountingLemmas`, what several of
them need of least numbers and of loops; no step is left unproved. Most theorems
are about the specifications that the runs check, with all units in them
(`ControlSpec`, `NetworkSpec`, `DatapathSpec`, `MCSpec`); those of `RingBufferProofs`
and `ReceptionProofs`, and a few others, are about the component's own
(`Spec`, `OpenSpec`, `ChannelSpec`, `CatalogSpec`, `DiscoverySpec`). A step of a run
is a step of one unit and leaves the variables of the others alone; the lemmas
called `...Unit` and `StepOfUnit` say so, once per module. `CountersBelowLimits`,
`OneContextPerSubStream`, `FieldsInsideHeader` and `StepsAreOperations` are properties
that only a theorem states; no run repeats them.

The assumptions are the named `ASSUME`s beside the constants, and TLC evaluates
each of them. Nearly all say that counts and sizes are natural or positive and that
sets of constants have the members they should. These say more:
`PilotsAssumption`, the carriers of a configuration fit in its FFT;
`PoolAssumption`, the picture pool has at least twice the slots of the queue, as
`hevc_decoder.cc:39` makes it (an audio frame owns its samples); `FramesAssumption`, a frame has PLPs;
`RouteAssumption`, 0 and the low 16 bits of every session are service ids;
`SupervisorAssumption`, the clock's bound is not below a delay;
`DocumentsAssumption`, a document is a sequence of elements with finitely many divs;
`BandAssumption`, the carriers fit, channels are integers, carriers are sent as 1
or -1, and a new value weighs between nothing and all, which is what an `alpha` from 0
to 1 means; `LdpcAssumption`, the decoder is allowed one iteration, and a bit
received well is at least twice as strong as one in doubt. `DatagramsImplemented`
has a hypothesis of its own, `CrcFindsDamage`: a damaged datagram does not pass
the CRC check.

**`RingBufferProofs`**, for every capacity and every set of items. The inductive
invariant says what each thread's loaded indices are worth while the other
thread goes on: between its load and its store the producer's slot is still free
and its item is in it (`RoomToWrite`, `Written`), the consumer's slot is still
filled and holds what it read (`ItemToRead`, `Held`), and the `head_` that `clear()`
loaded is between `tail_` and `head_` (`LimitBehindHead`). From it `TypeCorrect`,
`NoRace`, `PeekIsStable` and `Refinement`: every step is a step of the bounded
FIFO or a stutter.

**`ControlProofs`**

* `CountersBounded`: `CountersBelowLimits` is inductive with the types.
  `LossGoesThroughHoldover` follows from it handler by handler.
* `LocksNeedDetections`: the code counts hits, the property counts detections.
  The link is `SyncInv`, in ACQUIRING no more hits than detections since the state
  was entered; it is inductive because each hit is one of the detections of its
  `process()` call.
* `NumberedResets`: message i carries i. `NumberInv`: at most one thread has counted a
  reset that it has not sent, because both hold the mutex from the one step to the
  other (`Alone`), and the counter is ahead of the messages by exactly that reset.
* `ResetsJustified`: in the same way, `StreakInv`, no more unlocks counted than
  reports in a row since the last lock and the last reset.
* `ReceiversKeepInStep`: `ReceiverInv`, of a receiver that was never raced at most
  one thread is in `reconfigure()`, and what it has built so far is built from the
  settings as they are now.
* `ObserversToldTheBroadcast`: `ObserverInv`, who is subscribed is in the array, once,
  and nobody else is; taking one out and closing the array up leaves the others in
  it (`OthersStay`, `TakenOut`). So what a publication tells the array it tells the
  subscribers. `BroadcastInv`, what was
  decoded with a good CRC is a part of the frame on the air, also between the two
  parts, and so what is built of two good parts is of one frame.

**`ReceptionProofs`**

* `TypeCorrect`, `OneContext`, `InSequence`: inductive only together
  (`ContextInv`). A context that is opened is free or already the sub-stream's
  (`OthersWorkElsewhere`), and what is opened, extended or released stays in step
  with its sequence number and within the size limit. For `InSequence` the channel is
  needed too (`RunInv`): every segment gathered left its sender before the one the
  sender is at, so a segment that fits comes after all that are there, and what an
  abandoned datagram left does not fit or is replaced.
* `DatagramsImplemented`: the refinement of `AlpDatagrams`. `CInv` adds to
  `ContextInv` that no datagram is handed over before its sender began it and that
  the one under way has not been handed over (`HandedBehind`); a datagram that is
  handed over is whole, so its last segment has just arrived.
* `CatalogCompact` (single thread): the first free entry of a compact catalog is
  `count + 1`, and a removal moves the last entry into the hole.
* `DiscoveryCompact`, `WholeTableListed`, `GuideShowsCatalog`, `NoServiceLost` (two
  threads, step by step). `DInv` has three parts: the types, which hold through
  every overlap; `ResetAlone`, what a `reset()` that has met no update finds; and
  `InTurn`, which is claimed only while the parser works undisturbed: the entry
  found is still the one to use, the catalog is compact up to the service being
  counted, every service of the table up to this one is entered, and the last
  message or the guide shows the catalog. A table that meets a `reset()` leaves the
  third part, a `reset()` that meets no table restores it.
* `CatalogImplemented`: the refinement of `ServiceCatalog` (`StepsAreOperations`: while
  no `reset()` falls into a table, every step is one operation or a stutter). The
  catalog that is implemented counts a service from when its entry is filled, and
  none from when the entries are emptied (`CountInEffect`). `InTurn` says that the
  entry found is still the first one and still as it was tested; so filling it is
  the whole update, and the count that follows a stutter.

**`NetworkProofs`**

* `StreamCarriesThePackets`: `BlockInv`, the stream followed by the queue is what was
  published, and an idle block that left a packet had no room for it.
* `SegmentsAreOneObject`: `SelectorInv`, what is in the segment buffer is of the
  session and the object the selector holds, except after a selection that fell
  inside `general_work()`.
* `AlignedStreamInOrder`: `FramingInv`, while the stream is aligned, the rest of the
  input buffer followed by what the wire still carries is the unread rest of
  packets one after another, the first of which is the next one to be found. The
  lemmas are about cutting, joining and passing over such a line of bytes.
* `HeadersAreReadInside`: arithmetic on the sizes of the fields, flag by flag.
* `LatestMpdIsGiven`: `CacheInv`. `get_mpd()` gives the first entry of a service
  and the cache is appended to, so one needs that a first entry exists
  (`WellFoundedInduction`) and that it is replaced in place.

**`DatapathProofs`**

* `InsideLines`: inductive with `LinesFit`, every row has a line of the length its
  delay asks for; the step is that a position inside a line stays inside however
  many cells of a block the row takes.
* `PilotsAreAgreedOn`: `PilotInv`, the layout fits its FFT and what was extracted is
  what the layout and the symbol say; then the two forms of the places, a stride
  from an offset and a remainder, are the same set.
* `SymbolsAreWhole`: `OfdmInv`, a `CpRemoval` whose prefix is the block's is empty
  between two symbols. That the symbols of one `work()` come out one by one is an
  induction over their number, which is a number and not data.
* `SentComesBack`, `OnlyFromSince`: `BandInv`, estimates and the residual phase are
  fractions that lie between values measured since the last reset, and the last
  symbol came out as it should. Interpolation is exact on a pilot, and between
  pilots when the channel is a line; the wrapped differences do not wrap there,
  because the pilots are inside the FFT. An average of what lies between two values
  lies between them: the lemmas on fractions (`Weighted`, `BlendBetween`) carry the
  products, each in one step of multiplication, so that only linear arithmetic is
  left to the solver.
* `MatricesAreValid`: `MatrixInv`, the matrix in use is the one asked for. The first
  of the generator's two rules wants one column of three, which for every rate is
  more than half the row weight, so the loop that adds missing connections, which
  could repeat a column for ever, is never entered (`WantedOfRow`, `FirstOnes`).
* `OneDoubtIsNoMatter`: `LdpcInv`, in the first iteration the bit in doubt is as it
  was received until the first of its checks is computed, and the others are at
  least twice as strong; after that all are on the right side. A check whose other
  bits are right sends a right message (the parity of a codeword), one with the bit
  in doubt sends the others a wrong one of no more than three quarters of that bit.
  Saturation and the two scalings are in `BoundedIs` and `ScaledIs`.

**`DeinterleaverProofs`**

* `InterleaverIsUndone`: `TimeInv`, undisturbed, each place of a delay line holds the
  cell that was sent as many blocks ago as it has stood there (`LinesHold`). A row
  waits a whole number of blocks at the transmitter and the rest here, and the sum
  is the same for all rows; a block that turns the line by the cells of its row
  ages every cell by one block (`AgesGrow`, `OneBlockMore`).
* `PlacesAreUsedOnce`: `TablesInv`, the tables are the ones for the sizes in use.
  Reversing bits twice is the identity, because the loop that puts them back runs
  the first one backwards (`ReversedTwice`, an induction over the number of bits);
  what is left over is matched with itself in order, so `Forward` is its own
  inverse and hence one to one.

**`ApplicationProofs`**

* `SnapshotsAreWhole`: `SnapshotInv`, fields differ only while the updater has the
  lock, and a request that has copied anything has the lock until it is sent.
* `LastWordIsTheUsers`: `PlayerInv`, after a pause the automatic playback is over,
  and a player that is gone has no thread inside and no message on its bus.
* `HourBetweenAnnouncements`: `AlertInv`, an announcement younger than an hour is
  still in the history that the next one is compared with, pruning included.
* `FilesAreInOrder`: `RecorderInv`, the segments of this run are numbered as they came
  and are all newer than the run; files beyond a counter are older than it
  (`FilesOfBefore`), so that is what is found when a file could not be opened.
* `RadioIsReportedTruly`: `RadioInv` for the source, where a refused call takes its own
  setting out and the next one that succeeds puts it right; `ScanInv` for the scanner:
  from tuning to the reading the radio stays on the channel, unless tuning failed.
* `PicturesAreKept`: `DecoderInv`, a buffer keeps its picture for one turn of the
  pool, and every frame after one that is shown or waits is queued or dropped; as
  many as fit in the queue are queued, so the turn takes as many drops.
* `RecordingsAreSound`: `FileInv`, delivered are m whole recordings and k samples,
  and the file stands behind the k-th; `OrderInv` and `TrustInv` for
  `capture_iq.py`: what it holds is sorted and older than what the streamer holds,
  and the phases of writing are reached only past the tests.
* `CaptionsAreKept`: `CaptionInv`, as long as the program runs, the cues received are
  those shown and those still to show, and what is written follows what is shown.
  Parsing a document is a fold; that it finds every cue of every div is an induction
  over the number of its elements, by a lemma on loops (`IterationExists`,
  `Everywhere`).

The inductive invariants can be checked by TLC on the instances of the runs too;
`TimeInv`, `BandInv`, `MatrixInv` and `LdpcInv` were. Where a lemma has an
induction, it is over a number (`Least`, `Everywhere`, `IterationExists` in
`CountingLemmas`).

Only model-checked, because the provers cannot reach it:

* liveness: `NoSignalDrains`, `ReportedAfterReset`, `GainSettles`;
* `WithinReachIsCorrected`. That a word within reach has one codeword near it is the
  distance of the code, a determinant over the field; that Berlekamp-Massey finds
  the locator is an induction over polynomials. The field itself is a table here,
  and its laws would have to be proved for every primitive polynomial. The run goes
  through all codewords and errors of two small codes.

## Where code and documents disagree

Shown by a run:

1. `lib/sync/frame_sync.cc:251` tests the boundary only while it lies in the
   chunk, and neither a miss nor a lock moves it forward. A boundary the sample
   counter has passed is never tested again, no miss is counted, and the lock
   stays for ever; `frame_sync.h:79-83` says that a loss is tolerated for N
   misses, held over and then searched (`frame_sync_loss`).
2. No block sends an unlock report: `bootstrap_detect` only sets its flag and
   clears it silently, `ofdm_demod` never calls `emit_lock_status()`. The
   supervisor, which "orchestrates graceful signal recovery when lock is lost"
   (`atsc3_lock_supervisor.block.yml:44`), then never acts (`lock_loop_loss`).
3. The L1 monitor's handler holds `config_mutex_` and locks it again in
   `get_l1_json` (`atsc3_l1_monitor_impl.cc:40`, `:158`, `:184`): neither
   `l1_info` nor the rebroadcast that its header and comments announce is ever
   sent (`l1_monitor_deadlock`).
4. `AlpDemux::process()` treats a header of three or five bytes that the end of
   the input cuts off like an invalid one and skips a byte, although the input
   buffer is there "for partial packets" (`alp_demux.h:186`)
   (`alp_framing_all`).
5. `ofdm_demod` reads prefix and symbol and consumes a symbol only, so every call
   after the first begins too early (`atsc3_ofdm_demod_impl.cc:99`, `:22-23`)
   (`ofdm_alignment`).
6. `BchDecoder` leaves the upper coefficients of an earlier locator in place
   (`bch_decoder.cc:228`), so after a codeword with more errors one with fewer is
   given up, against `bch_decoder.h:57` (`bch_within_reach`).
7. `eas_monitor.py` replaces Python's handler of SIGINT by one that only clears a
   flag of the monitor, which nothing reads; alerts are processed as before, and the
   loop behind "Press Ctrl+C to stop monitoring..." (`:712`) never
   ends (`alert_monitor_stop`).
8. The equalizer block passes `equalize()` the whole output of the FFT
   (`atsc3_channel_eq_impl.cc:72`), which takes sample k for active carrier k; each
   carrier is divided by the channel of the one `first_active_carrier` further on,
   against `equalizer.h:114` and the usage at `:104` (`equalizer_carrier`).

Seen while modelling, modelled as the code has it, and not given a run:

* A miss in ACQUIRING does not reset the hits (`frame_sync.cc:240`), although
  `frame_sync.h:76` says "consecutive"; `LockNeedsDetections` states what holds.
* The relock delay is tested before the mutex is taken
  (`atsc3_lock_supervisor_impl.cc:40`), so a report can count inside the delay of
  a manual reset that came in between; and a lock report dropped in the delay is
  never repeated (`:41`), which leaves the supervisor unlocked until the next
  reset.
* Two overlapping calls of `reconfigure()`, a setter's and a message's, can leave
  a block with a decoder of older settings; `ReceiversInStep` excepts them.
* `complete_reassembly` and `flush()` pass over a context with an empty buffer
  (`alp_demux.cc:154`, `:416`), and `check_reassembly_timeouts` (`:450`) releases
  nothing, against `alp_demux.h:103-104`: contexts of abandoned datagrams stay
  taken until their sub-stream begins a new one.
* A datagram shorter than its CRC is delivered without being verified
  (`alp_demux.cc:421`); `ImplementsDatagrams` leaves such datagrams out.
* A packet larger than the output buffer of the ALP block stays at the head of
  the pending queue, and everything behind it too
  (`atsc3_alp_demux_impl.cc:105`).
* The service selector locks with the first session it hears, so the branch that
  would find the audio (`atsc3_service_selector_impl.cc:85`) is never reached, and
  for a service selected by its id no session is ever found.
* `get_all_services_json` reads the guide's list without the mutex that
  `handle_catalog` holds (`atsc3_service_guide_impl.cc:203`).
* `TimeDeinterleaver::set_config` says it resets state
  (`time_deinterleaver.h:104`) and keeps contents and positions; after a change
  to a smaller depth a position may lie outside its line. The block makes a
  new object instead and is safe: `PositionsInside`.
* `TimeDeinterleaver::is_settled()` counts `depth` blocks, while the lines take
  `depth * (depth + 1)` blocks to fill (`time_deinterleaver.cc:75`,
  `time_deinterleaver.h:84-85`); nothing in the receiver asks for it, and it is left
  out.
* When `depth + 1` does not divide the block size, rows take different numbers
  of cells, and one block's cells come out in different blocks;
  `InverseOfInterleaver` is about the even case. The block's 1000 cells are
  even for depths 1, 3, 4, 7 and 9.
* `compute_cell_interleaver_position()` names another permutation than the
  de-interleaver inverts for every size that is no power of two
  (`cell_deinterleaver.cc:323`).
* A prefix length that the table of `CpRemoval` lacks is replaced by another, and
  the symbols drift (`atsc3_ofdm_demod_impl.cc:45`); `SymbolsComeWhole` is about
  the lengths it has.
* `iterations_used` of the LDPC decoder is one too many when the iterations run
  out (`ldpc_decoder.cc:655`).
* `ServiceCatalog::clear()` does not call the callback (`service_catalog.cc:93`):
  after `reset()` the guide shows the old list until the next table.
  `GuideInStep` excepts an empty catalog.
* `RouteParser::reset()` can fall into an update; the count can then exceed the
  entries (`CompactWhenQuiet` holds outside such an overlap, and again after a
  `reset()` that meets no update).
* `interpolate_linear` subtracts a larger `size_t` from a smaller one before the
  first pilot (`channel_estimator.cc:295`), where it means to "extrapolate using
  first two pilots" (`:276`). The block's first carrier is a pilot, a library
  user's need not be; `SentIsRecovered` is about the carriers between two pilots.
* `equalizer.h:60` says of the smoothing factor "0 = no smoothing, 1 = no update";
  in the filter at `equalizer.cc:290` it is the weight of the new phase, so 1 is no
  smoothing and 0 no update.
* The sizes of the optional fields of an LCT header in `route_parser.cc` are not
  those of RFC 5651; `RouteSignalling` has the code's.
* An alert whose display fails is recorded as seen and not announced within the
  hour; the recorder starts its numbering at one over the files of an earlier
  run, and a segment whose file cannot be opened leaves the earlier run's segment
  in its place; `scanner.py` lists invented readings when the radio cannot be set up,
  and readings of another channel when it cannot be tuned (`_tune()` returns True
  whatever happens), without telling them from the others.
* A call that the radio refuses half way leaves the old value reported although the
  radio has left it, or, for the rate (`uhd_source.cc:210`), the stream stopped, until
  the setting is made again; `RadioReportedTruly` excepts the setting until then.

## Not modelled

* Numerical processing: bootstrap correlation, timing and frequency loops, FFT,
  Wiener interpolation (which nothing calls), estimates of noise and error vectors,
  soft demapping, metric estimators. It is floating point, out of TLC's reach, and a model of it would say nothing of its
  correctness. Where its outcome steers control (a detection, a lock), the outcome
  is an input.
* Wrappers of GStreamer, FFmpeg, FFTW and UHD beyond the calls that change the
  program's own state: their state is that of the libraries.
* Constant tables of the standard (mode tables, non-uniform constellations),
  SIMD helpers, Python bindings, `validate_route.py`, which is one pass over a
  file.
* In the modelled components: confidence values, frame numbers, payloads and
  fields that decide nothing, most statistics counters, JSON, logging; the text of
  XML; S-TSID documents beyond their count, which is all the code does; several PLPs in one ALP input buffer; the early termination
  of LDPC on confident values, which is off by default. What the properties of LDPC
  say is about one iteration, where every old message is zero; the later ones, which
  subtract the message of the iteration before, are modelled and run, but nothing is
  claimed of their outcome. BCH is modelled for
  correction powers of one and two: the field and the codes of the standard are
  too large to enumerate. A caption file whose write or flush fails, on a full disk
  (`cc_extract.py:315`), abandons the rest of its document; here the file can only be
  closed. Failing allocations are not modelled.

## The plan

Done, in this order: ring buffer with its abstraction and proofs; frame
synchroniser; lock supervisor and recovery loop; ALP reassembly, framing and
their promise; catalog and service discovery; time de-interleaver; ALP block and
service selector; configuration bus and L1 control plane; symbol cutting, pilots
and permutations; BCH and LDPC; sources, gain, decoders and player; programs; ROUTE
headers and the MPD cache; channel estimation and equaliser; the proofs above.

What could follow, most important first:

1. The readers of the service guide and the codeword accounting of the FEC
   block, the two blocks with state that is still left out.
2. The segment buffer of the ROUTE parser, composed with the selector.
3. Field laws for `BchDecoder`, and from them the half of `WithinReachIsCorrected`
   that says what is handed out as corrected is what was sent.
4. Several PLPs in one ALP input buffer, once the code says what it promises for
   them.

## How to run it

    tlc -workers 2 -config MCControl.cfg MCControl.tla
    tlc -workers 2 -config MCBchWithinReach.cfg MCDatapath.tla
    tlapm RingBufferProofs.tla

and likewise for the others; `PROJECT.json` names the module and configuration
of every run, the mutants, the source lines of every definition, the hazards
and the theorems. The four passing runs take one to two minutes each, the
others seconds.
