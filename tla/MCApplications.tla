---------------------------- MODULE MCApplications ----------------------------
(* Where the samples come from and where the programme goes: the signal       *)
(* sources, the ring buffer between threads, the decoders, the player and the *)
(* Python programs around the receiver.  They run apart from each other; a    *)
(* behaviour is one of them alone, the unit that the initial state chooses.   *)
EXTENDS RingBuffer, Integers, Sequences

CONSTANTS
  None, Simulated,
  SampleBytes, FileSizes, Requests, MaxSamples,           \* FileSource
  Asked, Grid, MinGain, MaxGain, MinRate,                 \* UhdSource
  OutputSize, PoolSize, MaxPackets, MaxDelay,             \* MediaDecoder
  Reports, MaxReports, MaxCalls,                          \* Player
  Identifiers, Hour, MaxTime,                             \* AlertMonitor
  Services, Types, Filter, MaxArrivals, MaxRuns,          \* SegmentRecorder
  Documents, MaxDocuments,                                \* CaptionExtractor
  Fields, Readers, MaxUpdates, MaxRequests,               \* MetricsStore
  Plan,                                                   \* ChannelScan
  Wanted                                                  \* CaptureTool

VARIABLES
  unit,
  file, offset, failed, error, delivered, inOrder,          \* FileSource
  connected, reported, radio, known, streaming, refused,    \* UhdSource
  gain, limits, level, changes,                             \* GainControl
  codec, receiving, output, held, pool, converted, dropped, packets,   \* MediaDecoder
  life, pipeline, bus, state, doing, firstData, paused, calls,         \* Player
  main, worker, running, listening, interrupted,            \* ReceiverProgram
  now, recent, errors, counted, announced,                  \* AlertMonitor
  counters, stats, disk, arrivals, recorded, began, runs,   \* SegmentRecorder
  received, cues, shown, written, open,                     \* CaptionExtractor
  metrics, lock, pending, updates, copy, served, requests,  \* MetricsStore
  usrp, initialized, tuned, channel, step, rssi, results, mistuned,    \* ChannelScan
  phase, options, request, streamer, samples, detected, validation, saved  \* CaptureTool

ring == vars
recording == <<file, offset, failed, error, delivered, inOrder>>
device == <<connected, reported, radio, known, streaming, refused>>
agc == <<gain, limits, level, changes>>
decoder == <<codec, receiving, output, held, pool, converted, dropped, packets>>
player == <<life, pipeline, bus, state, doing, firstData, paused, calls>>
shell == <<main, worker, running, listening, interrupted>>
alerts == <<now, recent, errors, counted, announced>>
recorder == <<counters, stats, disk, arrivals, recorded, began, runs>>
captions == <<received, cues, shown, written, open>>
dashboard == <<metrics, lock, pending, updates, copy, served, requests>>
scanner == <<usrp, initialized, tuned, channel, step, rssi, results, mistuned>>
capture == <<phase, options, request, streamer, samples, detected, validation, saved>>

sources == <<recording, device, agc>>
playback == <<ring, decoder, player>>
programs == <<alerts, recorder, captions, dashboard, scanner, capture>>
everything == <<unit, shell, sources, playback, programs>>

(* In the run: whole files and one cut off in its last sample; requests        *)
(* smaller than the file, as large, and larger than it twice over.            *)
ASSUME FilesAssumption ==
  SampleBytes \in Nat \ {0} /\ FileSizes \subseteq Nat /\ Requests \subseteq Nat \ {0}

Files == INSTANCE FileSource

(* Values between those the radio can take and beyond them. *)
MCAsked == [frequency |-> {1, 4, 9}, gain |-> {0, 3, 5, 12}, rate |-> {1, 2, 3}]
MCGrid == [frequency |-> {0, 2, 4, 8}, gain |-> {1, 4, 9}, rate |-> {2, 4}]

Uhd == INSTANCE UhdSource

(* Levels within the gain's reach and out of it on both sides. *)
Agc == INSTANCE GainControl WITH
  Target <- 0, Initial <- 10, Attack <- 2, Release <- 5, MaxChanges <- 3,
  Limits <- {[min |-> 0, max |-> 20], [min |-> 5, max |-> 8]},
  Levels <- {-25, -15, -7, 0, 4}

(* The output queue may fill and the pool go around more than once; the pool  *)
(* has two buffers for every slot (av/hevc_decoder.cc:39).                    *)
ASSUME PoolAssumption ==
  OutputSize \in Nat \ {0} /\ PoolSize \in Nat /\ PoolSize >= 2 * OutputSize

Media == INSTANCE MediaDecoder

(* What a message means is a state of the player, never an activity of its    *)
(* threads.                                                                   *)
ASSUME ReportsAssumption == Reports \cap {"idle", "auto-play", "publishing"} = {}

AvPlayer == INSTANCE Player

(* Time for two announcements of the same alert, and alerts without a name. *)
ASSUME HourAssumption == Hour \in Nat

Alerts == INSTANCE AlertMonitor WITH HasDuration <- FALSE

Recorder == INSTANCE SegmentRecorder WITH HasDuration <- TRUE

Paragraph(cue, divs) == [cue |-> cue, divs |-> divs]
MCDocuments == { <<Paragraph("a", {1}), Paragraph("b", {1})>>,
                 <<Paragraph("a", {1, 2}), Paragraph("b", {2}), Paragraph("c", {})>>,
                 <<Paragraph(None, {})>> }

Captions == INSTANCE CaptionExtractor WITH HasDuration <- FALSE

(* A document is a sequence of paragraphs, in a tree of finitely many divs. *)
ASSUME DocumentsAssumption ==
  \A doc \in Documents :
    doc \in Seq(Captions!ToSet(doc)) /\ Captions!IsFiniteSet(Captions!Divs(doc))

(* The lock is free or held by the updater or one of the requests. *)
ASSUME HoldersAssumption == None # "updater" /\ {None, "updater"} \cap Readers = {}

Dashboard == INSTANCE MetricsStore

MCPlan == <<14, 15, 16>>
ASSUME PlanAssumption == Plan \in Seq(Nat)

Scanner == INSTANCE ChannelScan

MCWanted == <<2, 3>>
ASSUME WantedAssumption == Wanted \in [1 .. 2 -> Nat]

Capture == INSTANCE CaptureTool

----------------------------------------------------------------------------
Units == {"file", "uhd", "agc", "ring", "decoder", "player",
          "alerts", "recorder", "captions", "dashboard", "scanner", "capture"}

(* A unit that does not run is in one initial state of its own. *)
Only(u, state0) == unit # u => state0

SourcesInit ==
  /\ Files!Init /\ Only("file", file = CHOOSE f \in [size : FileSizes, loop : {FALSE}] : TRUE)
  /\ Uhd!Init /\ Only("uhd", reported = [frequency |-> 4, gain |-> 5, rate |-> 2] /\ ~ connected)
  /\ Agc!Init /\ Only("agc", level = 0 /\ limits.max = 20)

PlaybackInit ==
  /\ Init /\ Only("ring", \A i \in Slots : buffer[i] = item /\ item = "a")
  /\ Media!Init /\ AvPlayer!Init

ProgramsInit ==
  /\ Alerts!Init /\ Recorder!Init /\ Captions!Init /\ Dashboard!Init /\ Scanner!Init
  /\ Capture!Init
  /\ Only("capture", options = [o \in DOMAIN options |-> FALSE])

MCInit == unit \in Units /\ SourcesInit /\ PlaybackInit /\ ProgramsInit

----------------------------------------------------------------------------
FileUnit == unit = "file" /\ Files!Next
            /\ UNCHANGED <<unit, shell, device, agc, playback, programs>>
UhdUnit == unit = "uhd" /\ Uhd!Next
           /\ UNCHANGED <<unit, shell, recording, agc, playback, programs>>
AgcOnly == UNCHANGED <<unit, shell, recording, device, playback, programs>>
AgcUnit == unit = "agc" /\ Agc!Next /\ AgcOnly
RingUnit == unit = "ring" /\ Next
            /\ UNCHANGED <<unit, shell, sources, decoder, player, programs>>
DecoderUnit == unit = "decoder" /\ Media!Next
               /\ UNCHANGED <<unit, shell, sources, ring, player, programs>>
PlayerUnit == unit = "player" /\ AvPlayer!Next
              /\ UNCHANGED <<unit, shell, sources, ring, decoder, programs>>
AlertsUnit == unit = "alerts" /\ Alerts!Next
              /\ UNCHANGED <<unit, sources, playback, recorder, captions, dashboard, scanner, capture>>
RecorderUnit == unit = "recorder" /\ Recorder!Next
                /\ UNCHANGED <<unit, sources, playback, alerts, captions, dashboard, scanner, capture>>
CaptionsUnit == unit = "captions" /\ Captions!Next
                /\ UNCHANGED <<unit, sources, playback, alerts, recorder, dashboard, scanner, capture>>
DashboardUnit == unit = "dashboard" /\ Dashboard!Next
                 /\ UNCHANGED <<unit, shell, sources, playback, alerts, recorder, captions, scanner, capture>>
ScannerUnit == unit = "scanner" /\ Scanner!Next
               /\ UNCHANGED <<unit, shell, sources, playback, alerts, recorder, captions, dashboard, capture>>
CaptureUnit == unit = "capture" /\ Capture!Next
               /\ UNCHANGED <<unit, shell, sources, playback, alerts, recorder, captions, dashboard, scanner>>

MCNext ==
  \/ FileUnit \/ UhdUnit \/ AgcUnit
  \/ RingUnit \/ DecoderUnit \/ PlayerUnit
  \/ AlertsUnit \/ RecorderUnit \/ CaptionsUnit \/ DashboardUnit \/ ScannerUnit \/ CaptureUnit

(* process() of the gain control is called with every buffer of samples. *)
MCSpec ==
  /\ MCInit /\ [][MCNext]_everything
  /\ WF_everything(unit = "agc" /\ Agc!Process /\ AgcOnly)

----------------------------------------------------------------------------
(* Recordings: hal/file_source replays one without a seam, and what           *)
(* apps/capture_iq.py saves was tested before and is in order.                *)
RecordingsSound == Files!RecordingInOrder /\ (unit = "capture" => Capture!SavedIsSound)

(* hal/agc: under a steady signal the gain comes to rest.                     *)
GainSettles == unit = "agc" => Agc!GainSettles

(* What is reported of a radio is what the radio did: the settings that       *)
(* hal/uhd_source returns, and the readings that scanner.py lists, but for    *)
(* calls that the radio refused.                                              *)
RadioReportedTruly == Uhd!RadioAsReported /\ Scanner!ReadingsOfTheChannel

(* av/hevc_decoder and av/audio_decoder: a frame on the way to the screen     *)
(* keeps its picture.                                                         *)
PicturesKept == Media!PicturesKept

(* av/gst_player in the block: nothing starts or stops against the user.      *)
UserHasTheLastWord == AvPlayer!UserHasTheLastWord

(* apps/eas_monitor.py: an alert is announced once in an hour.                *)
AnnouncedOncePerHour == Alerts!AnnouncedOncePerHour

(* apps/record_service.py: files are numbered in the order segments came.     *)
FilesInArrivalOrder == Recorder!FilesInArrivalOrder

(* apps/cc_extract.py: every cue is shown, and the file follows the console.  *)
CaptionsKept == Captions!FileFollowsConsole /\ Captions!EveryCueShown

(* apps/metrics_server.py: a request is sent one update, not parts of two.    *)
SnapshotWhole == Dashboard!SnapshotWhole
===============================================================================
