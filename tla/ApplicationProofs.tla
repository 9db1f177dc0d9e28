-------------------------- MODULE ApplicationProofs --------------------------
(***************************************************************************)
(* Proofs about the signal sources, the media decoders, the player and the *)
(* programs around the receiver, for every value of their parameters.      *)
(***************************************************************************)
EXTENDS MCApplications, FiniteSetTheorems, SequenceTheorems, CountingLemmas, TLAPS

(* A step of the system is a step of one unit, or leaves it alone.         *)
LEMMA StepOfUnit ==
  ASSUME [MCNext]_everything
  PROVE  /\ Files!Next \/ UNCHANGED recording
         /\ Uhd!Next \/ UNCHANGED device
         /\ Media!Next \/ UNCHANGED decoder
         /\ AvPlayer!Next \/ UNCHANGED player
         /\ Alerts!Next \/ UNCHANGED alerts
         /\ Recorder!Next \/ UNCHANGED recorder
         /\ Dashboard!Next \/ UNCHANGED dashboard
         /\ Scanner!Next \/ UNCHANGED scanner
         /\ Capture!Next \/ UNCHANGED capture
         /\ unit' = unit
         /\ (unit = "captions" /\ Captions!Next) \/ UNCHANGED captions
BY DEF MCNext, FileUnit, UhdUnit, AgcUnit, AgcOnly, RingUnit, DecoderUnit, PlayerUnit,
       AlertsUnit, RecorderUnit, CaptionsUnit, DashboardUnit, ScannerUnit, CaptureUnit,
       everything, sources, playback, programs

-----------------------------------------------------------------------------
(* apps/metrics_server.py: the lock belongs to the update until its last     *)
(* field is written and to a request until it is sent, so that outside an    *)
(* update every field, and what requests have copied, is of the newest one.  *)
SnapshotInv ==
  /\ DOMAIN metrics = Fields /\ DOMAIN copy = Readers
  /\ pending \subseteq Fields
  /\ pending # {} => lock = "updater"
  /\ \A f \in Fields \ pending : metrics[f] = updates
  /\ \A r \in Readers :
       /\ copy[r] # Dashboard!Empty => lock = r
       /\ DOMAIN copy[r] \subseteq Fields
       /\ \A f \in DOMAIN copy[r] : copy[r][f] = updates
  /\ SnapshotWhole

LEMMA InitSnapshotInv == Dashboard!Init => SnapshotInv
BY DEF Dashboard!Init, Dashboard!Empty, SnapshotInv, SnapshotWhole, Dashboard!SnapshotWhole

LEMMA SnapshotStep ==
  ASSUME SnapshotInv, Dashboard!Next
  PROVE  SnapshotInv'
<1> USE HoldersAssumption DEF SnapshotInv, SnapshotWhole, Dashboard!SnapshotWhole
<1>1. CASE Dashboard!UpdateBegin
  BY <1>1 DEF Dashboard!UpdateBegin, Dashboard!Empty
<1>2. CASE Dashboard!UpdateField
  BY <1>2 DEF Dashboard!UpdateField, Dashboard!Empty
<1>3. ASSUME NEW r \in Readers, Dashboard!GetBegin(r)
      PROVE  SnapshotInv'
  BY <1>3 DEF Dashboard!GetBegin, Dashboard!Empty
<1>4. ASSUME NEW r \in Readers, Dashboard!GetField(r)
      PROVE  SnapshotInv'
  BY <1>4 DEF Dashboard!GetField, Dashboard!Empty
<1>5. ASSUME NEW r \in Readers, Dashboard!SendResponse(r)
      PROVE  SnapshotInv'
  BY <1>5 DEF Dashboard!SendResponse, Dashboard!Empty
<1>6. QED
  BY <1>1, <1>2, <1>3, <1>4, <1>5 DEF Dashboard!Next

(* apps/metrics_server.py: a request is sent one update, whatever the number *)
(* of fields, requests and updates.                                          *)
THEOREM SnapshotsAreWhole == MCSpec => []SnapshotWhole
<1>1. MCInit => SnapshotInv
  BY InitSnapshotInv DEF MCInit, ProgramsInit
<1>2. SnapshotInv /\ [MCNext]_everything => SnapshotInv'
  <2> SUFFICES ASSUME SnapshotInv, [MCNext]_everything
               PROVE  SnapshotInv'
    OBVIOUS
  <2>1. CASE UNCHANGED dashboard
    BY <2>1 DEF dashboard, SnapshotInv, SnapshotWhole, Dashboard!SnapshotWhole
  <2>2. QED
    BY <2>1, SnapshotStep, StepOfUnit
<1>3. SnapshotInv => SnapshotWhole
  BY DEF SnapshotInv
<1>4. QED
  BY <1>1, <1>2, <1>3, PTL DEF MCSpec

-----------------------------------------------------------------------------
(* av/gst_player.cc: automatic playback is over before a pause counts, and   *)
(* the block stops with work() over and the bus empty.                       *)
Meanings == {"playing", "paused"} \cup Reports

PlayerInv ==
  /\ DOMAIN doing = AvPlayer!Threads
  /\ bus \in Seq(Meanings)
  /\ doing["work"] = "auto-play" => firstData
  /\ paused => /\ life = "running" /\ pipeline = "paused"
               /\ firstData /\ doing["work"] # "auto-play"
  /\ life # "running" => doing["work"] = "idle" /\ bus = <<>>
  /\ life = "none" => doing["user"] = "idle" /\ doing["event"] = "idle"

LEMMA InitPlayerInv == AvPlayer!Init => PlayerInv
BY DEF AvPlayer!Init, PlayerInv, AvPlayer!Threads

(* The user's calls. *)
LEMMA CallStep ==
  ASSUME PlayerInv,
         \/ AvPlayer!Start \/ AvPlayer!Play \/ AvPlayer!Pause \/ AvPlayer!CallFails
         \/ AvPlayer!Stop \/ AvPlayer!ShutDown
  PROVE  PlayerInv'
<1> USE DEF PlayerInv, AvPlayer!Threads, AvPlayer!Idle, AvPlayer!User, AvPlayer!Update,
            AvPlayer!SetState, AvPlayer!NewPipeline, Meanings
<1>1. CASE AvPlayer!Start
  BY <1>1 DEF AvPlayer!Start
<1>2. CASE AvPlayer!Play
  BY <1>2 DEF AvPlayer!Play
<1>3. CASE AvPlayer!Pause
  <2>1. /\ life = "running" /\ life' = life /\ firstData' = firstData
        /\ pipeline' = "paused" /\ bus' = Append(bus, "paused")
        /\ DOMAIN doing' = DOMAIN doing /\ doing'["work"] = doing["work"]
    BY <1>3 DEF AvPlayer!Pause
  <2>2. paused' => firstData /\ doing["work"] # "auto-play"
    BY <1>3 DEF AvPlayer!Pause
  <2>3. bus' \in Seq(Meanings)
    BY <2>1
  <2>4. QED
    BY <2>1, <2>2, <2>3
<1>4. CASE AvPlayer!CallFails
  BY <1>4 DEF AvPlayer!CallFails
<1>5. CASE AvPlayer!Stop
  BY <1>5 DEF AvPlayer!Stop
<1>6. CASE AvPlayer!ShutDown
  BY <1>6 DEF AvPlayer!ShutDown, AvPlayer!Joined
<1>7. QED
  BY <1>1, <1>2, <1>3, <1>4, <1>5, <1>6

(* The block's thread and the event thread. *)
LEMMA ThreadStep ==
  ASSUME PlayerInv,
         \/ AvPlayer!PushFirst \/ AvPlayer!AutoPlay \/ AvPlayer!Report
         \/ \E t \in AvPlayer!Threads :
              AvPlayer!TakeMessage(t) \/ AvPlayer!HandleMessage(t) \/ AvPlayer!Publish(t)
  PROVE  PlayerInv'
<1> USE DEF PlayerInv, AvPlayer!Threads, AvPlayer!Idle, AvPlayer!Update,
            AvPlayer!SetState, Meanings
<1>1. CASE AvPlayer!PushFirst
  BY <1>1 DEF AvPlayer!PushFirst
<1>2. CASE AvPlayer!AutoPlay
  BY <1>2 DEF AvPlayer!AutoPlay
<1>3. CASE AvPlayer!Report
  BY <1>3 DEF AvPlayer!Report
<1>4. ASSUME NEW t \in AvPlayer!Threads, AvPlayer!TakeMessage(t)
      PROVE  PlayerInv'
  <2>1. Head(bus) \in Meanings /\ Tail(bus) \in Seq(Meanings)
    BY <1>4 DEF AvPlayer!TakeMessage
  <2>2. Head(bus) # "auto-play"
    BY <2>1, ReportsAssumption
  <2>3. QED
    BY <1>4, <2>1, <2>2 DEF AvPlayer!TakeMessage
<1>5. ASSUME NEW t \in AvPlayer!Threads, AvPlayer!HandleMessage(t)
      PROVE  PlayerInv'
  BY <1>5 DEF AvPlayer!HandleMessage
<1>6. ASSUME NEW t \in AvPlayer!Threads, AvPlayer!Publish(t)
      PROVE  PlayerInv'
  BY <1>6 DEF AvPlayer!Publish
<1>7. QED
  BY <1>1, <1>2, <1>3, <1>4, <1>5, <1>6

(* av/gst_player.cc: a pause after playback has begun stays until play() or  *)
(* stop(), and no thread is left in a player that is gone, for any number of *)
(* calls and messages, whatever states the pipeline reports.                 *)
THEOREM LastWordIsTheUsers == MCSpec => []UserHasTheLastWord
<1>1. MCInit => PlayerInv
  BY InitPlayerInv DEF MCInit, PlaybackInit
<1>2. PlayerInv /\ [MCNext]_everything => PlayerInv'
  <2> SUFFICES ASSUME PlayerInv, [MCNext]_everything
               PROVE  PlayerInv'
    OBVIOUS
  <2>1. CASE UNCHANGED player
    BY <2>1 DEF player, PlayerInv
  <2>2. CASE AvPlayer!Next
    BY <2>2, CallStep, ThreadStep DEF AvPlayer!Next
  <2>3. QED
    BY <2>1, <2>2, StepOfUnit
<1>3. PlayerInv => UserHasTheLastWord
  BY DEF PlayerInv, UserHasTheLastWord, AvPlayer!UserHasTheLastWord, AvPlayer!Threads,
         AvPlayer!Idle
<1>4. QED
  BY <1>1, <1>2, <1>3, PTL DEF MCSpec

-----------------------------------------------------------------------------
(* apps/eas_monitor.py: an announcement younger than an hour is still in     *)
(* _recent_alerts.                                                           *)
Alert == [id : Identifiers, at : Nat]

AlertInv ==
  /\ now \in Nat
  /\ announced \in Seq(Alert)
  /\ \A i \in DOMAIN announced :
       /\ announced[i].at <= now
       /\ now - announced[i].at < Hour => announced[i] \in recent
  /\ AnnouncedOncePerHour

LEMMA InitAlertInv == Alerts!Init => AlertInv
BY DEF Alerts!Init, AlertInv, AnnouncedOncePerHour, Alerts!AnnouncedOncePerHour

LEMMA AlertStep ==
  ASSUME AlertInv, Alerts!Next
  PROVE  AlertInv'
<1> USE HourAssumption DEF AlertInv, AnnouncedOncePerHour, Alerts!AnnouncedOncePerHour
<1>0. \A i \in DOMAIN announced : announced[i].at \in Nat
  <2> TAKE i \in DOMAIN announced
  <2>1. announced[i] \in Alert
    OBVIOUS
  <2>2. QED
    BY <2>1 DEF Alert
<1>1. CASE Alerts!Tick
  <2>1. now' = now + 1 /\ UNCHANGED <<recent, announced>>
    BY <1>1 DEF Alerts!Tick, Alerts!monitor
  <2>2. QED
    BY <1>0, <2>1
<1>2. CASE UNCHANGED <<now, recent, announced>>
  BY <1>2
<1>3. ASSUME NEW id \in Identifiers, Alerts!Duplicate(id)
      PROVE  AlertInv'
  BY <1>3 DEF Alerts!Duplicate, Alerts!Kept
<1>4. ASSUME NEW id \in Identifiers, Alerts!Announce(id)
      PROVE  AlertInv'
  <2> DEFINE new == [id |-> id, at |-> now]
  <2>1. /\ recent' = Alerts!Kept \cup {new} /\ announced' = Append(announced, new)
        /\ now' = now
    BY <1>4 DEF Alerts!Announce, Alerts!Remember
  <2>2. new \in Alert /\ new.at = now /\ new.id = id
    BY DEF Alert
  <2>3. \A i \in DOMAIN announced :
          announced[i].id = id => now - announced[i].at >= Hour
    <3>1. \A e \in recent : e.id = id => ~ (now - e.at < Hour)
      BY <1>4 DEF Alerts!Announce, Alerts!IsDuplicate, Alerts!Kept
    <3>2. QED
      BY <1>0, <3>1
  <2> HIDE DEF new
  <2>4. /\ announced' \in Seq(Alert)
        /\ DOMAIN announced' = DOMAIN announced \cup {Len(announced) + 1}
        /\ announced'[Len(announced) + 1] = new
        /\ \A i \in DOMAIN announced : announced'[i] = announced[i]
    BY <2>1, <2>2
  <2>5. \A i \in DOMAIN announced' :
          announced'[i].at <= now /\ (now - announced'[i].at < Hour => announced'[i] \in recent')
    BY <2>1, <2>2, <2>4 DEF Alerts!Kept
  <2>6. AnnouncedOncePerHour'
    <3> SUFFICES ASSUME NEW i \in DOMAIN announced', NEW j \in DOMAIN announced',
                        i < j, announced'[i].id = announced'[j].id
                 PROVE  announced'[j].at - announced'[i].at >= Hour
      OBVIOUS
    <3>1. i \in DOMAIN announced
      BY <2>4
    <3>2. CASE j \in DOMAIN announced
      BY <2>4, <3>1, <3>2
    <3>3. CASE j = Len(announced) + 1
      BY <2>2, <2>3, <2>4, <3>1, <3>3
    <3>4. QED
      BY <2>4, <3>2, <3>3
  <2>7. QED
    BY <2>1, <2>4, <2>5, <2>6
<1>5. ASSUME NEW id \in Identifiers, Alerts!DisplayFails(id)
      PROVE  AlertInv'
  BY <1>5 DEF Alerts!DisplayFails, Alerts!Remember, Alerts!Kept
<1>6. QED
  BY <1>1, <1>2, <1>3, <1>4, <1>5 DEF Alerts!Next, Alerts!ParseError, Alerts!monitor

(* apps/eas_monitor.py: two announcements of one alert are an hour apart, for *)
(* any alerts in any order and any hour.                                     *)
THEOREM HourBetweenAnnouncements == MCSpec => []AnnouncedOncePerHour
<1>1. MCInit => AlertInv
  BY InitAlertInv DEF MCInit, ProgramsInit
<1>2. AlertInv /\ [MCNext]_everything => AlertInv'
  <2> SUFFICES ASSUME AlertInv, [MCNext]_everything
               PROVE  AlertInv'
    OBVIOUS
  <2>1. CASE UNCHANGED alerts
    BY <2>1 DEF alerts, AlertInv, AnnouncedOncePerHour, Alerts!AnnouncedOncePerHour
  <2>2. QED
    BY <2>1, AlertStep, StepOfUnit
<1>3. AlertInv => AnnouncedOncePerHour
  BY DEF AlertInv
<1>4. QED
  BY <1>1, <1>2, <1>3, PTL DEF MCSpec

-----------------------------------------------------------------------------
(* apps/record_service.py: every number has its segment, and under it is     *)
(* what its writing left; an earlier run's files hold its own segments.      *)
FilesOf(files, k, n) == {g \in files : g.key = k /\ g.number = n}

Entry == [segment : Nat, result : {"written", "cut", "unopened"}]

RecorderTypes ==
  /\ counters \in [Recorder!Keys -> Nat]
  /\ recorded \in [Recorder!Keys -> Seq(Entry)]
  /\ arrivals \in Nat /\ began \in Nat /\ began <= arrivals
  /\ \A f \in disk : f.number \in Nat /\ f.holds \in 0 .. arrivals

FilesOfBefore ==
  \A f \in disk : f.key \in Recorder!Keys /\ f.number > counters[f.key] => f.holds \in 0 .. began

SegmentsOfNow ==
  \A k \in Recorder!Keys : \A n \in 1 .. counters[k] :
    recorded[k][n].segment \in began + 1 .. arrivals

RecorderInv == RecorderTypes /\ FilesOfBefore /\ SegmentsOfNow /\ FilesInArrivalOrder

LEMMA InitRecorderInv == Recorder!Init => RecorderInv
BY DEF Recorder!Init, RecorderInv, RecorderTypes, FilesOfBefore, SegmentsOfNow, Recorder!Keys,
       FilesInArrivalOrder, Recorder!FilesInArrivalOrder

(* More arrivals alone change nothing about the files.                       *)
LEMMA OrderStays ==
  ASSUME RecorderInv, UNCHANGED <<counters, disk, recorded, began>>,
         arrivals' \in {arrivals, arrivals + 1}
  PROVE  RecorderInv'
<1>1. RecorderTypes'
  BY DEF RecorderInv, RecorderTypes
<1>2. FilesOfBefore'
  BY DEF RecorderInv, FilesOfBefore
<1>3. SegmentsOfNow'
  <2>1. arrivals \in Nat /\ began \in Nat
    BY DEF RecorderInv, RecorderTypes
  <2>2. ASSUME NEW k \in Recorder!Keys, NEW n \in 1 .. counters[k]
        PROVE  recorded[k][n].segment \in began + 1 .. arrivals'
    <3>1. recorded[k][n].segment \in began + 1 .. arrivals
      BY DEF RecorderInv, SegmentsOfNow
    <3>2. QED
      BY <2>1, <3>1
  <2>3. QED
    BY <2>2 DEF SegmentsOfNow
<1>4. FilesInArrivalOrder'
  <2>1. ASSUME NEW k, NEW n, Recorder!Expected(recorded[k][n], Recorder!Under(k, n))
        PROVE  Recorder!Expected(recorded[k][n], Recorder!Under(k, n))'
    <3>1. Recorder!Under(k, n)' = Recorder!Under(k, n)
      BY DEF Recorder!Under
    <3>2. QED
      BY <2>1, <3>1 DEF Recorder!Expected, Recorder!Lost
  <2>2. QED
    BY <2>1 DEF RecorderInv, FilesInArrivalOrder, Recorder!FilesInArrivalOrder
<1>5. QED
  BY <1>1, <1>2, <1>3, <1>4 DEF RecorderInv

(* What is found under a number is known from the files of that number.      *)
LEMMA FoundUnder ==
  ASSUME NEW k, NEW n
  PROVE  /\ Recorder!Under(k, n) = {f.holds : f \in FilesOf(disk, k, n)}
         /\ Recorder!Under(k, n)' = {f.holds : f \in FilesOf(disk', k, n)}
BY DEF Recorder!Under, FilesOf

(* A segment takes the place of the file of its number that an earlier run   *)
(* may have left, and of no other.                                           *)
LEMMA WriteStep ==
  ASSUME RecorderInv, NEW key \in Recorder!Keys, Recorder!WriteSegment(key)
  PROVE  RecorderInv'
<1>a. RecorderTypes /\ FilesOfBefore /\ SegmentsOfNow /\ FilesInArrivalOrder
  BY DEF RecorderInv
<1>b. /\ counters \in [Recorder!Keys -> Nat] /\ recorded \in [Recorder!Keys -> Seq(Entry)]
      /\ arrivals \in Nat /\ began \in Nat /\ began <= arrivals
      /\ counters[key] \in Nat
  BY <1>a DEF RecorderTypes
<1>c. \A k \in Recorder!Keys : \A n \in 1 .. counters[k] :
        /\ recorded[k][n].segment \in began + 1 .. arrivals
        /\ Recorder!Expected(recorded[k][n], Recorder!Under(k, n))
  BY <1>a DEF SegmentsOfNow, FilesInArrivalOrder, Recorder!FilesInArrivalOrder
<1> DEFINE number == counters[key] + 1
           segment == arrivals + 1
<1>1. PICK outcome \in {"written", "cut", "unopened"} :
        /\ arrivals' = segment /\ began' = began
        /\ counters' = [counters EXCEPT ![key] = @ + 1]
        /\ recorded' = [recorded EXCEPT ![key] =
                          Append(@, [segment |-> arrivals', result |-> outcome])]
        /\ \/ outcome = "written" /\ Recorder!Put(key, arrivals')
           \/ outcome = "cut" /\ Recorder!Put(key, Recorder!Lost)
           \/ outcome = "unopened" /\ UNCHANGED disk
  BY DEF Recorder!WriteSegment, Recorder!Arrive, Recorder!Numbered
<1> DEFINE entry == [segment |-> segment, result |-> outcome]
<1> HIDE DEF number, segment
<1>n. number = counters[key] + 1 /\ segment = arrivals + 1
  BY DEF number, segment
<1>2. /\ counters' \in [Recorder!Keys -> Nat] /\ counters'[key] = number
      /\ number \in Nat /\ number >= 1 /\ segment \in Nat
      /\ \A k \in Recorder!Keys \ {key} : counters'[k] = counters[k]
  BY <1>1, <1>b, <1>n
<1>e. entry \in Entry
  BY <1>2 DEF Entry
<1>3. /\ recorded' = [recorded EXCEPT ![key] = Append(@, entry)]
      /\ entry.segment = segment /\ entry.result = outcome
  BY <1>1
<1>4. \A k \in Recorder!Keys : counters[k] = Len(recorded[k])
  BY <1>a DEF FilesInArrivalOrder, Recorder!FilesInArrivalOrder
<1> HIDE DEF entry
<1>5. /\ recorded' \in [Recorder!Keys -> Seq(Entry)]
      /\ Len(recorded'[key]) = number /\ recorded'[key][number] = entry
      /\ \A n \in 1 .. counters[key] : recorded'[key][n] = recorded[key][n]
      /\ \A k \in Recorder!Keys \ {key} : recorded'[k] = recorded[k]
  <2>1. recorded[key] \in Seq(Entry) /\ Len(recorded[key]) = counters[key]
    BY <1>4, <1>b
  <2>2. /\ recorded' \in [Recorder!Keys -> Seq(Entry)]
        /\ recorded'[key] = Append(recorded[key], entry)
        /\ \A k \in Recorder!Keys \ {key} : recorded'[k] = recorded[k]
    BY <1>3, <1>b, <1>e, <2>1
  <2>3. /\ Len(recorded'[key]) = number /\ recorded'[key][number] = entry
        /\ \A n \in 1 .. counters[key] : recorded'[key][n] = recorded[key][n]
    BY <1>e, <1>n, <2>1, <2>2
  <2>4. QED
    BY <2>2, <2>3
(* What there may be on the disk after the step. *)
<1>6. PICK holds \in 0 .. segment :
        /\ \/ disk' = disk /\ outcome = "unopened"
           \/ /\ disk' = {f \in disk : f.key # key \/ f.number # number}
                            \cup {Recorder!File(key, number, holds)}
              /\ \/ outcome = "written" /\ holds = segment
                 \/ outcome = "cut" /\ holds = 0
  <2>1. Recorder!Put(key, arrivals') =>
          disk' = {f \in disk : f.key # key \/ f.number # number}
                    \cup {Recorder!File(key, number, segment)}
    BY <1>1, <1>2 DEF Recorder!Put
  <2>2. Recorder!Put(key, Recorder!Lost) =>
          disk' = {f \in disk : f.key # key \/ f.number # number}
                    \cup {Recorder!File(key, number, 0)}
    BY <1>2 DEF Recorder!Put, Recorder!Lost
  <2>3. 0 \in 0 .. segment /\ segment \in 0 .. segment
    BY <1>2
  <2>4. QED
    BY <1>1, <2>1, <2>2, <2>3
<1> DEFINE new == Recorder!File(key, number, holds)
<1>7. new.key = key /\ new.number = number /\ new.holds = holds
  BY DEF Recorder!File
<1> HIDE DEF new
<1>8. \A f \in disk' : f \in disk \/ f = new
  BY <1>6 DEF new
<1>9. \A f \in disk' : f.holds \in 0 .. arrivals' /\ f.number \in Nat
  BY <1>1, <1>2, <1>7, <1>8, <1>a, <1>b, <1>n DEF RecorderTypes
<1>10. ASSUME NEW f \in disk', f.key \in Recorder!Keys, f.number > counters'[f.key]
       PROVE  f.holds \in 0 .. began'
  <2>1. f # new
    BY <1>2, <1>7, <1>10
  <2>2. f \in disk /\ f.number \in Nat /\ f.number > counters[f.key]
    <3>1. f \in disk /\ f.number \in Nat /\ counters[f.key] \in Nat
      BY <1>8, <1>9, <1>10, <1>b, <2>1
    <3>2. counters'[f.key] \in Nat /\ counters'[f.key] >= counters[f.key]
      <4>1. CASE f.key = key
        BY <1>2, <1>b, <1>n, <4>1
      <4>2. CASE f.key # key
        BY <1>2, <1>10, <3>1, <4>2
      <4>3. QED
        BY <4>1, <4>2
    <3>3. QED
      BY <1>10, <3>1, <3>2
  <2>3. QED
    BY <1>1, <1>10, <1>a, <2>2 DEF FilesOfBefore
<1>m. ASSUME NEW k \in Recorder!Keys, NEW n \in 1 .. counters'[k], ~ (k = key /\ n = number)
      PROVE  n \in 1 .. counters[k] /\ recorded'[k][n] = recorded[k][n]
  <2>1. CASE k = key
    BY <1>2, <1>5, <1>b, <1>m, <1>n, <2>1
  <2>2. CASE k # key
    BY <1>2, <1>5, <1>m, <2>2
  <2>3. QED
    BY <2>1, <2>2
<1>11. ASSUME NEW k \in Recorder!Keys, NEW n \in 1 .. counters'[k]
       PROVE  recorded'[k][n].segment \in began' + 1 .. arrivals'
  <2>1. CASE k = key /\ n = number
    BY <1>1, <1>3, <1>5, <1>b, <1>n, <2>1
  <2>2. CASE ~ (k = key /\ n = number)
    <3>1. n \in 1 .. counters[k] /\ recorded'[k][n] = recorded[k][n]
      BY <1>m, <2>2
    <3>2. recorded[k][n].segment \in began + 1 .. arrivals
      BY <1>c, <3>1
    <3>3. QED
      <4>1. began + 1 .. arrivals \subseteq began' + 1 .. arrivals'
        BY <1>1, <1>b, <1>n
      <4>2. QED
        BY <3>1, <3>2, <4>1
  <2>3. QED
    BY <2>1, <2>2
<1>12. ASSUME NEW k \in Recorder!Keys, NEW n \in 1 .. counters'[k]
       PROVE  Recorder!Expected(recorded[k][n], Recorder!Under(k, n))'
  <2>1. CASE k = key /\ n = number
    <3>1. CASE disk' = disk /\ outcome = "unopened"
      <4>1. \A f \in FilesOf(disk', k, n) : f.holds \in 0 .. began
        BY <1>a, <1>b, <1>n, <2>1, <3>1 DEF FilesOf, FilesOfBefore
      <4>2. Recorder!Under(k, n)' = {f.holds : f \in FilesOf(disk', k, n)}
        BY FoundUnder
      <4>5. Recorder!Under(k, n)' \subseteq 0 .. began'
        BY <1>1, <4>1, <4>2
      <4>3. recorded'[k][n].result = "unopened"
        BY <1>3, <1>5, <2>1, <3>1
      <4>4. QED
        BY <4>3, <4>5 DEF Recorder!Expected
    <3>2. CASE disk' = {f \in disk : f.key # key \/ f.number # number} \cup {new}
      <4>1. FilesOf(disk', k, n) = {new}
        BY <1>7, <2>1, <3>2 DEF FilesOf
      <4>8. Recorder!Under(k, n)' = {f.holds : f \in FilesOf(disk', k, n)}
        BY FoundUnder
      <4>2. Recorder!Under(k, n)' = {holds}
        BY <1>7, <4>1, <4>8
      <4>3. recorded'[k][n] = entry
        BY <1>5, <2>1
      <4>4. CASE outcome = "unopened"
        <5>1. disk' = disk
          BY <1>6, <4>4
        <5>2. new \in disk
          BY <3>2, <5>1
        <5>3. holds \in 0 .. began
          BY <1>7, <1>a, <1>b, <1>n, <5>2 DEF FilesOfBefore
        <5>4. QED
          BY <1>1, <1>3, <4>2, <4>3, <4>4, <5>3 DEF Recorder!Expected
      <4>5. CASE outcome # "unopened"
        BY <1>3, <1>6, <4>2, <4>3, <4>5 DEF Recorder!Expected, Recorder!Lost
      <4>6. QED
        BY <4>4, <4>5
    <3>3. QED
      BY <1>6, <3>1, <3>2 DEF new
  <2>2. CASE ~ (k = key /\ n = number)
    <3>1. n \in 1 .. counters[k] /\ recorded'[k][n] = recorded[k][n]
      BY <1>m, <2>2
    <3>2. FilesOf(disk', k, n) = FilesOf(disk, k, n)
      BY <1>6, <1>7, <2>2 DEF FilesOf, new
    <3>3. Recorder!Under(k, n)' = Recorder!Under(k, n)
      BY <3>2, FoundUnder
    <3>4. Recorder!Expected(recorded[k][n], Recorder!Under(k, n))
      BY <1>c, <3>1
    <3>5. QED
      BY <1>1, <3>1, <3>3, <3>4 DEF Recorder!Expected, Recorder!Lost
  <2>3. QED
    BY <2>1, <2>2
<1>13. ASSUME NEW k \in Recorder!Keys, NEW m \in 1 .. counters'[k],
              NEW n \in 1 .. counters'[k], m < n
       PROVE  recorded'[k][m].segment < recorded'[k][n].segment
  <2>1. m \in 1 .. counters[k] /\ recorded'[k][m] = recorded[k][m]
    <3>1. ~ (k = key /\ m = number)
      BY <1>13, <1>2
    <3>2. QED
      BY <1>m, <3>1
  <2>2. recorded[k][m].segment \in began + 1 .. arrivals
    BY <1>c, <2>1
  <2>3. CASE k = key /\ n = number
    <3>1. recorded'[k][n].segment = arrivals + 1
      BY <1>3, <1>5, <1>n, <2>3
    <3>2. QED
      BY <1>b, <2>1, <2>2, <3>1
  <2>4. CASE ~ (k = key /\ n = number)
    <3>1. n \in 1 .. counters[k] /\ recorded'[k][n] = recorded[k][n]
      BY <1>m, <2>4
    <3>2. recorded[k][m].segment < recorded[k][n].segment
      BY <1>13, <1>a, <2>1, <3>1 DEF FilesInArrivalOrder, Recorder!FilesInArrivalOrder
    <3>3. QED
      BY <2>1, <3>1, <3>2
  <2>5. QED
    BY <2>3, <2>4
<1>14. \A k \in Recorder!Keys : counters'[k] = Len(recorded'[k])
  BY <1>2, <1>4, <1>5, <1>b
<1>15. FilesInArrivalOrder'
  BY <1>12, <1>13, <1>14 DEF FilesInArrivalOrder, Recorder!FilesInArrivalOrder
<1>16. RecorderTypes'
  BY <1>1, <1>2, <1>5, <1>9, <1>b, <1>n DEF RecorderTypes
<1>17. FilesOfBefore' /\ SegmentsOfNow'
  BY <1>10, <1>11 DEF FilesOfBefore, SegmentsOfNow
<1>18. QED
  BY <1>15, <1>16, <1>17 DEF RecorderInv

LEMMA RecorderStep ==
  ASSUME RecorderInv, Recorder!Next
  PROVE  RecorderInv'
<1>1. ASSUME NEW key \in Recorder!Keys, Recorder!Ignore(key) \/ Recorder!NoDirectory(key)
      PROVE  RecorderInv'
  BY <1>1, OrderStays DEF Recorder!Ignore, Recorder!NoDirectory, Recorder!Arrive
<1>2. CASE Recorder!StartAgain
  <2>1. /\ began' = arrivals /\ UNCHANGED <<disk, arrivals>>
        /\ counters' = [k \in Recorder!Keys |-> 0]
        /\ recorded' = [k \in Recorder!Keys |-> <<>>]
    BY <1>2 DEF Recorder!StartAgain, Recorder!Fresh
  <2>2. RecorderTypes' /\ FilesOfBefore' /\ SegmentsOfNow'
    BY <2>1 DEF RecorderInv, RecorderTypes, FilesOfBefore, SegmentsOfNow
  <2>3. FilesInArrivalOrder'
    BY <2>1 DEF FilesInArrivalOrder, Recorder!FilesInArrivalOrder
  <2>4. QED
    BY <2>2, <2>3 DEF RecorderInv
<1>3. CASE UNCHANGED recorder
  BY <1>3, OrderStays DEF recorder
<1>4. QED
  BY <1>1, <1>2, <1>3, WriteStep DEF Recorder!Next, Recorder!recorder, recorder

(* apps/record_service.py: of a run the segments are numbered without a gap  *)
(* in the order they came, and under each number there is its segment, a     *)
(* file cut off, or, when the file could not be opened, at most what an      *)
(* earlier run left: for any services, types, filter and number of runs.     *)
THEOREM FilesAreInOrder == MCSpec => []FilesInArrivalOrder
<1>1. MCInit => RecorderInv
  BY InitRecorderInv DEF MCInit, ProgramsInit
<1>2. RecorderInv /\ [MCNext]_everything => RecorderInv'
  <2> SUFFICES ASSUME RecorderInv, [MCNext]_everything
               PROVE  RecorderInv'
    OBVIOUS
  <2>1. CASE UNCHANGED recorder
    BY <2>1, OrderStays DEF recorder
  <2>2. QED
    BY <2>1, RecorderStep, StepOfUnit
<1>3. RecorderInv => FilesInArrivalOrder
  BY DEF RecorderInv
<1>4. QED
  BY <1>1, <1>2, <1>3, PTL DEF MCSpec

-----------------------------------------------------------------------------
(* hal/uhd_source.cc: every setting that is made is read back.               *)
RadioInv ==
  /\ DOMAIN reported = Uhd!Settings /\ DOMAIN radio = Uhd!Settings
  /\ known \subseteq Uhd!Settings
  /\ Uhd!RadioAsReported

LEMMA InitRadioInv == Uhd!Init => RadioInv
<1> SUFFICES ASSUME Uhd!Init PROVE RadioInv
  OBVIOUS
<1>1. DOMAIN reported = Uhd!Settings /\ DOMAIN radio = Uhd!Settings
  BY DEF Uhd!Init, Uhd!Settings
<1>2. known = {} /\ streaming = connected /\ refused = {}
  BY DEF Uhd!Init
<1>3. QED
  BY <1>1, <1>2 DEF RadioInv, Uhd!RadioAsReported

LEMMA RadioStep ==
  ASSUME RadioInv, Uhd!Next
  PROVE  RadioInv'
<1>1. ASSUME NEW s \in Uhd!Settings, Uhd!Set(s)
      PROVE  RadioInv'
  <2>1. PICK x \in Asked[s] :
          /\ radio' = [radio EXCEPT ![s] =
                         Uhd!Nearest(s, Uhd!Inverted(s, Uhd!Bounded(s, x)))]
          /\ reported' = [reported EXCEPT ![s] = Uhd!Inverted(s, radio'[s])]
          /\ known' = known \cup {s}
          /\ streaming' = (streaming \/ s = "rate")
          /\ refused' = refused \ {s} /\ UNCHANGED connected
    BY <1>1 DEF Uhd!Set, Uhd!Take, Uhd!ReadBack
  <2>2. \A t \in Uhd!Settings \ {s} : reported'[t] = reported[t] /\ radio'[t] = radio[t]
    BY <2>1 DEF RadioInv
  <2>3. reported'[s] = Uhd!Inverted(s, radio'[s])
    BY <2>1 DEF RadioInv
  <2>4. /\ DOMAIN reported' = Uhd!Settings /\ DOMAIN radio' = Uhd!Settings
        /\ known' \subseteq Uhd!Settings
    BY <2>1 DEF RadioInv
  <2>5. connected /\ "rate" \notin refused' => streaming'
    BY <2>1 DEF RadioInv, Uhd!RadioAsReported
  <2>6. QED
    BY <2>1, <2>2, <2>3, <2>4, <2>5 DEF RadioInv, Uhd!RadioAsReported
<1>2. ASSUME NEW s \in Uhd!Settings, Uhd!Refused(s)
      PROVE  RadioInv'
  <2>1. /\ refused' = refused \cup {s} /\ UNCHANGED connected
        /\ s # "rate" => UNCHANGED streaming
        /\ known' \subseteq Uhd!Settings /\ known' \ {s} = known \ {s}
    BY <1>2 DEF Uhd!Refused, Uhd!ReadBack, RadioInv
  <2>2. /\ DOMAIN reported' = Uhd!Settings /\ DOMAIN radio' = Uhd!Settings
        /\ \A t \in Uhd!Settings \ {s} : reported'[t] = reported[t] /\ radio'[t] = radio[t]
    BY <1>2 DEF Uhd!Refused, Uhd!ReadBack, RadioInv
  <2>3. QED
    BY <2>1, <2>2 DEF RadioInv, Uhd!RadioAsReported, Uhd!Inverted
<1>3. QED
  BY <1>1, <1>2 DEF Uhd!Next

(* apps/scanner.py: the radio stays tuned from the channel's turn to its     *)
(* reading, and every channel begun has its entry.                           *)
Reading == [channel : Nat, rssi : Nat \cup {Simulated}, locked : BOOLEAN, mistuned : BOOLEAN]

ScanInv ==
  /\ channel \in 0 .. Len(Plan) /\ mistuned \in BOOLEAN
  /\ tuned \in Nat \cup {Simulated} /\ rssi \in Nat \cup {Simulated}
  /\ results \in Seq(Reading)
  /\ step = "begin" => Len(results) = channel
  /\ step # "begin" => channel = Len(results) + 1
  /\ step = "measure" /\ usrp => mistuned \/ tuned = Plan[channel]
  /\ step = "decide" => mistuned \/ rssi \in {Plan[channel], Simulated}
  /\ Scanner!ReadingsOfTheChannel

LEMMA InitScanInv == Scanner!Init => ScanInv
<1> SUFFICES ASSUME Scanner!Init PROVE ScanInv
  OBVIOUS
<1>1. mistuned \in BOOLEAN
  BY DEF Scanner!Init
<1>2. QED
  BY <1>1, PlanAssumption DEF Scanner!Init, ScanInv, Scanner!ReadingsOfTheChannel

LEMMA ScanStep ==
  ASSUME ScanInv, Scanner!Next
  PROVE  ScanInv'
<1> USE PlanAssumption DEF ScanInv, Scanner!ReadingsOfTheChannel
<1>1. CASE Scanner!InitHardware
  BY <1>1 DEF Scanner!InitHardware
<1>2. CASE Scanner!Tune
  <2>1. /\ step = "tune" /\ step' = "measure" /\ UNCHANGED <<usrp, channel, rssi, results>>
        /\ tuned' \in {tuned, Plan[channel]}
    BY <1>2 DEF Scanner!Tune
  <2>2. mistuned' \in BOOLEAN /\ (usrp => mistuned' \/ tuned' = Plan[channel])
    BY <1>2 DEF Scanner!Tune
  <2>3. QED
    BY <2>1, <2>2
<1>3. CASE Scanner!GetRssi
  BY <1>3 DEF Scanner!GetRssi
<1>4. CASE Scanner!Detect
  <2>1. PICK locked \in BOOLEAN :
          results' = Append(results, [channel |-> Plan[channel], rssi |-> rssi,
                                      locked |-> locked, mistuned |-> mistuned])
    BY <1>4 DEF Scanner!Detect
  <2>2. step = "decide" /\ step' = "begin" /\ UNCHANGED <<usrp, tuned, channel, rssi, mistuned>>
    BY <1>4 DEF Scanner!Detect
  <2> DEFINE new == [channel |-> Plan[channel], rssi |-> rssi,
                     locked |-> locked, mistuned |-> mistuned]
  <2>3. new \in Reading
    BY <2>2 DEF Reading
  <2>4. new.channel = Plan[channel] /\ (new.rssi \in {Plan[channel], Simulated} \/ new.mistuned)
    BY <2>2
  <2> HIDE DEF new
  <2>5. /\ results' \in Seq(Reading) /\ Len(results') = Len(results) + 1
        /\ DOMAIN results' = DOMAIN results \cup {Len(results) + 1}
        /\ results'[Len(results) + 1] = new
        /\ \A i \in DOMAIN results : results'[i] = results[i]
    BY <2>1, <2>3 DEF new
  <2>6. Scanner!ReadingsOfTheChannel'
    BY <2>2, <2>4, <2>5
  <2>7. QED
    BY <2>2, <2>5, <2>6
<1>5. QED
  BY <1>1, <1>2, <1>3, <1>4 DEF Scanner!Next

(* hal/uhd_source.cc and apps/scanner.py: a setting whose last call the      *)
(* radio did not refuse is reported as the radio has it, and a reading of the *)
(* radio is listed under the channel tuned to unless tuning failed, for any  *)
(* grid of values, any requests and any plan.                                *)
THEOREM RadioIsReportedTruly == MCSpec => []RadioReportedTruly
<1> DEFINE RInv == RadioInv /\ ScanInv
<1>1. MCInit => RInv
  BY InitRadioInv, InitScanInv DEF MCInit, SourcesInit, ProgramsInit
<1>2. RInv /\ [MCNext]_everything => RInv'
  <2> SUFFICES ASSUME RInv, [MCNext]_everything
               PROVE  RInv'
    OBVIOUS
  <2>1. UNCHANGED device => RadioInv'
    BY DEF device, RadioInv, Uhd!RadioAsReported
  <2>2. UNCHANGED scanner => ScanInv'
    BY DEF scanner, ScanInv, Scanner!ReadingsOfTheChannel
  <2>3. QED
    BY <2>1, <2>2, RadioStep, ScanStep, StepOfUnit
<1>3. RInv => RadioReportedTruly
  BY DEF RadioInv, ScanInv, RadioReportedTruly
<1>4. QED
  BY <1>1, <1>2, <1>3, PTL DEF MCSpec

-----------------------------------------------------------------------------
(* av/hevc_decoder.cc: buffers of frames less than a pool apart are not the  *)
(* same.                                                                     *)
LEMMA SlotsDiffer ==
  ASSUME NEW P \in Nat \ {0}, NEW a \in Nat, NEW b \in Nat, a < b, b < a + P
  PROVE  a % P # b % P
<1> DEFINE d == b \div P - a \div P
<1>1. a % P = a - P * (a \div P) /\ b % P = b - P * (b \div P)
  BY Z3
<1>2. a \div P \in Int /\ b \div P \in Int /\ d \in Int
  OBVIOUS
<1>3. P * (b \div P) - P * (a \div P) = P * d
  BY <1>2
<1>4. a % P = b % P => b - a = P * d
  <2>1. P * (b \div P) \in Int /\ P * (a \div P) \in Int
    BY <1>2
  <2> HIDE DEF d
  <2>2. QED
    BY <1>1, <1>3, <2>1
<1>5. d <= 0 => P * d <= 0
  BY <1>2
<1>6. d >= 1 => P * d >= P
  BY <1>2
<1> HIDE DEF d
<1>7. P * d \in Int
  BY <1>2
<1>8. QED
  BY <1>2, <1>4, <1>5, <1>6, <1>7

(* The frames on the way to the screen are in order, every later one is      *)
(* queued or dropped, and a buffer keeps its picture for one turn of the     *)
(* pool.                                                                     *)
Queued == {output[i] : i \in DOMAIN output}

DecoderInv ==
  /\ converted \in Nat /\ held \in 0 .. converted
  /\ output \in Seq(Nat) /\ Len(output) < OutputSize
  /\ \A i \in DOMAIN output : held < output[i] /\ output[i] <= converted
  /\ \A i, j \in DOMAIN output : i < j => output[i] < output[j]
  /\ dropped \subseteq 1 .. converted
  /\ DOMAIN pool = 0 .. PoolSize - 1
  /\ \A n \in 1 .. converted : converted < n + PoolSize => pool[Media!Slot(n)] = n
  /\ \A n \in Media!Shown : \A k \in n + 1 .. converted : k \in Queued \cup dropped

LEMMA InitDecoderInv == Media!Init => DecoderInv
BY PoolAssumption DEF Media!Init, DecoderInv, Media!Shown, Queued

(* convert_frame() takes the next buffer and queues or drops the frame.      *)
LEMMA ReceiveStep ==
  ASSUME DecoderInv, Media!Receive
  PROVE  DecoderInv'
<1> DEFINE n == converted + 1
<1>1. /\ converted' = n /\ pool' = [pool EXCEPT ![Media!Slot(n)] = n] /\ held' = held
      /\ \/ output' = output /\ dropped' = dropped \cup {n}
         \/ /\ Len(output) # OutputSize - 1
            /\ output' = Append(output, n) /\ dropped' = dropped
  BY DEF Media!Receive
<1>2. ASSUME NEW m \in 1 .. converted', converted' < m + PoolSize
      PROVE  pool'[Media!Slot(m)] = m
  <2>1. \A k \in Nat : Media!Slot(k) \in 0 .. PoolSize - 1
    BY PoolAssumption DEF Media!Slot
  <2>2. CASE m = n
    BY <1>1, <2>1, <2>2 DEF DecoderInv
  <2>3. CASE m # n
    <3>1. m \in 1 .. converted /\ m < n /\ n < m + PoolSize
      BY <1>1, <1>2, <2>3 DEF DecoderInv
    <3>2. Media!Slot(m) # Media!Slot(n)
      <4>1. PoolSize \in Nat \ {0}
        BY PoolAssumption
      <4>2. m \in Nat /\ n \in Nat
        BY <3>1 DEF DecoderInv
      <4> HIDE DEF n
      <4>3. QED
        BY <3>1, <4>1, <4>2, SlotsDiffer DEF Media!Slot
    <3>3. pool[Media!Slot(m)] = m
      BY <3>1, PoolAssumption DEF DecoderInv
    <3>4. QED
      BY <1>1, <2>1, <3>1, <3>2, <3>3 DEF DecoderInv
  <2>4. QED
    BY <2>2, <2>3
<1>3. CASE output' = output /\ dropped' = dropped \cup {n}
  <2>1. Queued' = Queued /\ Media!Shown' = Media!Shown
    BY <1>1, <1>3 DEF Queued, Media!Shown
  <2>2. QED
    BY <1>1, <1>2, <1>3, <2>1 DEF DecoderInv, Queued, Media!Shown
<1>4. CASE Len(output) # OutputSize - 1 /\ output' = Append(output, n) /\ dropped' = dropped
  <2>1. /\ output' \in Seq(Nat) /\ Len(output') = Len(output) + 1
        /\ DOMAIN output' = DOMAIN output \cup {Len(output) + 1}
        /\ output'[Len(output) + 1] = n
        /\ \A i \in DOMAIN output : output'[i] = output[i]
    BY <1>4 DEF DecoderInv
  <2>2. Queued' = Queued \cup {n} /\ Media!Shown' = Media!Shown \cup {n}
    BY <1>1, <2>1 DEF Queued, Media!Shown
  <2>3. Len(output') < OutputSize
    BY <1>4, <2>1, PoolAssumption DEF DecoderInv
  <2>4. /\ \A i \in DOMAIN output' : held' < output'[i] /\ output'[i] <= converted'
        /\ \A i, j \in DOMAIN output' : i < j => output'[i] < output'[j]
    <3>1. /\ converted \in Nat /\ Len(output) \in Nat /\ DOMAIN output = 1 .. Len(output)
          /\ held < n /\ held' = held /\ converted' = n
      BY <1>1 DEF DecoderInv
    <3>2. \A i \in DOMAIN output : output[i] \in Nat /\ output[i] <= converted /\ output[i] < n
      BY <3>1 DEF DecoderInv
    <3>3. \A i \in DOMAIN output' : held' < output'[i] /\ output'[i] <= converted'
      BY <2>1, <3>1, <3>2 DEF DecoderInv
    <3>4. ASSUME NEW i \in DOMAIN output', NEW j \in DOMAIN output', i < j
          PROVE  output'[i] < output'[j]
      <4>1. i \in DOMAIN output
        BY <2>1, <3>1, <3>4
      <4>2. CASE j \in DOMAIN output
        BY <2>1, <3>4, <4>1, <4>2 DEF DecoderInv
      <4>3. CASE j = Len(output) + 1
        BY <2>1, <3>2, <4>1, <4>3
      <4>4. QED
        BY <2>1, <4>2, <4>3
    <3>5. QED
      BY <3>3, <3>4
  <2>5. \A m \in Media!Shown' : \A k \in m + 1 .. converted' : k \in Queued' \cup dropped'
    <3> SUFFICES ASSUME NEW m \in Media!Shown \cup {n}, NEW k \in m + 1 .. n
                 PROVE  k \in Queued \cup {n} \cup dropped
      BY <1>1, <1>4, <2>2
    <3>1. CASE k = n
      BY <3>1
    <3>2. CASE k # n
      <4>1. m \in Nat /\ k \in m + 1 .. converted
        BY <3>2 DEF DecoderInv, Media!Shown, Queued
      <4>2. m \in Media!Shown
        BY <4>1 DEF DecoderInv
      <4>3. QED
        BY <4>1, <4>2 DEF DecoderInv
    <3>3. QED
      BY <3>1, <3>2
  <2>6. QED
    BY <1>1, <1>2, <1>4, <2>1, <2>3, <2>4, <2>5 DEF DecoderInv
<1>5. QED
  BY <1>1, <1>3, <1>4

(* get_frame() takes the oldest frame. *)
LEMMA GetFrameStep ==
  ASSUME DecoderInv, Media!GetFrame
  PROVE  DecoderInv'
<1>1. /\ output # <<>> /\ held' = Head(output) /\ output' = Tail(output)
      /\ converted' = converted /\ pool' = pool /\ dropped' = dropped
  BY DEF Media!GetFrame
<1>2. /\ output' \in Seq(Nat) /\ Len(output') = Len(output) - 1
      /\ held' = output[1] /\ 1 \in DOMAIN output
      /\ \A i \in DOMAIN output' : i + 1 \in DOMAIN output /\ output'[i] = output[i + 1]
      /\ \A i \in DOMAIN output : i # 1 => i - 1 \in DOMAIN output'
  BY <1>1 DEF DecoderInv
<1>3. \A i \in DOMAIN output : output[i] \in Nat
  BY DEF DecoderInv
<1>4. \A q \in Queued' : q > held' /\ q \in Queued
  <2> SUFFICES ASSUME NEW i \in DOMAIN output'
               PROVE  output'[i] > held' /\ output'[i] \in Queued
    BY DEF Queued
  <2>1. i + 1 \in DOMAIN output /\ output'[i] = output[i + 1] /\ 1 < i + 1
    BY <1>2
  <2>2. output[1] < output[i + 1]
    BY <1>2, <2>1 DEF DecoderInv
  <2>3. QED
    BY <1>2, <1>3, <2>1, <2>2 DEF Queued
<1>5. \A q \in Queued : q = held' \/ q \in Queued'
  <2> SUFFICES ASSUME NEW i \in DOMAIN output, i # 1
               PROVE  output[i] \in Queued'
    BY <1>2 DEF Queued
  <2>1. i - 1 \in DOMAIN output' /\ output'[i - 1] = output[i]
    BY <1>2 DEF DecoderInv
  <2>2. QED
    BY <2>1 DEF Queued
<1>6. held' \in Queued /\ held' \in Nat /\ held' \in 0 .. converted'
  BY <1>1, <1>2, <1>3 DEF DecoderInv, Queued
<1>7. \A m \in Media!Shown' : \A k \in m + 1 .. converted' : k \in Queued' \cup dropped'
  <2> SUFFICES ASSUME NEW m \in Media!Shown', NEW k \in m + 1 .. converted
               PROVE  k \in Queued' \cup dropped
    BY <1>1
  <2>1. m \in Queued /\ m >= held' /\ m \in Nat
    BY <1>3, <1>4, <1>6 DEF Media!Shown, Queued
  <2>2. m \in Media!Shown
    BY <2>1 DEF Media!Shown, Queued
  <2>3. k \in Queued \cup dropped /\ k > held'
    <3>1. k \in Int /\ k > m
      BY <2>1, <1>1 DEF DecoderInv
    <3>2. k \in Queued \cup dropped
      BY <2>2 DEF DecoderInv
    <3>3. QED
      BY <1>6, <2>1, <3>1, <3>2
  <2>4. QED
    BY <1>1, <1>5, <1>6, <2>3
<1>8. /\ \A i \in DOMAIN output' : held' < output'[i] /\ output'[i] <= converted'
      /\ \A i, j \in DOMAIN output' : i < j => output'[i] < output'[j]
  <2>1. \A i \in DOMAIN output' : held' < output'[i]
    BY <1>4, <1>6 DEF Queued
  <2>2. \A i \in DOMAIN output' : output'[i] <= converted'
    BY <1>1, <1>2 DEF DecoderInv
  <2>3. ASSUME NEW i \in DOMAIN output', NEW j \in DOMAIN output', i < j
        PROVE  output'[i] < output'[j]
    <3>1. i + 1 \in DOMAIN output /\ j + 1 \in DOMAIN output /\ i + 1 < j + 1
      BY <1>2, <2>3
    <3>2. QED
      BY <1>2, <3>1 DEF DecoderInv
  <2>4. QED
    BY <2>1, <2>2, <2>3
<1>9. Len(output') < OutputSize
  BY <1>2, PoolAssumption DEF DecoderInv
<1>10. QED
  BY <1>1, <1>2, <1>6, <1>7, <1>8, <1>9 DEF DecoderInv

LEMMA DecoderStep ==
  ASSUME DecoderInv, Media!Next
  PROVE  DecoderInv'
<1>1. CASE UNCHANGED <<output, held, pool, converted, dropped>>
  BY <1>1 DEF DecoderInv, Media!Shown, Queued
<1>2. CASE Media!Decode \/ Media!Flush \/ Media!Skip \/ Media!Received \/ Media!InitCodec
  BY <1>1, <1>2 DEF Media!Decode, Media!SendPacket, Media!Flush, Media!Skip, Media!Received, Media!InitCodec
<1>3. CASE Media!Restart
  BY <1>3, PoolAssumption DEF Media!Restart, DecoderInv, Media!Shown, Queued
<1>4. QED
  BY <1>2, <1>3, ReceiveStep, GetFrameStep DEF Media!Next

(* No more frames come after one than are queued or dropped. *)
LEMMA LaterFrames ==
  ASSUME DecoderInv, NEW n \in Media!Shown
  PROVE  converted - n <= Len(output) + Cardinality(Media!Missed(n))
<1> DEFINE later == {d \in dropped : d > n}
<1>0. n \in Nat /\ n <= converted
  BY DEF DecoderInv, Media!Shown, Queued
<1>1. IsFiniteSet(later) /\ Cardinality(later) \in Nat
  <2>1. IsFiniteSet(1 .. converted)
    BY FS_Interval DEF DecoderInv
  <2>2. later \in SUBSET (1 .. converted)
    BY DEF DecoderInv
  <2>3. QED
    BY <2>1, <2>2, FS_Subset, FS_CardinalityType
<1>2. IsFiniteSet(Queued) /\ Cardinality(Queued) <= Len(output) /\ Cardinality(Queued) \in Nat
  <2>1. output \in Surjection(1 .. Len(output), Queued)
    <3>1. output \in [1 .. Len(output) -> Queued]
      BY DEF Queued, DecoderInv
    <3>2. \A q \in Queued : \E i \in 1 .. Len(output) : output[i] = q
      BY DEF Queued, DecoderInv
    <3>3. QED
      BY <3>1, <3>2 DEF Surjection
  <2>2. IsFiniteSet(1 .. Len(output)) /\ Cardinality(1 .. Len(output)) = Len(output)
    <3>1. Len(output) \in Nat
      BY DEF DecoderInv
    <3>2. Cardinality(1 .. Len(output)) = IF 1 > Len(output) THEN 0 ELSE Len(output) - 1 + 1
      BY <3>1, FS_Interval
    <3>3. IsFiniteSet(1 .. Len(output))
      BY <3>1, FS_Interval
    <3>4. QED
      BY <3>1, <3>2, <3>3
  <2>3. QED
    BY <2>1, <2>2, FS_Surjection, FS_CardinalityType
<1>3. (n + 1 .. converted) \in SUBSET (Queued \cup later)
  BY <1>0 DEF DecoderInv
<1>4. IsFiniteSet(Queued \cup later)
      /\ Cardinality(Queued \cup later) <= Cardinality(Queued) + Cardinality(later)
  <2>1. IsFiniteSet(Queued \cap later) /\ Cardinality(Queued \cap later) \in Nat
    <3>1. (Queued \cap later) \in SUBSET later
      OBVIOUS
    <3> HIDE DEF later
    <3>2. QED
      BY <1>1, <3>1, FS_Subset, FS_CardinalityType
  <2> HIDE DEF later
  <2>2. /\ IsFiniteSet(Queued \cup later)
        /\ Cardinality(Queued \cup later) =
             Cardinality(Queued) + Cardinality(later) - Cardinality(Queued \cap later)
    BY <1>1, <1>2, FS_Union
  <2>3. QED
    BY <1>1, <1>2, <2>1, <2>2
<1>5. Cardinality(n + 1 .. converted) = converted - n
  <2>1. converted \in Int /\ n + 1 \in Int
    BY <1>0 DEF DecoderInv
  <2>2. Cardinality(n + 1 .. converted) =
          IF n + 1 > converted THEN 0 ELSE converted - (n + 1) + 1
    BY <2>1, FS_Interval
  <2>3. QED
    BY <1>0, <2>1, <2>2
<1>6. Cardinality(n + 1 .. converted) <= Cardinality(Queued \cup later)
  BY <1>3, <1>4, FS_Subset
<1>7. Cardinality(Queued \cup later) \in Nat
  BY <1>4, FS_CardinalityType
<1> HIDE DEF later
<1>8. converted - n <= Len(output) + Cardinality(later)
  BY <1>0, <1>1, <1>2, <1>4, <1>5, <1>6, <1>7 DEF DecoderInv
<1>9. QED
  BY <1>8 DEF later, Media!Missed

(* av/hevc_decoder.cc, av/audio_decoder.cc: a frame on the way to the screen *)
(* keeps its picture, for any size of the queue and any pool of twice as     *)
(* many buffers.                                                             *)
THEOREM PicturesAreKept == MCSpec => []PicturesKept
<1>1. MCInit => DecoderInv
  BY InitDecoderInv DEF MCInit, PlaybackInit
<1>2. DecoderInv /\ [MCNext]_everything => DecoderInv'
  <2> SUFFICES ASSUME DecoderInv, [MCNext]_everything
               PROVE  DecoderInv'
    OBVIOUS
  <2>1. CASE UNCHANGED decoder
    BY <2>1 DEF decoder, DecoderInv, Media!Shown, Queued
  <2>2. QED
    BY <2>1, DecoderStep, StepOfUnit
<1>3. DecoderInv => PicturesKept
  <2> SUFFICES ASSUME DecoderInv PROVE Media!PicturesKept
    BY DEF PicturesKept
  <2>1. \A n \in Media!Shown :
          Cardinality(Media!Missed(n)) <= OutputSize => pool[Media!Slot(n)] = n
    <3> TAKE n \in Media!Shown
    <3> HAVE Cardinality(Media!Missed(n)) <= OutputSize
    <3>1. n \in 1 .. converted
      BY DEF DecoderInv, Media!Shown, Queued
    <3>2. Cardinality(Media!Missed(n)) \in Nat
      <4>1. Media!Missed(n) \in SUBSET (1 .. converted)
        BY DEF DecoderInv, Media!Missed
      <4>2. IsFiniteSet(1 .. converted)
        BY FS_Interval DEF DecoderInv
      <4>3. QED
        BY <4>1, <4>2, FS_Subset, FS_CardinalityType
    <3>3. converted < n + PoolSize
      BY <3>1, <3>2, LaterFrames, PoolAssumption DEF DecoderInv
    <3>4. QED
      BY <3>1, <3>3 DEF DecoderInv
  <2>2. \A S : Media!Cardinality(S) = Cardinality(S)
    BY DEF Media!Cardinality, Cardinality
  <2>3. QED
    BY <2>1, <2>2 DEF Media!PicturesKept
<1>4. QED
  BY <1>1, <1>2, <1>3, PTL DEF MCSpec

-----------------------------------------------------------------------------
(* Division, for hal/file_source.cc.                                         *)
LEMMA Quotient ==
  ASSUME NEW b \in Nat \ {0}, NEW s \in Nat
  PROVE  s \div b \in Nat /\ (s \div b) * b <= s /\ s < (s \div b) * b + b
<1>1. s \div b \in Nat /\ s % b \in 0 .. (b - 1)
  OBVIOUS
<1>2. s % b = s - b * (s \div b)
  BY Z3
<1>3. b * (s \div b) = (s \div b) * b /\ b * (s \div b) \in Nat
  BY <1>1
<1>4. QED
  BY <1>1, <1>2, <1>3

LEMMA Fits ==
  ASSUME NEW b \in Nat \ {0}, NEW s \in Nat, NEW k \in Nat
  PROVE  k * b <= s <=> k <= s \div b
<1> DEFINE q == s \div b
<1>1. q \in Nat /\ q * b <= s /\ s < q * b + b
  BY Quotient
<1> HIDE DEF q
<1>2. k * b \in Nat /\ q * b \in Nat /\ (q + 1) * b = q * b + b
  BY <1>1
<1>3. k <= q => k * b <= q * b
  BY <1>1
<1>4. k >= q + 1 => k * b >= (q + 1) * b
  BY <1>1
<1>5. k <= q \/ k >= q + 1
  BY <1>1
<1>6. k * b <= s <=> k <= q
  BY <1>1, <1>2, <1>3, <1>4, <1>5
<1>7. QED
  BY <1>6 DEF q

LEMMA QuotientOf ==
  ASSUME NEW b \in Nat \ {0}, NEW s \in Nat, NEW q \in Nat,
         q * b <= s, s < (q + 1) * b
  PROVE  s \div b = q
<1>1. s \div b \in Nat
  BY Quotient
<1>2. q <= s \div b
  BY Fits
<1>3. ~ (q + 1 <= s \div b)
  <2>1. ~ ((q + 1) * b <= s)
    OBVIOUS
  <2>2. QED
    BY <2>1, Fits
<1>4. QED
  BY <1>1, <1>2, <1>3

LEMMA Residue ==
  ASSUME NEW b \in Nat \ {0}, NEW m \in Nat, NEW k \in Nat, k < b
  PROVE  (m * b + k) % b = k
<1> DEFINE s == m * b + k
<1>1. s \in Nat /\ m * b <= s /\ s < (m + 1) * b /\ m * b = b * m
  OBVIOUS
<1>2. s \div b = m
  BY <1>1, QuotientOf
<1>3. s % b = s - b * (s \div b)
  BY <1>1, Z3
<1>4. QED
  BY <1>1, <1>2, <1>3

LEMMA SmallerOfTwo ==
  ASSUME NEW a \in Int, NEW b \in Int
  PROVE  Files!Min({a, b}) = IF a <= b THEN a ELSE b
BY DEF Files!Min

(* The recording was delivered m times and k samples; the stream stands      *)
(* there, or at the end.                                                     *)
Position(m, k) ==
  /\ k <= Files!Samples
  /\ delivered = m * Files!Samples + k
  /\ ~ file.loop => m = 0
  /\ failed = "no" => offset = k * SampleBytes
  /\ failed = "eof" => k = Files!Samples

FileInv ==
  /\ file \in [size : FileSizes, loop : BOOLEAN]
  /\ inOrder
  /\ error = "end" => ~ file.loop /\ failed = "eof"
  /\ \E m, k \in Nat : Position(m, k)

LEMMA SamplesType ==
  ASSUME file \in [size : FileSizes, loop : BOOLEAN]
  PROVE  /\ file.size \in Nat /\ Files!Samples \in Nat
         /\ Files!Samples * SampleBytes <= file.size
         /\ file.size < (Files!Samples + 1) * SampleBytes
<1>1. file.size \in Nat
  BY FilesAssumption
<1>2. /\ Files!Samples \in Nat /\ Files!Samples * SampleBytes <= file.size
      /\ file.size < Files!Samples * SampleBytes + SampleBytes
  BY <1>1, Quotient, FilesAssumption DEF Files!Samples
<1>3. (Files!Samples + 1) * SampleBytes = Files!Samples * SampleBytes + SampleBytes
  BY <1>2, FilesAssumption
<1>4. QED
  BY <1>1, <1>2, <1>3

LEMMA InitFileInv == Files!Init => FileInv
<1> SUFFICES ASSUME Files!Init PROVE FileInv
  OBVIOUS
<1>1. file \in [size : FileSizes, loop : BOOLEAN]
  BY DEF Files!Init
<1>2. 0 * Files!Samples + 0 = 0 /\ 0 * SampleBytes = 0 /\ 0 <= Files!Samples
  BY <1>1, SamplesType, FilesAssumption
<1>3. Position(0, 0)
  BY <1>2 DEF Files!Init, Position
<1>4. QED
  BY <1>1, <1>3 DEF Files!Init, FileInv

(* How many of the bytes asked for are there. *)
LEMMA BytesThere ==
  ASSUME file \in [size : FileSizes, loop : BOOLEAN],
         NEW k \in Nat, NEW n \in Nat, k <= Files!Samples
  PROVE  /\ n + k <= Files!Samples => Files!Bytes(k * SampleBytes, n) = n * SampleBytes
         /\ n + k > Files!Samples =>
              /\ Files!Bytes(k * SampleBytes, n) = file.size - k * SampleBytes
              /\ Files!Bytes(k * SampleBytes, n) < n * SampleBytes
<1> DEFINE b == SampleBytes
<1>1. b \in Nat \ {0} /\ file.size \in Nat
  BY FilesAssumption, SamplesType
<1>2. (n + k) * b = n * b + k * b /\ n * b \in Nat /\ k * b \in Nat
  BY <1>1
<1>3. (n + k) * b <= file.size <=> n + k <= Files!Samples
  BY <1>1, Fits DEF Files!Samples
<1>4. Files!Bytes(k * b, n) = IF n * b <= file.size - k * b THEN n * b ELSE file.size - k * b
  BY <1>1, <1>2, SmallerOfTwo DEF Files!Bytes
<1>5. Files!Samples \in Nat
  BY SamplesType
<1> HIDE DEF b
<1>6. /\ n + k <= Files!Samples => Files!Bytes(k * b, n) = n * b
      /\ n + k > Files!Samples => /\ Files!Bytes(k * b, n) = file.size - k * b
                                  /\ Files!Bytes(k * b, n) < n * b
  BY <1>1, <1>2, <1>3, <1>4, <1>5
<1>7. QED
  BY <1>6 DEF b

(* What a read finds at its end, and where it stands before it.              *)
LEMMA AtPosition ==
  ASSUME file \in [size : FileSizes, loop : BOOLEAN],
         NEW m \in Nat, NEW k \in Nat, Position(m, k)
  PROVE  /\ failed \in {"no", "eof"} => Files!Remainder = Files!Samples - k
         /\ failed = "no" /\ k < Files!Samples => Files!Continues(offset, 0)
<1> DEFINE b == SampleBytes
<1> DEFINE S == Files!Samples
<1>1. /\ b \in Nat \ {0} /\ file.size \in Nat /\ S \in Nat /\ k <= S
      /\ S * b <= file.size /\ file.size < (S + 1) * b
  BY FilesAssumption, SamplesType DEF Position
<1>2. CASE failed = "no"
  <2>1. offset = k * b /\ k * b \in Nat
    BY <1>1, <1>2 DEF Position
  <2>2. Files!Bytes(offset, S + 1) = file.size - k * b
    BY <1>1, <2>1, BytesThere
  <2>3. /\ (S - k) * b = S * b - k * b /\ (S - k + 1) * b = (S + 1) * b - k * b
        /\ S * b \in Nat /\ (S + 1) * b \in Nat
    BY <1>1
  <2>4. S - k \in Nat /\ file.size - k * b \in Nat
        /\ (S - k) * b <= file.size - k * b /\ file.size - k * b < (S - k + 1) * b
    <3> HIDE DEF b, S
    <3>1. QED
      BY <1>1, <2>1, <2>3
  <2>5. (file.size - k * b) \div b = S - k
    BY <1>1, <2>4, QuotientOf
  <2>6. Files!Remainder = S - k
    BY <1>2, <2>2, <2>5 DEF Files!Remainder
  <2>7. ASSUME k < S PROVE Files!Continues(offset, 0)
    <3>1. (k * b) % b = 0
      BY <1>1
    <3>2. (k * b) \div b = k
      <4>1. (k + 1) * b = k * b + b
        BY <1>1
      <4>2. k * b < (k + 1) * b
        BY <1>1, <2>1, <4>1
      <4>3. QED
        BY <1>1, <2>1, <4>2, QuotientOf
    <3>3. delivered = m * S + k /\ delivered + 0 = m * S + k
      BY <1>1 DEF Position
    <3>4. (m * S + k) % S = k
      BY <1>1, <2>7, Residue
    <3>5. QED
      BY <2>1, <3>1, <3>2, <3>3, <3>4 DEF Files!Continues
  <2>8. QED
    BY <1>2, <2>6, <2>7
<1>3. CASE failed = "eof"
  BY <1>1, <1>3 DEF Position, Files!Remainder
<1>4. QED
  BY <1>2, <1>3

LEMMA ReadWholeStep ==
  ASSUME FileInv, Files!ReadWhole
  PROVE  FileInv'
<1>1. PICK m \in Nat, k \in Nat : Position(m, k)
  BY DEF FileInv
<1>2. PICK n \in Requests :
        /\ failed = "no" /\ failed' = failed /\ file' = file /\ error' = "success"
        /\ Files!Bytes(offset, n) = n * SampleBytes
        /\ offset' = offset + n * SampleBytes
        /\ delivered' = delivered + n
        /\ inOrder' = (inOrder /\ Files!Continues(offset, 0))
  BY DEF Files!ReadWhole, Files!Finish
<1>3. /\ n \in Nat \ {0} /\ SampleBytes \in Nat \ {0} /\ Files!Samples \in Nat
      /\ k <= Files!Samples /\ offset = k * SampleBytes
      /\ file \in [size : FileSizes, loop : BOOLEAN]
  BY <1>1, <1>2, FilesAssumption, SamplesType DEF FileInv, Position
<1>4. n + k <= Files!Samples
  BY <1>2, <1>3, BytesThere
<1>5. inOrder'
  <2>1. k < Files!Samples
    BY <1>3, <1>4
  <2>2. Files!Continues(offset, 0)
    BY <1>1, <1>2, <1>3, <2>1, AtPosition
  <2>3. QED
    BY <1>2, <2>2 DEF FileInv
<1>6. Files!Samples' = Files!Samples
  BY <1>2 DEF Files!Samples
<1>7. Position(m, k + n)'
  <2>1. (k + n) * SampleBytes = k * SampleBytes + n * SampleBytes
    BY <1>3
  <2>2. m * Files!Samples + (k + n) = m * Files!Samples + k + n
    BY <1>3
  <2>3. QED
    BY <1>1, <1>2, <1>3, <1>4, <1>6, <2>1, <2>2 DEF Position
<1>8. k + n \in Nat
  BY <1>3
<1>9. QED
  BY <1>2, <1>3, <1>5, <1>7, <1>8 DEF FileInv

LEMMA ReadToEndStep ==
  ASSUME FileInv, Files!ReadToEnd
  PROVE  FileInv'
<1>1. PICK m \in Nat, k \in Nat : Position(m, k)
  BY DEF FileInv
<1>2. /\ ~ file.loop /\ failed \in {"no", "eof"}
      /\ failed' = "eof" /\ file' = file /\ error' = "end"
      /\ delivered' = delivered + Files!Remainder
      /\ inOrder' = (inOrder /\ (Files!Remainder = 0 \/ Files!Continues(offset, 0)))
  BY DEF Files!ReadToEnd, Files!Finish, Files!AtEnd
<1>3. file \in [size : FileSizes, loop : BOOLEAN] /\ Files!Samples \in Nat
      /\ k <= Files!Samples
  BY <1>1, SamplesType DEF FileInv, Position
<1>4. Files!Remainder = Files!Samples - k
  BY <1>1, <1>2, <1>3, AtPosition
<1>5. Files!Remainder = 0 \/ Files!Continues(offset, 0)
  <2>1. CASE failed = "eof"
    BY <1>1, <1>3, <1>4, <2>1 DEF Position
  <2>2. CASE failed = "no"
    BY <1>1, <1>3, <1>4, <2>2, AtPosition
  <2>3. QED
    BY <1>2, <2>1, <2>2
<1>6. inOrder'
  BY <1>2, <1>5 DEF FileInv
<1>7. Files!Samples' = Files!Samples
  BY <1>2 DEF Files!Samples
<1>8. Position(0, Files!Samples)'
  <2>1. m = 0
    BY <1>1, <1>2 DEF Position
  <2>2. delivered = k /\ 0 * Files!Samples + Files!Samples = Files!Samples
    BY <1>1, <1>3, <2>1 DEF Position
  <2>3. delivered' = Files!Samples
    BY <1>2, <1>3, <1>4, <2>2
  <2>4. QED
    BY <1>2, <1>3, <1>7, <2>2, <2>3 DEF Position
<1>9. QED
  BY <1>2, <1>3, <1>6, <1>7, <1>8 DEF FileInv

LEMMA ReadAroundStep ==
  ASSUME FileInv, Files!ReadAround
  PROVE  FileInv'
<1> DEFINE S == Files!Samples
<1> DEFINE first == Files!Remainder
<1>1. PICK m \in Nat, k \in Nat : Position(m, k)
  BY DEF FileInv
<1>2. PICK n \in Requests :
        /\ file.loop /\ Files!AtEnd(n) /\ file' = file
        /\ offset' = Files!Bytes(0, n - first)
        /\ failed' = IF Files!Bytes(0, n - first) < (n - first) * SampleBytes
                     THEN "eof" ELSE "no"
        /\ error' = "success"
        /\ delivered' = delivered + (first + Files!Bytes(0, n - first) \div SampleBytes)
        /\ inOrder' = (inOrder /\ /\ first = 0 \/ Files!Continues(offset, 0)
                                  /\ \/ Files!Bytes(0, n - first) < SampleBytes
                                     \/ Files!Continues(0, first))
  BY DEF Files!ReadAround, Files!Finish
<1>3. /\ file \in [size : FileSizes, loop : BOOLEAN] /\ S \in Nat /\ k <= S
      /\ n \in Nat \ {0} /\ SampleBytes \in Nat \ {0} /\ failed \in {"no", "eof"}
      /\ file.size \in Nat /\ S * SampleBytes <= file.size
      /\ file.size < (S + 1) * SampleBytes
  BY <1>1, <1>2, SamplesType, FilesAssumption DEF FileInv, Position, Files!AtEnd
<1>4. first = S - k /\ first \in Nat
  BY <1>1, <1>3, AtPosition
<1>5. n - first \in Nat /\ n - first >= 1
  <2>1. CASE failed = "eof"
    BY <1>1, <1>3, <1>4, <2>1 DEF Position
  <2>2. CASE failed = "no"
    <3>1. Files!Bytes(k * SampleBytes, n) < n * SampleBytes
      BY <1>1, <1>2, <2>2 DEF Position, Files!AtEnd
    <3>2. ~ (n + k <= S)
      <4>1. n + k <= S => Files!Bytes(k * SampleBytes, n) = n * SampleBytes
        BY <1>3, BytesThere
      <4>2. n * SampleBytes \in Nat
        BY <1>3
      <4>3. QED
        BY <3>1, <4>1, <4>2
    <3>3. QED
      BY <1>3, <1>4, <3>2
  <2>3. QED
    BY <1>3, <2>1, <2>2
<1> DEFINE j == n - first
<1>6. first = 0 \/ Files!Continues(offset, 0)
  <2>1. CASE failed = "eof"
    BY <1>1, <1>3, <1>4, <2>1 DEF Position
  <2>2. CASE failed = "no"
    BY <1>1, <1>3, <1>4, <2>2, AtPosition
  <2>3. QED
    BY <1>3, <2>1, <2>2
<1>7. /\ j <= S => Files!Bytes(0, j) = j * SampleBytes
      /\ j > S => Files!Bytes(0, j) = file.size /\ file.size < j * SampleBytes
  <2>1. 0 * SampleBytes = 0 /\ j + 0 = j /\ file.size - 0 = file.size
    BY <1>3, <1>5
  <2> HIDE DEF j, first
  <2>2. j \in Nat
    BY <1>5 DEF j
  <2>3. \A z \in Nat :
          z = 0 => /\ j + z <= S => Files!Bytes(z * SampleBytes, j) = j * SampleBytes
                   /\ j + z > S =>
                        /\ Files!Bytes(z * SampleBytes, j) = file.size - z * SampleBytes
                        /\ Files!Bytes(z * SampleBytes, j) < j * SampleBytes
    <3> TAKE z \in Nat
    <3> HAVE z = 0
    <3>1. z <= Files!Samples /\ file \in [size : FileSizes, loop : BOOLEAN]
      BY <1>3
    <3> HIDE DEF S
    <3>2. /\ j + z <= Files!Samples => Files!Bytes(z * SampleBytes, j) = j * SampleBytes
          /\ j + z > Files!Samples =>
               /\ Files!Bytes(z * SampleBytes, j) = file.size - z * SampleBytes
               /\ Files!Bytes(z * SampleBytes, j) < j * SampleBytes
      BY <2>2, <3>1, BytesThere
    <3>3. QED
      BY <3>2 DEF S
  <2>4. QED
    BY <2>1, <2>2, <2>3
<1>8. delivered + first = (m + 1) * S + 0
  <2>1. delivered = m * S + k /\ (m + 1) * S = m * S + S /\ m * S \in Nat
    BY <1>1, <1>3 DEF Position
  <2>2. QED
    BY <1>3, <1>4, <2>1
<1>9. Files!Bytes(0, j) < SampleBytes \/ Files!Continues(0, first)
  <2>1. CASE S = 0
    <3>1. Files!Bytes(0, j) = file.size
      BY <1>5, <1>7, <2>1
    <3>2. (S + 1) * SampleBytes = SampleBytes
      BY <1>3, <2>1
    <3>3. QED
      BY <1>3, <3>1, <3>2
  <2>2. CASE S > 0
    <3>1. (delivered + first) % S = 0
      BY <1>3, <1>8, <2>2, Residue
    <3>2. 0 % SampleBytes = 0 /\ 0 \div SampleBytes = 0
      BY <1>3
    <3>3. QED
      BY <3>1, <3>2 DEF Files!Continues
  <2>3. QED
    BY <1>3, <2>1, <2>2
<1>10. inOrder'
  <2> HIDE DEF first
  <2>1. QED
    BY <1>2, <1>6, <1>9 DEF FileInv
<1>11. Files!Samples' = S
  BY <1>2 DEF Files!Samples
<1>12. \E i \in Nat : Position(m + 1, i)'
  <2>1. CASE j <= S
    <3>1. Files!Bytes(0, j) = j * SampleBytes /\ j \in Nat
      BY <1>5, <1>7, <2>1
    <3>2. (j * SampleBytes) \div SampleBytes = j
      <4>1. (j + 1) * SampleBytes = j * SampleBytes + SampleBytes /\ j * SampleBytes \in Nat
        BY <1>3, <3>1
      <4>2. j * SampleBytes < (j + 1) * SampleBytes
        BY <1>3, <4>1
      <4> HIDE DEF j
      <4>3. QED
        BY <1>3, <3>1, <4>1, <4>2, QuotientOf
    <3>3. delivered' = (m + 1) * S + j
      <4>1. delivered' = delivered + (first + j)
        BY <1>2, <3>1, <3>2
      <4>2. delivered \in Nat /\ (m + 1) * S \in Nat
        <5>1. m * S \in Nat /\ (m + 1) * S \in Nat /\ delivered = m * S + k
          BY <1>1, <1>3 DEF Position
        <5>2. QED
          BY <5>1
      <4> HIDE DEF j, first
      <4>3. QED
        BY <1>4, <1>8, <3>1, <4>1, <4>2
    <3>4. failed' = "no" /\ offset' = j * SampleBytes
      <4>1. j * SampleBytes \in Nat
        BY <1>3, <3>1
      <4>2. QED
        BY <1>2, <3>1, <4>1
    <3>5. PICK i \in Nat : i = j
      BY <3>1
    <3>6. Position(m + 1, i)'
      BY <1>2, <1>11, <2>1, <3>3, <3>4, <3>5 DEF Position
    <3>7. QED
      BY <3>6
  <2>2. CASE j > S
    <3>1. Files!Bytes(0, j) = file.size /\ file.size < j * SampleBytes
      BY <1>7, <2>2
    <3>2. file.size \div SampleBytes = S
      BY DEF Files!Samples
    <3>3. delivered' = (m + 1) * S + S
      <4>1. delivered' = delivered + (first + S)
        BY <1>2, <3>1, <3>2
      <4>2. delivered \in Nat /\ (m + 1) * S \in Nat
        <5>1. m * S \in Nat /\ (m + 1) * S \in Nat /\ delivered = m * S + k
          BY <1>1, <1>3 DEF Position
        <5>2. QED
          BY <5>1
      <4> HIDE DEF first, S
      <4>3. QED
        BY <1>3, <1>4, <1>8, <4>1, <4>2
    <3>4. failed' = "eof"
      BY <1>2, <3>1
    <3>5. Position(m + 1, S)'
      <4>1. S' = S
        BY <1>11
      <4>2. QED
        BY <1>2, <1>3, <1>11, <3>3, <3>4, <4>1 DEF Position
    <3>6. QED
      BY <1>3, <1>11, <3>5
  <2>3. QED
    BY <1>3, <1>5, <2>1, <2>2
<1>13. QED
  <2>1. m + 1 \in Nat
    OBVIOUS
  <2>2. \E mm, kk \in Nat : Position(mm, kk)'
    BY <1>12, <2>1
  <2>3. QED
    BY <1>2, <1>3, <1>10, <2>2 DEF FileInv

LEMMA FileStep ==
  ASSUME FileInv, Files!Next
  PROVE  FileInv'
<1>1. CASE Files!ReadFails
  <2>1. /\ file' = file /\ offset' = offset /\ delivered' = delivered /\ inOrder' = inOrder
        /\ failed' = "bad" /\ error' = "read error"
    BY <1>1 DEF Files!ReadFails
  <2>2. Files!Samples' = Files!Samples
    BY <2>1 DEF Files!Samples
  <2>3. ASSUME NEW m \in Nat, NEW k \in Nat, Position(m, k)
        PROVE  Position(m, k)'
    BY <2>1, <2>2, <2>3 DEF Position
  <2>4. QED
    BY <2>1, <2>3 DEF FileInv
<1>2. QED
  BY <1>1, ReadWholeStep, ReadToEndStep, ReadAroundStep DEF Files!Next

-----------------------------------------------------------------------------
(* apps/capture_iq.py: what samples and the streamer hold are the samples of *)
(* the requests in order, those received first.                              *)
Sorted(s) == \A i, j \in 1 .. Len(s) : i <= j => s[i] <= s[j]

Precedes(s, t) == \A i \in 1 .. Len(s), j \in 1 .. Len(t) : s[i] <= t[j]

OrderInv ==
  /\ request \in Nat /\ (phase = "issue" => request \in {0, 1})
  /\ phase \in {"configure", "issue"} => saved = <<>>
  /\ samples \in Seq(Nat) /\ Sorted(samples)
  /\ streamer \in Seq(Nat) /\ Sorted(streamer)
  /\ Precedes(samples, streamer)
  /\ \A j \in 1 .. Len(streamer) : streamer[j] <= request
  /\ saved # <<>> => saved[1] \in Seq(Nat) /\ Sorted(saved[1])

LEMMA SortedConcat ==
  ASSUME NEW s \in Seq(Nat), NEW t \in Seq(Nat), Sorted(s), Sorted(t), Precedes(s, t)
  PROVE  s \o t \in Seq(Nat) /\ Sorted(s \o t)
<1> DEFINE u == s \o t
<1>1. /\ u \in Seq(Nat) /\ Len(u) = Len(s) + Len(t)
      /\ \A i \in 1 .. Len(s) + Len(t) :
           u[i] = IF i <= Len(s) THEN s[i] ELSE t[i - Len(s)]
  BY ConcatProperties
<1>2. Len(s) \in Nat /\ Len(t) \in Nat
  OBVIOUS
<1> HIDE DEF u
<1>3. ASSUME NEW i \in 1 .. Len(u), NEW j \in 1 .. Len(u), i <= j
      PROVE  u[i] <= u[j]
  <2>1. CASE j <= Len(s)
    <3>1. i \in 1 .. Len(s) /\ j \in 1 .. Len(s)
      BY <1>1, <1>2, <1>3, <2>1
    <3>2. u[i] = s[i] /\ u[j] = s[j]
      BY <1>1, <2>1, <3>1, <1>2, <1>3
    <3>3. QED
      BY <1>3, <3>1, <3>2 DEF Sorted
  <2>2. CASE i <= Len(s) /\ ~ (j <= Len(s))
    <3>1. i \in 1 .. Len(s) /\ j - Len(s) \in 1 .. Len(t)
      BY <1>1, <1>2, <1>3, <2>2
    <3>2. u[i] = s[i] /\ u[j] = t[j - Len(s)]
      BY <1>1, <2>2, <3>1, <1>2, <1>3
    <3>3. QED
      BY <3>1, <3>2 DEF Precedes
  <2>3. CASE ~ (i <= Len(s))
    <3>1. /\ i - Len(s) \in 1 .. Len(t) /\ j - Len(s) \in 1 .. Len(t)
          /\ i - Len(s) <= j - Len(s)
      <4>1. i \in 1 .. Len(s) + Len(t) /\ j \in 1 .. Len(s) + Len(t)
        BY <1>1
      <4>2. QED
        BY <1>2, <1>3, <2>3, <4>1
    <3>2. u[i] = t[i - Len(s)] /\ u[j] = t[j - Len(s)]
      BY <1>1, <2>3, <3>1, <1>2, <1>3
    <3>3. QED
      BY <3>1, <3>2 DEF Sorted
  <2>4. QED
    BY <2>1, <2>2, <2>3, <1>2
<1>4. QED
  BY <1>1, <1>3 DEF Sorted, u

(* What is taken from the front of a sorted sequence precedes the rest.      *)
LEMMA SortedSplit ==
  ASSUME NEW s \in Seq(Nat), Sorted(s), NEW n \in 1 .. Len(s)
  PROVE  LET front == SubSeq(s, 1, n)
             rest  == SubSeq(s, n + 1, Len(s))
         IN  /\ front \in Seq(Nat) /\ Sorted(front) /\ Len(front) = n
             /\ rest \in Seq(Nat) /\ Sorted(rest) /\ Len(rest) = Len(s) - n
             /\ Precedes(front, rest)
             /\ \A i \in 1 .. Len(front) : front[i] = s[i]
             /\ \A j \in 1 .. Len(rest) : j + n \in 1 .. Len(s) /\ rest[j] = s[j + n]
<1> DEFINE front == SubSeq(s, 1, n)
           rest == SubSeq(s, n + 1, Len(s))
<1>1. Len(s) \in Nat /\ n \in Nat /\ \A i \in 1 .. Len(s) : s[i] \in Nat
  OBVIOUS
<1>2. /\ front \in Seq(Nat) /\ Len(front) = n
      /\ \A i \in 1 .. n : front[i] = s[i]
  <2>1. \A i \in 1 .. n : s[i] \in Nat
    BY <1>1
  <2>2. /\ front \in Seq(Nat)
        /\ Len(front) = IF 1 <= n THEN n - 1 + 1 ELSE 0
        /\ \A i \in 1 .. n - 1 + 1 : front[i] = s[1 + i - 1]
    BY <1>1, <2>1, SubSeqProperties
  <2> HIDE DEF front
  <2>3. QED
    BY <1>1, <2>2
<1>3. /\ rest \in Seq(Nat) /\ Len(rest) = Len(s) - n
      /\ \A j \in 1 .. Len(s) - n : j + n \in 1 .. Len(s) /\ rest[j] = s[j + n]
  <2>1. \A i \in n + 1 .. Len(s) : s[i] \in Nat
    BY <1>1
  <2>2. n + 1 \in Int /\ Len(s) \in Int
    BY <1>1
  <2>3. /\ rest \in Seq(Nat)
        /\ Len(rest) = IF n + 1 <= Len(s) THEN Len(s) - (n + 1) + 1 ELSE 0
        /\ \A i \in 1 .. Len(s) - (n + 1) + 1 : rest[i] = s[n + 1 + i - 1]
    BY <2>1, <2>2, SubSeqProperties
  <2> HIDE DEF rest
  <2>4. Len(rest) = Len(s) - n
    BY <1>1, <2>3
  <2>5. ASSUME NEW j \in 1 .. Len(s) - n
        PROVE  j + n \in 1 .. Len(s) /\ rest[j] = s[j + n]
    <3>1. j \in 1 .. Len(s) - (n + 1) + 1 /\ n + 1 + j - 1 = j + n
      BY <1>1
    <3>2. j + n \in 1 .. Len(s)
      BY <1>1
    <3>3. QED
      BY <2>3, <3>1, <3>2
  <2>6. QED
    BY <2>3, <2>4, <2>5
<1> HIDE DEF front, rest
<1>4. Sorted(front)
  <2> SUFFICES ASSUME NEW i \in 1 .. Len(front), NEW j \in 1 .. Len(front), i <= j
               PROVE  front[i] <= front[j]
    BY DEF Sorted
  <2>1. i \in 1 .. Len(s) /\ j \in 1 .. Len(s) /\ front[i] = s[i] /\ front[j] = s[j]
    BY <1>1, <1>2
  <2>2. QED
    BY <2>1 DEF Sorted
<1>5. Sorted(rest)
  <2> SUFFICES ASSUME NEW i \in 1 .. Len(rest), NEW j \in 1 .. Len(rest), i <= j
               PROVE  rest[i] <= rest[j]
    BY DEF Sorted
  <2>1. /\ i + n \in 1 .. Len(s) /\ rest[i] = s[i + n]
        /\ j + n \in 1 .. Len(s) /\ rest[j] = s[j + n]
    BY <1>3
  <2>2. i + n <= j + n
    BY <1>1, <1>3
  <2>3. QED
    BY <2>1, <2>2 DEF Sorted
<1>6. Precedes(front, rest)
  <2> SUFFICES ASSUME NEW i \in 1 .. Len(front), NEW j \in 1 .. Len(rest)
               PROVE  front[i] <= rest[j]
    BY DEF Precedes
  <2>1. i \in 1 .. Len(s) /\ i <= n /\ front[i] = s[i]
    BY <1>1, <1>2
  <2>2. j + n \in 1 .. Len(s) /\ rest[j] = s[j + n] /\ i <= j + n
    BY <1>1, <1>3, <2>1
  <2>3. QED
    BY <2>1, <2>2 DEF Sorted
<1>7. QED
  BY <1>2, <1>3, <1>4, <1>5, <1>6 DEF front, rest

(* A second recording is only begun, and only written, when the options and  *)
(* the results so far allow it.                                              *)
Allowed == ~ options.validateOnly /\ (options.force \/ detected)

TrustInv ==
  /\ phase = "configure" => request = 0
  /\ phase = "issue" => request = 0 \/ (request = 1 /\ Allowed)
  /\ phase = "recv" => request = 1 \/ (request = 2 /\ Allowed)
  /\ phase = "detect" => request = 1
  /\ phase \in {"validate", "write"} => Allowed
  /\ phase = "write" => options.force \/ options.skip \/ validation = "passed"
  /\ saved # <<>> => /\ phase = "exit 0" /\ Allowed
                     /\ options.force \/ options.skip \/ validation = "passed"

LEMMA InitCapture == Capture!Init => OrderInv /\ TrustInv
BY EmptySeq DEF Capture!Init, OrderInv, TrustInv, Sorted, Precedes

LEMMA TrustStep ==
  ASSUME OrderInv, TrustInv, Capture!Next
  PROVE  TrustInv'
<1> USE DEF TrustInv, Allowed
<1>1. CASE Capture!Configure
  BY <1>1 DEF Capture!Configure
<1>2. CASE Capture!IssueStreamCmd
  <2>1. /\ phase = "issue" /\ phase' = "recv" /\ request' = request + 1
        /\ UNCHANGED <<options, detected, validation, saved>>
    BY <1>2 DEF Capture!IssueStreamCmd
  <2>2. request = 0 => request' = 1
    BY <2>1
  <2>3. request = 1 => request' = 2
    BY <2>1
  <2>4. QED
    BY <2>1, <2>2, <2>3
<1>3. CASE Capture!Recv
  BY <1>3 DEF Capture!Recv
<1>4. CASE Capture!Captured
  BY <1>4 DEF Capture!Captured
<1>5. CASE Capture!Detect
  <2>1. PICK found \in BOOLEAN :
          /\ detected' = found
          /\ phase' = CASE ~ found /\ ~ options.force -> "exit 1"
                        [] (found \/ options.force) /\ options.validateOnly -> "exit 0"
                        [] OTHER -> "issue"
    BY <1>5 DEF Capture!Detect
  <2>2. phase = "detect" /\ UNCHANGED <<options, request, validation, saved>>
    BY <1>5 DEF Capture!Detect
  <2>3. phase' \in {"exit 0", "exit 1", "issue"}
    BY <2>1, Zenon
  <2>4. phase' = "issue" => (options.force \/ found) /\ ~ options.validateOnly
    BY <2>1, Zenon
  <2>5. phase' = "issue" => Allowed'
    BY <2>1, <2>2, <2>4, Zenon
  <2>6. QED
    BY <2>2, <2>3, <2>5
<1>6. CASE Capture!Validate
  <2>1. phase = "validate" /\ UNCHANGED <<options, request, detected, saved>>
    BY <1>6 DEF Capture!Validate
  <2>2. \/ options.skip /\ phase' = "write"
        \/ validation' = "failed" /\ options.force /\ phase' = "write"
        \/ validation' = "passed" /\ phase' = "write"
        \/ phase' \in {"exception", "exit 1"}
    BY <1>6, Zenon DEF Capture!Validate
  <2>3. saved = <<>> /\ Allowed
    BY <2>1
  <2>4. QED
    BY <2>1, <2>2, <2>3
<1>7. CASE Capture!WriteSigmf
  BY <1>7 DEF Capture!WriteSigmf
<1>8. QED
  BY <1>1, <1>2, <1>3, <1>4, <1>5, <1>6, <1>7 DEF Capture!Next

LEMMA OrderStep ==
  ASSUME OrderInv, TrustInv, Capture!Next
  PROVE  OrderInv'
<1> USE DEF OrderInv
<1>1. CASE /\ UNCHANGED <<request, streamer, saved>> /\ samples' \in {samples, <<>>}
           /\ phase' \in {"configure", "issue"} => request \in {0, 1} /\ saved = <<>>
  <2>1. /\ samples' \in Seq(Nat) /\ Sorted(samples') /\ Precedes(samples', streamer)
    <3>1. CASE samples' = samples
      BY <3>1
    <3>2. CASE samples' = <<>>
      BY <3>2 DEF Sorted, Precedes
    <3>3. QED
      BY <1>1, <3>1, <3>2
  <2>2. QED
    BY <1>1, <2>1
<1>2. CASE Capture!IssueStreamCmd
  <2> DEFINE more == [i \in 1 .. Wanted[request'] |-> request']
  <2>1. /\ phase = "issue" /\ phase' = "recv" /\ request' = request + 1
        /\ streamer' = streamer \o more /\ samples' = <<>> /\ saved' = saved
    BY <1>2 DEF Capture!IssueStreamCmd
  <2>2. request \in Nat /\ request' \in 1 .. 2 /\ Wanted[request'] \in Nat
    BY <2>1, WantedAssumption
  <2>3. more \in Seq(Nat) /\ Len(more) = Wanted[request']
        /\ \A i \in 1 .. Len(more) : more[i] = request'
    BY <2>2
  <2> HIDE DEF more
  <2>4. \A i \in 1 .. Len(streamer) : streamer[i] \in Nat /\ streamer[i] <= request'
    BY <2>1, <2>2
  <2>5. Sorted(more) /\ Precedes(streamer, more)
    BY <2>2, <2>3, <2>4 DEF Sorted, Precedes
  <2>6. streamer' \in Seq(Nat) /\ Sorted(streamer')
    BY <2>1, <2>3, <2>5, SortedConcat
  <2>7. \A i \in 1 .. Len(streamer') : streamer'[i] <= request'
    <3>1. /\ Len(streamer') = Len(streamer) + Len(more)
          /\ \A i \in 1 .. Len(streamer) + Len(more) : streamer'[i] =
                IF i <= Len(streamer) THEN streamer[i] ELSE more[i - Len(streamer)]
      BY <2>1, <2>3, ConcatProperties
    <3>2. Len(streamer) \in Nat /\ Len(more) \in Nat
      BY <2>3
    <3>3. ASSUME NEW i \in 1 .. Len(streamer') PROVE streamer'[i] <= request'
      <4>1. CASE i <= Len(streamer)
        <5>1. i \in 1 .. Len(streamer) /\ streamer'[i] = streamer[i]
          BY <3>1, <3>2, <4>1
        <5>2. QED
          BY <2>4, <5>1
      <4>2. CASE ~ (i <= Len(streamer))
        <5>1. /\ i - Len(streamer) \in 1 .. Len(more)
              /\ streamer'[i] = more[i - Len(streamer)]
          BY <3>1, <3>2, <4>2
        <5>2. streamer'[i] = request'
          BY <2>3, <5>1
        <5>3. QED
          BY <2>2, <5>2
      <4>3. QED
        BY <4>1, <4>2
    <3>4. QED
      BY <3>3
  <2>8. Sorted(<<>>) /\ Precedes(<<>>, streamer') /\ <<>> \in Seq(Nat)
    BY DEF Sorted, Precedes
  <2>9. QED
    BY <2>1, <2>2, <2>6, <2>7, <2>8
<1>3. CASE Capture!Recv
  <2>1. PICK n \in 1 .. Len(streamer) :
          /\ samples' = samples \o SubSeq(streamer, 1, n)
          /\ streamer' = SubSeq(streamer, n + 1, Len(streamer))
    BY <1>3 DEF Capture!Recv
  <2>2. phase' = phase /\ request' = request /\ saved' = saved
    BY <1>3 DEF Capture!Recv
  <2> DEFINE front == SubSeq(streamer, 1, n)
  <2>3. /\ front \in Seq(Nat) /\ Sorted(front) /\ Len(front) = n
        /\ streamer' \in Seq(Nat) /\ Sorted(streamer') /\ Len(streamer') = Len(streamer) - n
        /\ Precedes(front, streamer')
        /\ \A i \in 1 .. Len(front) : front[i] = streamer[i]
        /\ \A j \in 1 .. Len(streamer') :
             j + n \in 1 .. Len(streamer) /\ streamer'[j] = streamer[j + n]
    BY <2>1, SortedSplit
  <2>4. samples' = samples \o front
    BY <2>1
  <2> HIDE DEF front
  <2>5. Len(samples) \in Nat /\ Len(streamer) \in Nat /\ n \in 1 .. Len(streamer)
    OBVIOUS
  <2>6. Precedes(samples, front) /\ Precedes(samples, streamer')
    <3>1. ASSUME NEW i \in 1 .. Len(samples), NEW j \in 1 .. Len(front)
          PROVE  samples[i] <= front[j]
      <4>1. j \in 1 .. Len(streamer) /\ front[j] = streamer[j]
        BY <2>3, <2>5
      <4>2. QED
        BY <4>1 DEF Precedes
    <3>2. ASSUME NEW i \in 1 .. Len(samples), NEW j \in 1 .. Len(streamer')
          PROVE  samples[i] <= streamer'[j]
      <4>1. j + n \in 1 .. Len(streamer) /\ streamer'[j] = streamer[j + n]
        BY <2>3
      <4>2. QED
        BY <4>1 DEF Precedes
    <3>3. QED
      BY <3>1, <3>2 DEF Precedes
  <2>7. samples' \in Seq(Nat) /\ Sorted(samples')
    BY <2>3, <2>4, <2>6, SortedConcat
  <2>8. Precedes(samples', streamer')
    <3>1. /\ Len(samples') = Len(samples) + Len(front)
          /\ \A i \in 1 .. Len(samples) + Len(front) : samples'[i] =
                IF i <= Len(samples) THEN samples[i] ELSE front[i - Len(samples)]
      BY <2>3, <2>4, ConcatProperties
    <3>2. ASSUME NEW i \in 1 .. Len(samples'), NEW j \in 1 .. Len(streamer')
          PROVE  samples'[i] <= streamer'[j]
      <4>1. CASE i <= Len(samples)
        <5>1. i \in 1 .. Len(samples) /\ samples'[i] = samples[i]
          BY <2>3, <2>5, <3>1, <4>1
        <5>2. QED
          BY <2>6, <5>1 DEF Precedes
      <4>2. CASE ~ (i <= Len(samples))
        <5>1. i - Len(samples) \in 1 .. Len(front) /\ samples'[i] = front[i - Len(samples)]
          BY <2>3, <2>5, <3>1, <4>2
        <5>2. QED
          BY <2>3, <5>1 DEF Precedes
      <4>3. QED
        BY <4>1, <4>2
    <3>3. QED
      BY <3>2 DEF Precedes
  <2>9. \A j \in 1 .. Len(streamer') : streamer'[j] <= request
    BY <2>3
  <2>10. QED
    BY <2>2, <2>3, <2>7, <2>8, <2>9
<1>4. CASE Capture!Configure
  BY <1>1, <1>4 DEF Capture!Configure, TrustInv
<1>5. CASE Capture!Captured
  BY <1>1, <1>5 DEF Capture!Captured
<1>6. CASE Capture!Detect
  <2>1. UNCHANGED <<request, streamer, saved, samples>> /\ phase = "detect"
    BY <1>6 DEF Capture!Detect
  <2>2. request = 1 /\ saved = <<>>
    BY <2>1 DEF TrustInv
  <2>3. QED
    BY <1>1, <2>1, <2>2
<1>7. CASE Capture!Validate
  BY <1>1, <1>7 DEF Capture!Validate
<1>8. CASE Capture!WriteSigmf
  BY <1>8 DEF Capture!WriteSigmf
<1>9. QED
  BY <1>2, <1>3, <1>4, <1>5, <1>6, <1>7, <1>8 DEF Capture!Next

(* hal/file_source.cc and apps/capture_iq.py: a recording is replayed        *)
(* without a seam, and one that is saved was tested and is in order, for any *)
(* sizes of samples, files and requests.                                     *)
THEOREM RecordingsAreSound == MCSpec => []RecordingsSound
<1> DEFINE RInv == FileInv /\ OrderInv /\ TrustInv
<1>1. MCInit => RInv
  BY InitFileInv, InitCapture DEF MCInit, SourcesInit, ProgramsInit
<1>2. RInv /\ [MCNext]_everything => RInv'
  <2> SUFFICES ASSUME RInv, [MCNext]_everything
               PROVE  RInv'
    OBVIOUS
  <2>1. UNCHANGED recording => FileInv'
    <3> SUFFICES ASSUME UNCHANGED recording PROVE FileInv'
      OBVIOUS
    <3>1. Files!Samples' = Files!Samples
      BY DEF recording, Files!Samples
    <3>2. ASSUME NEW m \in Nat, NEW k \in Nat, Position(m, k)
          PROVE  Position(m, k)'
      BY <3>1, <3>2 DEF recording, Position
    <3>3. QED
      BY <3>2 DEF recording, FileInv
  <2>2. UNCHANGED capture => OrderInv' /\ TrustInv'
    <3> SUFFICES ASSUME UNCHANGED capture PROVE OrderInv' /\ TrustInv'
      OBVIOUS
    <3>1. OrderInv'
      BY DEF capture, OrderInv, Sorted, Precedes
    <3>2. TrustInv'
      BY DEF capture, TrustInv, Allowed
    <3>3. QED
      BY <3>1, <3>2
  <2>3. QED
    BY <2>1, <2>2, FileStep, OrderStep, TrustStep, StepOfUnit
<1>3. RInv => RecordingsSound
  <2> SUFFICES ASSUME RInv PROVE RecordingsSound
    OBVIOUS
  <2>1. error = "end" => delivered = Files!Samples
    <3> SUFFICES ASSUME error = "end" PROVE delivered = Files!Samples
      OBVIOUS
    <3>1. PICK m \in Nat, k \in Nat : Position(m, k)
      BY DEF FileInv
    <3>2. m = 0 /\ k = Files!Samples /\ 0 * Files!Samples + Files!Samples = Files!Samples
      BY <3>1, SamplesType DEF FileInv, Position
    <3>3. QED
      BY <3>1, <3>2 DEF Position
  <2>2. Files!RecordingInOrder
    BY <2>1 DEF FileInv, Files!RecordingInOrder
  <2>3. ASSUME saved # <<>>
        PROVE  \A i, j \in DOMAIN saved[1] : i <= j => saved[1][i] <= saved[1][j]
    <3>1. saved[1] \in Seq(Nat) /\ Sorted(saved[1])
      BY <2>3 DEF OrderInv
    <3>2. DOMAIN saved[1] = 1 .. Len(saved[1])
      BY <3>1
    <3>3. QED
      BY <3>1, <3>2 DEF Sorted
  <2>4. Capture!SavedIsSound
    BY <2>3, Zenon DEF TrustInv, Allowed, Capture!SavedIsSound
  <2>5. QED
    BY <2>2, <2>4 DEF RecordingsSound
<1>4. QED
  BY <1>1, <1>2, <1>3, PTL DEF MCSpec
-----------------------------------------------------------------------------
(* The library's sequence operators of apps/cc_extract.py's parser.          *)

(* The greatest of some numbers up to n, when one of them is n.              *)
LEMMA GreatestIs ==
  ASSUME NEW n \in Nat, NEW S, S \subseteq 1 .. n, n \in S
  PROVE  Captions!Max(S) = n
<1>1. \A y \in S : n >= y
  OBVIOUS
<1>2. \A x \in S : (\A y \in S : x >= y) => x = n
  <2> SUFFICES ASSUME NEW x \in S, \A y \in S : x >= y
               PROVE  x = n
    OBVIOUS
  <2>1. x \in 1 .. n /\ x >= n
    OBVIOUS
  <2> QED BY <2>1
<1> QED BY <1>1, <1>2 DEF Captions!Max

(* A loop over n values of D, from start.                                    *)
Loops(g, D, start, n, turns) ==
  /\ g \in [0 .. n -> D] /\ g[0] = start
  /\ \A i \in 1 .. n : g[i] = turns[i][g[i - 1]]

LEMMA LoopExists ==
  ASSUME NEW D, NEW start \in D, NEW n \in Nat, NEW turns \in [1 .. n -> [D -> D]]
  PROVE  \E g : Loops(g, D, start, n, turns)
BY IterationExists DEF Loops

(* Sequences one after the other are a sequence.                             *)
LEMMA FlattenType ==
  ASSUME NEW D, NEW n \in Nat, NEW seqs \in [1 .. n -> Seq(D)]
  PROVE  Captions!FlattenSeq(seqs) \in Seq(D)
<1> DEFINE FBy(f) == f = [i \in 1 .. n |-> IF i = 1 THEN seqs[i] ELSE f[i - 1] \o seqs[i]]
<1>0. seqs \in Seq(Seq(D)) /\ Len(seqs) = n
  OBVIOUS
<1>1. CASE n = 0
  <2>1. seqs = <<>>
    BY <1>1, <1>0
  <2> QED BY <2>1, <1>0, <1>1 DEF Captions!FlattenSeq
<1>2. CASE n # 0
  <2> DEFINE next == [i \in 1 .. n |-> [x \in Seq(D) |-> IF i = 1 THEN seqs[i] ELSE x \o seqs[i]]]
  <2>1. next \in [1 .. n -> [Seq(D) -> Seq(D)]]
    OBVIOUS
  <2>2. PICK g \in [0 .. n -> Seq(D)] :
          g[0] = <<>> /\ \A i \in 1 .. n : g[i] = next[i][g[i - 1]]
    <3> DEFINE E == Seq(D)
               none == <<>>
    <3>1. none \in E /\ next \in [1 .. n -> [E -> E]]
      BY <2>1
    <3> HIDE DEF next, E, none
    <3>2. PICK g : Loops(g, E, none, n, next)
      BY <3>1, LoopExists
    <3>3. g \in [0 .. n -> E] /\ g[0] = none /\ \A i \in 1 .. n : g[i] = next[i][g[i - 1]]
      BY <3>2 DEF Loops
    <3> QED BY <3>3 DEF E, none
  <2>3. \A i \in 1 .. n : g[i] = IF i = 1 THEN seqs[i] ELSE g[i - 1] \o seqs[i]
    <3> TAKE i \in 1 .. n
    <3>1. i - 1 \in 0 .. n
      OBVIOUS
    <3>2. g[i] = next[i][g[i - 1]] /\ g[i - 1] \in Seq(D)
      BY <2>2, <3>1
    <3>3. next[i] = [x \in Seq(D) |-> IF i = 1 THEN seqs[i] ELSE x \o seqs[i]]
      OBVIOUS
    <3> HIDE DEF next
    <3> QED BY <3>2, <3>3
  <2> DEFINE h == [i \in 1 .. n |-> g[i]]
  <2>4. FBy(h)
    <3>1. \A i \in 1 .. n : i # 1 => i - 1 \in 1 .. n
      OBVIOUS
    <3>2. \A i \in 1 .. n : h[i] = IF i = 1 THEN seqs[i] ELSE h[i - 1] \o seqs[i]
      BY <2>3, <3>1
    <3> QED BY <3>2
  <2> DEFINE F == CHOOSE f : FBy(f)
  <2>5. FBy(F)
    <3> HIDE DEF FBy, h
    <3> QED BY <2>4
  <2>6. Captions!FlattenSeq(seqs) = F[n]
    BY <1>0, <1>2 DEF Captions!FlattenSeq
  <2> DEFINE S == {i \in 0 .. n : i = 0 \/ F[i] \in Seq(D)}
  <2>7. 0 .. n \subseteq S
    <3>1. 0 \in S
      OBVIOUS
    <3>2. ASSUME NEW i \in 1 .. n, i - 1 \in S
          PROVE  i \in S
      <4>1. F[i] = IF i = 1 THEN seqs[i] ELSE F[i - 1] \o seqs[i]
        <5> HIDE DEF F
        <5> QED BY <2>5
      <4>2. i = 1 \/ F[i - 1] \in Seq(D)
        BY <3>2
      <4>3. seqs[i] \in Seq(D)
        OBVIOUS
      <4> HIDE DEF F
      <4>4. F[i] \in Seq(D)
        BY <4>1, <4>2, <4>3
      <4> QED BY <4>4
    <3> HIDE DEF S
    <3> QED BY <3>1, <3>2, Everywhere
  <2>8. n \in S
    <3> HIDE DEF S
    <3> QED BY <2>7
  <2> HIDE DEF F
  <2> QED BY <1>2, <2>6, <2>8
<1> QED BY <1>1, <1>2

-----------------------------------------------------------------------------
(* What ImscParser._parse_tt() makes of a document.                          *)
CuesOf(doc) == {doc[i].cue : i \in DOMAIN doc} \ {None}

AddCue(track, p) ==
  IF p.cue = None \/ Captions!Contains(track, p.cue) THEN track ELSE Append(track, p.cue)

(* The fold over the paragraphs, as the library defines it, on sets of       *)
(* indices.                                                                  *)
FoldBy(f, doc) ==
  f = [s \in SUBSET DOMAIN doc |->
         IF s = {} THEN Captions!ParsedDivs(doc)
         ELSE AddCue(f[s \ {Captions!Max(s)}], doc[Captions!Max(s)])]

LEMMA ParseIsFold ==
  ASSUME NEW doc
  PROVE  Captions!ParseTt(doc) = (CHOOSE f : FoldBy(f, doc))[DOMAIN doc]
BY DEF Captions!ParseTt, Captions!FoldLeft, Captions!MapThenFoldSet, FoldBy, AddCue

(* Such a fold exists, the greatest index last.                              *)
LEMMA FoldExists ==
  ASSUME NEW doc, NEW n \in Nat, DOMAIN doc = 1 .. n
  PROVE  \E f : FoldBy(f, doc)
<1> DEFINE Part(f, m) ==
      f = [s \in SUBSET (1 .. m) |->
             IF s = {} THEN Captions!ParsedDivs(doc)
             ELSE AddCue(f[s \ {Captions!Max(s)}], doc[Captions!Max(s)])]
    S == {m \in 0 .. n : \E f : Part(f, m)}
<1>1. 0 \in S
  <2>1. \A s \in SUBSET (1 .. 0) : s = {}
    OBVIOUS
  <2>2. Part([s \in SUBSET (1 .. 0) |-> Captions!ParsedDivs(doc)], 0)
    BY <2>1
  <2> HIDE DEF Part
  <2> QED BY <2>2
<1>2. ASSUME NEW m \in 1 .. n, m - 1 \in S
      PROVE  m \in S
  <2>1. PICK f : Part(f, m - 1)
    <3> HIDE DEF Part
    <3> QED BY <1>2
  <2> DEFINE g == [s \in SUBSET (1 .. m) |->
                     IF m \in s THEN AddCue(f[s \ {m}], doc[m]) ELSE f[s]]
  <2>2. ASSUME NEW s \in SUBSET (1 .. m), s # {}
        PROVE  g[s] = AddCue(g[s \ {Captions!Max(s)}], doc[Captions!Max(s)])
    <3>1. CASE m \in s
      <4>1. Captions!Max(s) = m
        <5>1. m \in Nat /\ s \subseteq 1 .. m
          OBVIOUS
        <5> QED BY <3>1, <5>1, GreatestIs
      <4>2. g[s] = AddCue(f[s \ {m}], doc[m]) /\ g[s \ {m}] = f[s \ {m}]
        BY <3>1
      <4> HIDE DEF g
      <4> QED BY <4>1, <4>2
    <3>2. CASE m \notin s
      <4>1. s \in SUBSET (1 .. m - 1)
        BY <3>2
      <4> DEFINE x == Captions!Max(s)
      <4>2. f[s] = AddCue(f[s \ {x}], doc[x])
        BY <2>1, <2>2, <4>1
      <4>3. g[s] = f[s] /\ g[s \ {x}] = f[s \ {x}]
        BY <3>2
      <4> HIDE DEF g, x, Part
      <4>4. g[s] = AddCue(g[s \ {x}], doc[x])
        BY <4>2, <4>3
      <4> QED BY <4>4 DEF x
    <3> QED BY <3>1, <3>2
  <2>3. g[{}] = Captions!ParsedDivs(doc)
    <3>1. {} \in SUBSET (1 .. m - 1) /\ {} \in SUBSET (1 .. m)
      OBVIOUS
    <3>2. f[{}] = Captions!ParsedDivs(doc)
      BY <2>1, <3>1
    <3> QED BY <3>1, <3>2
  <2>4. g = [s \in SUBSET (1 .. m) |-> g[s]]
    OBVIOUS
  <2> HIDE DEF g
  <2>5. \A s \in SUBSET (1 .. m) :
          g[s] = IF s = {} THEN Captions!ParsedDivs(doc)
                 ELSE AddCue(g[s \ {Captions!Max(s)}], doc[Captions!Max(s)])
    BY <2>2, <2>3
  <2>6. Part(g, m)
    BY <2>4, <2>5, Zenon
  <2> HIDE DEF Part
  <2> QED BY <2>6
<1> HIDE DEF S
<1>3. 0 .. n \subseteq S
  BY <1>1, <1>2, Everywhere
<1>4. n \in S
  BY <1>3
<1>5. PICK f : Part(f, n)
  <2> HIDE DEF Part
  <2> QED BY <1>4 DEF S
<1>6. FoldBy(f, doc)
  BY <1>5, Zenon DEF FoldBy
<1> QED BY <1>6

(* Adding a cue adds it and nothing else.                                    *)
LEMMA AddCueIs ==
  ASSUME NEW D, NEW track \in Seq(D), NEW p, p.cue = None \/ p.cue \in D
  PROVE  /\ AddCue(track, p) \in Seq(D)
         /\ \A c : c \in Captions!ToSet(AddCue(track, p)) <=>
                     c \in Captions!ToSet(track) \/ (c = p.cue /\ p.cue # None)
<1>1. CASE p.cue = None
  BY <1>1 DEF AddCue, Captions!ToSet
<1>2. CASE p.cue # None /\ Captions!Contains(track, p.cue)
  BY <1>2 DEF AddCue, Captions!ToSet, Captions!Contains
<1>3. CASE p.cue # None /\ ~ Captions!Contains(track, p.cue)
  <2>1. AddCue(track, p) = Append(track, p.cue)
    BY <1>3 DEF AddCue
  <2>2. DOMAIN track = 1 .. Len(track) /\ DOMAIN Append(track, p.cue) = 1 .. Len(track) + 1
    BY <1>3
  <2>3. \A i \in 1 .. Len(track) : Append(track, p.cue)[i] = track[i]
    BY <1>3
  <2>4. Append(track, p.cue)[Len(track) + 1] = p.cue
    BY <1>3
  <2>5. Append(track, p.cue) \in Seq(D)
    BY <1>3
  <2>6. \A c : c \in Captions!ToSet(Append(track, p.cue)) <=>
                 c \in Captions!ToSet(track) \/ c = p.cue
    BY <2>2, <2>3, <2>4 DEF Captions!ToSet
  <2> QED BY <1>3, <2>1, <2>5, <2>6
<1> QED BY <1>1, <1>2, <1>3

LEMMA ParsedDivsType ==
  ASSUME NEW doc \in Documents
  PROVE  Captions!ParsedDivs(doc) \in Seq(CuesOf(doc))
<1> DEFINE under(d) == Captions!FlattenSeq(Captions!Under(doc, d))
           n == Cardinality(Captions!Divs(doc))
<1>1. Len(doc) \in Nat /\ DOMAIN doc = 1 .. Len(doc)
  BY DocumentsAssumption
<1>2. n \in Nat
  <2>1. IsFiniteSet(Captions!Divs(doc))
    BY DocumentsAssumption DEF Captions!IsFiniteSet, IsFiniteSet
  <2> QED BY <2>1, FS_CardinalityType
<1>3. Captions!Cardinality(Captions!Divs(doc)) = n
  BY DEF Captions!Cardinality, Cardinality
<1>4. ASSUME NEW d
      PROVE  under(d) \in Seq(CuesOf(doc))
  <2>1. Captions!Under(doc, d) \in [1 .. Len(doc) -> Seq(CuesOf(doc))]
    <3>1. \A i \in 1 .. Len(doc) :
            /\ doc[i].cue # None => doc[i].cue \in CuesOf(doc)
            /\ doc[i].cue # None => <<doc[i].cue>> \in Seq(CuesOf(doc))
      BY <1>1 DEF CuesOf
    <3>2. <<>> \in Seq(CuesOf(doc))
      OBVIOUS
    <3> QED BY <1>1, <3>1, <3>2 DEF Captions!Under
  <2> QED BY <1>1, <2>1, FlattenType
<1>5. [d \in 1 .. n |-> under(d)] \in [1 .. n -> Seq(CuesOf(doc))]
  <2> HIDE DEF under, n
  <2> QED BY <1>4
<1>6. Captions!ParsedDivs(doc) = Captions!FlattenSeq([d \in 1 .. n |-> under(d)])
  BY <1>3 DEF Captions!ParsedDivs
<1> HIDE DEF under, n
<1> QED BY <1>2, <1>5, <1>6, FlattenType

(* Every cue of a document comes out of the parser, and nothing else does.   *)
LEMMA ParseKeepsCues ==
  ASSUME NEW doc \in Documents
  PROVE  /\ Captions!ParseTt(doc) \in Seq(CuesOf(doc))
         /\ Captions!ToSet(Captions!ParseTt(doc)) = CuesOf(doc)
<1> DEFINE D == CuesOf(doc)
           n == Len(doc)
           F == CHOOSE f : FoldBy(f, doc)
<1>1. n \in Nat /\ DOMAIN doc = 1 .. n
  BY DocumentsAssumption
<1>2. FoldBy(F, doc)
  <2> HIDE DEF n
  <2> QED BY <1>1, FoldExists
<1>3. Captions!ParseTt(doc) = F[1 .. n]
  BY <1>1, ParseIsFold
<1> HIDE DEF F, n
<1>4. F[1 .. 0] = Captions!ParsedDivs(doc)
  <2>1. 1 .. 0 = {} /\ {} \in SUBSET (1 .. n)
    OBVIOUS
  <2> QED BY <1>1, <1>2, <2>1 DEF FoldBy
<1>5. ASSUME NEW i \in 1 .. n
      PROVE  F[1 .. i] = AddCue(F[1 .. i - 1], doc[i])
  <2>1. i \in Nat /\ i \in 1 .. i /\ 1 .. i \subseteq 1 .. n
    BY <1>1
  <2>2. Captions!Max(1 .. i) = i
    BY <2>1, GreatestIs
  <2>3. (1 .. i) \ {i} = 1 .. i - 1
    BY <2>1
  <2>4. 1 .. i # {}
    BY <2>1
  <2>5. F[1 .. i] = AddCue(F[(1 .. i) \ {Captions!Max(1 .. i)}], doc[Captions!Max(1 .. i)])
    BY <1>1, <1>2, <2>1, <2>4 DEF FoldBy
  <2> QED BY <2>2, <2>3, <2>5
<1> DEFINE Has(track, i) ==
      /\ track \in Seq(D)
      /\ \A j \in 1 .. i : doc[j].cue = None \/ doc[j].cue \in Captions!ToSet(track)
    S == {i \in 0 .. n : Has(F[1 .. i], i)}
<1>6. 0 \in S
  BY <1>1, <1>4, ParsedDivsType
<1>7. ASSUME NEW i \in 1 .. n, i - 1 \in S
      PROVE  i \in S
  <2>1. doc[i].cue = None \/ doc[i].cue \in D
    BY <1>1 DEF CuesOf
  <2>2. Has(F[1 .. i - 1], i - 1)
    BY <1>7
  <2> DEFINE before == F[1 .. i - 1]
             after == F[1 .. i]
  <2>3. after = AddCue(before, doc[i])
    BY <1>5
  <2> HIDE DEF before, after, D
  <2>4. /\ AddCue(before, doc[i]) \in Seq(D)
        /\ \A c : c \in Captions!ToSet(AddCue(before, doc[i])) <=>
                    c \in Captions!ToSet(before) \/ (c = doc[i].cue /\ doc[i].cue # None)
    <3>1. before \in Seq(D)
      BY <2>2 DEF before
    <3> QED BY <2>1, <3>1, AddCueIs
  <2>5. ASSUME NEW j \in 1 .. i
        PROVE  doc[j].cue = None \/ doc[j].cue \in Captions!ToSet(after)
    <3>1. j = i \/ j \in 1 .. i - 1
      BY <1>1
    <3> QED BY <2>2, <2>3, <2>4, <3>1 DEF before
  <2>6. Has(after, i)
    BY <2>3, <2>4, <2>5
  <2>7. i \in 0 .. n
    BY <1>1
  <2> QED BY <2>6, <2>7 DEF after
<1> HIDE DEF S
<1>8. 0 .. n \subseteq S
  BY <1>1, <1>6, <1>7, Everywhere
<1>9. n \in S
  BY <1>1, <1>8
<1>10. Has(F[1 .. n], n)
  BY <1>9 DEF S
<1>11. CuesOf(doc) \subseteq Captions!ToSet(F[1 .. n])
  BY <1>1, <1>10 DEF CuesOf
<1>12. \A track \in Seq(D) : Captions!ToSet(track) \subseteq D
  <2> HIDE DEF D
  <2> QED BY DEF Captions!ToSet
<1> QED BY <1>3, <1>10, <1>11, <1>12

-----------------------------------------------------------------------------
(* apps/cc_extract.py: what is shown and what is left of the document in     *)
(* hand are the cues received until Ctrl+C; the file is at most one cue      *)
(* behind, and only once it is closed does it stay behind.                   *)
CuesReceived == UNION {CuesOf(received[d]) : d \in DOMAIN received}

AnyCue == UNION {CuesOf(doc) : doc \in Documents}

Behind(file1, console) == \E x \in AnyCue : console = Append(file1, x)

CaptionOrder ==
  /\ worker \in {"waiting", "display", "write", "over"}
  /\ running => open
  /\ worker \in {"waiting", "over"} => cues = <<>>
  /\ worker \in {"display", "write"} => cues # <<>>
  /\ worker = "display" => written = shown
  /\ worker = "write" => shown = Append(written, Head(cues))
  /\ worker \in {"waiting", "over"} =>
       written = shown \/ (~ running /\ Behind(written, shown))

CaptionInv ==
  /\ received \in Seq(Documents)
  /\ cues \in Seq(AnyCue) /\ shown \in Seq(AnyCue) /\ written \in Seq(AnyCue)
  /\ unit # "captions" => received = <<>> /\ cues = <<>> /\ shown = <<>> /\ written = <<>>
  /\ unit = "captions" =>
       /\ CaptionOrder
       /\ running => CuesReceived = Captions!ToSet(shown) \cup Captions!ToSet(cues)

LEMMA InitCaptionInv == Captions!Init => CaptionInv
<1> SUFFICES ASSUME Captions!Init PROVE CaptionInv
  OBVIOUS
<1>1. received = <<>> /\ cues = <<>> /\ shown = <<>> /\ written = <<>> /\ worker = "waiting" /\ open
  BY DEF Captions!Init, Captions!ShellInit
<1>2. CuesReceived = {} /\ Captions!ToSet(<<>>) = {}
  BY <1>1 DEF CuesReceived, Captions!ToSet
<1>3. \A S : <<>> \in Seq(S)
  OBVIOUS
<1>4. CaptionOrder
  BY <1>1 DEF CaptionOrder
<1> QED BY <1>1, <1>2, <1>3, <1>4 DEF CaptionInv

(* The last of a sequence is in it, and so is the first. *)
LEMMA SetOfAppend ==
  ASSUME NEW S, NEW s \in Seq(S), NEW x \in S
  PROVE  Captions!ToSet(Append(s, x)) = Captions!ToSet(s) \cup {x}
<1>1. DOMAIN s = 1 .. Len(s) /\ DOMAIN Append(s, x) = 1 .. Len(s) + 1
  OBVIOUS
<1>2. \A i \in 1 .. Len(s) : Append(s, x)[i] = s[i]
  OBVIOUS
<1>3. Append(s, x)[Len(s) + 1] = x
  OBVIOUS
<1>4. \A c : c \in Captions!ToSet(Append(s, x)) <=> c \in Captions!ToSet(s) \cup {x}
  BY <1>1, <1>2, <1>3 DEF Captions!ToSet
<1> QED BY <1>4

LEMMA SetOfTail ==
  ASSUME NEW S, NEW s \in Seq(S), s # <<>>
  PROVE  Captions!ToSet(s) = {Head(s)} \cup Captions!ToSet(Tail(s))
<1>1. Tail(s) \in Seq(S) /\ Head(s) = s[1] /\ Len(Tail(s)) = Len(s) - 1 /\ Len(s) >= 1
  OBVIOUS
<1>2. DOMAIN s = 1 .. Len(s) /\ DOMAIN Tail(s) = 1 .. Len(s) - 1
  BY <1>1
<1>3. \A i \in 1 .. Len(s) - 1 : Tail(s)[i] = s[i + 1]
  BY <1>1
<1>4. \A i \in 1 .. Len(s) : i # 1 => i - 1 \in 1 .. Len(s) - 1 /\ s[i] = Tail(s)[i - 1]
  BY <1>1, <1>3
<1>5. 1 \in 1 .. Len(s) /\ \A i \in 1 .. Len(s) - 1 : i + 1 \in 1 .. Len(s)
  BY <1>1
<1> DEFINE rest == Tail(s)
           n == Len(s)
<1> HIDE DEF rest, n
<1>6. \A c : c \in Captions!ToSet(s) <=> \E i \in 1 .. n : c = s[i]
  BY <1>2 DEF Captions!ToSet, n
<1>7. \A c : c \in Captions!ToSet(rest) <=> \E i \in 1 .. n - 1 : c = s[i + 1]
  BY <1>2, <1>3 DEF Captions!ToSet, rest, n
<1>8. n \in Nat /\ n >= 1 /\ Head(s) = s[1]
  BY <1>1 DEF n
<1>9. \A i \in 1 .. n : i # 1 => i - 1 \in 1 .. n - 1 /\ (i - 1) + 1 = i
  BY <1>8
<1>10. 1 \in 1 .. n /\ \A i \in 1 .. n - 1 : i + 1 \in 1 .. n
  BY <1>5 DEF n
<1>11. ASSUME NEW c \in Captions!ToSet(s)
       PROVE  c \in {Head(s)} \cup Captions!ToSet(rest)
  <2>1. PICK i \in 1 .. n : c = s[i]
    BY <1>6, <1>11
  <2>2. CASE i = 1
    BY <1>8, <2>1, <2>2
  <2>3. CASE i # 1
    BY <1>7, <1>9, <2>1, <2>3
  <2> QED BY <2>2, <2>3
<1>12. ASSUME NEW c \in {Head(s)} \cup Captions!ToSet(rest)
       PROVE  c \in Captions!ToSet(s)
  BY <1>6, <1>7, <1>8, <1>10, <1>12
<1> QED BY <1>11, <1>12 DEF rest

LEMMA CaptionStep ==
  ASSUME CaptionInv, unit = "captions", unit' = unit, Captions!Next
  PROVE  CaptionInv'
<1>1. /\ received \in Seq(Documents)
      /\ cues \in Seq(AnyCue) /\ shown \in Seq(AnyCue) /\ written \in Seq(AnyCue)
      /\ CaptionOrder
      /\ running => CuesReceived = Captions!ToSet(shown) \cup Captions!ToSet(cues)
  BY DEF CaptionInv
<1>2. ASSUME NEW doc \in Documents,
             Captions!CanReceive, running, received' = Append(received, doc),
             cues' = Captions!ParseTt(doc),
             worker' = IF cues' = <<>> THEN "waiting" ELSE "display",
             UNCHANGED <<main, running, listening, interrupted, shown, written, open>>
      PROVE  CaptionInv'
  <2>1. cues' \in Seq(CuesOf(doc)) /\ Captions!ToSet(cues') = CuesOf(doc)
    BY <1>2, ParseKeepsCues
  <2>2. CuesOf(doc) \subseteq AnyCue
    BY DEF AnyCue
  <2>3. cues' \in Seq(AnyCue)
    BY <2>1, <2>2
  <2>4. worker = "waiting" /\ cues = <<>> /\ written = shown
    BY <1>1, <1>2 DEF Captions!CanReceive, CaptionOrder
  <2>5. Captions!ToSet(cues) = {}
    BY <2>4 DEF Captions!ToSet
  <2>6. CuesReceived' = CuesReceived \cup CuesOf(doc)
    <3>1. DOMAIN received = 1 .. Len(received) /\ DOMAIN received' = 1 .. Len(received) + 1
      BY <1>1, <1>2
    <3>2. \A d \in 1 .. Len(received) : received'[d] = received[d]
      BY <1>1, <1>2
    <3>3. received'[Len(received) + 1] = doc /\ Len(received) \in Nat
      BY <1>1, <1>2
    <3>4. \A c : c \in CuesReceived' <=> c \in CuesReceived \cup CuesOf(doc)
      BY <3>1, <3>2, <3>3 DEF CuesReceived, CuesOf
    <3> QED BY <3>4
  <2>7. CaptionOrder'
    BY <1>1, <1>2, <2>4 DEF CaptionOrder
  <2>8. CuesReceived' = Captions!ToSet(shown') \cup Captions!ToSet(cues')
    BY <1>1, <1>2, <2>1, <2>5, <2>6
  <2> QED BY <1>1, <1>2, <2>3, <2>7, <2>8 DEF CaptionInv
<1>3. CASE Captions!Receive
  BY <1>2, <1>3 DEF Captions!Receive
<1>4. CASE Captions!Display
  <2>1. /\ worker = "display" /\ cues # <<>> /\ written = shown
        /\ shown' = Append(shown, Head(cues)) /\ worker' = "write"
        /\ UNCHANGED <<running, received, cues, written, open>>
    BY <1>1, <1>4 DEF Captions!Display, CaptionOrder
  <2>2. Head(cues) \in AnyCue
    BY <1>1, <2>1
  <2>3. shown' \in Seq(AnyCue)
    BY <1>1, <2>1, <2>2
  <2>4. CaptionOrder'
    BY <1>1, <2>1 DEF CaptionOrder
  <2>5. running' => CuesReceived' = Captions!ToSet(shown') \cup Captions!ToSet(cues')
    <3>1. Captions!ToSet(shown') = Captions!ToSet(shown) \cup {Head(cues)}
      BY <1>1, <2>1, <2>2, SetOfAppend
    <3>2. Captions!ToSet(cues) = {Head(cues)} \cup Captions!ToSet(Tail(cues))
      BY <1>1, <2>1, SetOfTail
    <3>3. CuesReceived' = CuesReceived
      BY <2>1 DEF CuesReceived
    <3> QED BY <1>1, <2>1, <3>1, <3>2, <3>3
  <2> QED BY <1>1, <2>1, <2>3, <2>4, <2>5 DEF CaptionInv
<1>5. CASE Captions!Write
  <2>1. /\ worker = "write" /\ cues # <<>> /\ shown = Append(written, Head(cues))
        /\ written' = Append(written, Head(cues)) /\ cues' = Tail(cues)
        /\ worker' = IF Len(cues) = 1 THEN "waiting" ELSE "display"
        /\ UNCHANGED <<running, received, shown, open>>
    BY <1>1, <1>5 DEF Captions!Write, CaptionOrder
  <2>2. Head(cues) \in AnyCue /\ Tail(cues) \in Seq(AnyCue)
        /\ (Len(cues) = 1 <=> Tail(cues) = <<>>)
    <3>1. cues \in Seq(AnyCue) /\ cues # <<>>
      BY <1>1, <2>1
    <3>2. Len(cues) \in Nat /\ Len(cues) >= 1 /\ Tail(cues) \in Seq(AnyCue)
          /\ Len(Tail(cues)) = Len(cues) - 1 /\ Head(cues) \in AnyCue
      BY <3>1
    <3>3. \A q \in Seq(AnyCue) : q = <<>> <=> Len(q) = 0
      OBVIOUS
    <3> QED BY <3>2, <3>3
  <2>3. written' = shown' /\ written' \in Seq(AnyCue)
    BY <1>1, <2>1
  <2>4. CaptionOrder'
    BY <1>1, <2>1, <2>2, <2>3 DEF CaptionOrder
  <2>5. running' => CuesReceived' = Captions!ToSet(shown') \cup Captions!ToSet(cues')
    <3>1. Captions!ToSet(shown) = Captions!ToSet(written) \cup {Head(cues)}
      BY <1>1, <2>1, <2>2, SetOfAppend
    <3>2. Captions!ToSet(cues) = {Head(cues)} \cup Captions!ToSet(Tail(cues))
      BY <1>1, <2>1, SetOfTail
    <3>3. CuesReceived' = CuesReceived
      BY <2>1 DEF CuesReceived
    <3> QED BY <1>1, <2>1, <3>1, <3>2, <3>3
  <2> QED BY <1>1, <2>1, <2>2, <2>3, <2>4, <2>5 DEF CaptionInv
<1>6. CASE Captions!WriteFails
  <2>1. /\ worker = "write" /\ ~ open /\ cues # <<>> /\ shown = Append(written, Head(cues))
        /\ cues' = <<>> /\ worker' = "waiting"
        /\ UNCHANGED <<running, received, shown, written, open>>
    BY <1>1, <1>6 DEF Captions!WriteFails, CaptionOrder
  <2>2. ~ running /\ Head(cues) \in AnyCue
    BY <1>1, <2>1 DEF CaptionOrder
  <2>3. Behind(written', shown')
    BY <2>1, <2>2 DEF Behind
  <2>4. CaptionOrder'
    BY <1>1, <2>1, <2>2, <2>3 DEF CaptionOrder
  <2>5. cues' \in Seq(AnyCue)
    BY <2>1
  <2> QED BY <1>1, <2>1, <2>2, <2>4, <2>5 DEF CaptionInv
<1>7. CASE Captions!Stop
  <2>1. ~ running' /\ worker' = worker /\ UNCHANGED <<received, cues, shown, written>>
    BY <1>7 DEF Captions!Stop, Captions!Interrupt, Captions!StopProcessing
  <2>2. CaptionOrder'
    BY <1>1, <2>1 DEF CaptionOrder, Behind
  <2> QED BY <1>1, <2>1, <2>2 DEF CaptionInv
<1>8. CASE Captions!Ending /\ UNCHANGED captions
  <2>1. /\ UNCHANGED <<running, received, cues, shown, written, open>>
        /\ worker' = worker \/ (worker = "waiting" /\ worker' = "over")
    BY <1>8 DEF Captions!Ending, Captions!StopListening, Captions!Leave,
                Captions!WorkerEnds, captions
  <2>2. CaptionOrder'
    BY <1>1, <2>1 DEF CaptionOrder, Behind
  <2>3. CuesReceived' = CuesReceived
    BY <2>1 DEF CuesReceived
  <2> QED BY <1>1, <2>1, <2>2, <2>3 DEF CaptionInv
<1> QED BY <1>3, <1>4, <1>5, <1>6, <1>7, <1>8
        DEF Captions!Next, Captions!extractor, captions

(* What the invariant says of the file and of the console.                   *)
LEMMA CaptionInvKeeps == CaptionInv => CaptionsKept
<1> SUFFICES ASSUME CaptionInv PROVE CaptionsKept
  OBVIOUS
<1>1. \A s \in Seq(AnyCue), x \in AnyCue :
        Captions!IsPrefix(s, Append(s, x)) /\ Len(Append(s, x)) - Len(s) <= 1
  BY DEF Captions!IsPrefix
<1>2. /\ shown \in Seq(AnyCue) /\ written \in Seq(AnyCue) /\ cues \in Seq(AnyCue)
      /\ unit # "captions" => received = <<>> /\ shown = <<>> /\ written = <<>>
      /\ unit = "captions" =>
           /\ CaptionOrder
           /\ running => CuesReceived = Captions!ToSet(shown) \cup Captions!ToSet(cues)
  BY DEF CaptionInv
<1>3. written = shown \/ \E x \in AnyCue : shown = Append(written, x)
  <2>1. CASE unit # "captions"
    BY <1>2, <2>1
  <2>2. CASE unit = "captions"
    <3>1. worker = "write" => Head(cues) \in AnyCue
      BY <1>2, <2>2 DEF CaptionOrder
    <3> QED BY <1>2, <2>2, <3>1 DEF CaptionOrder, Behind
  <2> QED BY <2>1, <2>2
<1>4. Captions!FileFollowsConsole
  <2>1. CASE written = shown
    BY <1>2, <2>1 DEF Captions!FileFollowsConsole, Captions!IsPrefix
  <2>2. ASSUME NEW x \in AnyCue, shown = Append(written, x)
        PROVE  Captions!FileFollowsConsole
    BY <1>1, <1>2, <2>2, Zenon DEF Captions!FileFollowsConsole
  <2> QED BY <1>3, <2>1, <2>2
<1>5. CuesReceived =
        (UNION {{received[d][i].cue : i \in DOMAIN received[d]} : d \in DOMAIN received}) \ {None}
  <2> DEFINE all == UNION {{received[d][i].cue : i \in DOMAIN received[d]} : d \in DOMAIN received}
  <2>1. \A c : c \in CuesReceived <=> c \in all \ {None}
    BY DEF CuesReceived, CuesOf
  <2> DEFINE cuesOnly == all \ {None}
  <2>2. \A c : c \in CuesReceived <=> c \in cuesOnly
    BY <2>1
  <2> HIDE DEF all, cuesOnly
  <2>3. CuesReceived = cuesOnly
    BY <2>2, Zenon
  <2> QED BY <2>3 DEF all, cuesOnly
<1>6. Captions!EveryCueShown
  <2>1. CASE unit # "captions"
    <3>1. Captions!ToSet(shown) = {} /\ CuesReceived = {}
      BY <1>2, <2>1 DEF Captions!ToSet, CuesReceived
    <3> QED BY <1>5, <3>1 DEF Captions!EveryCueShown
  <2>2. CASE unit = "captions"
    <3>1. worker = "waiting" => Captions!ToSet(cues) = {}
      BY <1>2, <2>2 DEF Captions!ToSet, CaptionOrder
    <3> QED BY <1>2, <1>5, <2>2, <3>1 DEF Captions!EveryCueShown
  <2> QED BY <2>1, <2>2
<1> QED BY <1>4, <1>6 DEF CaptionsKept

(* apps/cc_extract.py: whatever documents come and wherever Ctrl+C falls,    *)
(* every cue is shown that came before it, and the file follows the console  *)
(* but for the one cue on whose way it was closed.                           *)
THEOREM CaptionsAreKept == MCSpec => []CaptionsKept
<1>1. MCInit => CaptionInv
  BY InitCaptionInv DEF MCInit, ProgramsInit
<1>2. CaptionInv /\ [MCNext]_everything => CaptionInv'
  <2> SUFFICES ASSUME CaptionInv, [MCNext]_everything
               PROVE  CaptionInv'
    OBVIOUS
  <2>1. unit' = unit
    BY StepOfUnit
  <2>2. CASE UNCHANGED captions /\ unit # "captions"
    BY <2>1, <2>2 DEF captions, CaptionInv
  <2>3. CASE UNCHANGED captions /\ unit = "captions" /\ UNCHANGED shell
    BY <2>1, <2>3 DEF captions, shell, CaptionInv, CaptionOrder, Behind, CuesReceived
  <2>4. CASE unit = "captions" /\ Captions!Next
    BY <2>1, <2>4, CaptionStep
  <2>5. unit = "captions" => Captions!Next \/ UNCHANGED <<captions, shell>>
    BY DEF MCNext, FileUnit, UhdUnit, AgcUnit, RingUnit, DecoderUnit, PlayerUnit,
           AlertsUnit, RecorderUnit, CaptionsUnit, DashboardUnit, ScannerUnit, CaptureUnit,
           everything, programs
  <2> QED BY <2>2, <2>3, <2>4, <2>5, StepOfUnit
<1>3. CaptionInv => CaptionsKept
  BY CaptionInvKeeps
<1>4. QED
  BY <1>1, <1>2, <1>3, PTL DEF MCSpec
===============================================================================
