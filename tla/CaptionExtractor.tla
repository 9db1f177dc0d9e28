---------------------------- MODULE CaptionExtractor ----------------------------
(* apps/cc_extract.py: caption documents, shown on the console and written to *)
(* a file that Ctrl+C closes under the receiving thread.                      *)
EXTENDS ReceiverProgram, SequencesExt

CONSTANTS
  Documents,     \* a sequence of paragraphs: its cue (None: no time or no text)
                 \* and the div elements around it
  None,
  MaxDocuments   \* bound

VARIABLES
  received,      \* history: the documents that came while running
  cues,          \* the cues of the document in hand that are left
  shown,         \* on the console
  written,       \* in the file
  open           \* the file is open

extractor == <<received, cues, shown, written, open>>
vars == <<shell, extractor>>

(* ImscParser._parse_tt(): every div with all the paragraphs below it, so one *)
(* in nested divs comes once for each; then those of no div.                  *)
Divs(doc) == UNION {doc[i].divs : i \in DOMAIN doc}

Under(doc, div) ==
  [i \in DOMAIN doc |-> IF div \in doc[i].divs /\ doc[i].cue # None
                        THEN <<doc[i].cue>> ELSE <<>>]

ParsedDivs(doc) ==
  FlattenSeq([d \in 1 .. Cardinality(Divs(doc)) |-> FlattenSeq(Under(doc, d))])

ParseTt(doc) ==
  FoldLeft(LAMBDA track, p : IF p.cue = None \/ Contains(track, p.cue)
                             THEN track ELSE Append(track, p.cue),
           ParsedDivs(doc), doc)

(* process_imsc(): nothing is done once stop() was called or for another      *)
(* service; a document that is no XML counts as an error.                     *)
Receive ==
  \E doc \in Documents :
    /\ CanReceive /\ running /\ Len(received) < MaxDocuments
    /\ received' = Append(received, doc)
    /\ cues' = ParseTt(doc)
    /\ worker' = IF cues' = <<>> THEN "waiting" ELSE "display"
    /\ UNCHANGED <<main, running, listening, interrupted, shown, written, open>>

Display ==
  /\ main # "ended" /\ worker = "display"
  /\ shown' = Append(shown, Head(cues))
  /\ worker' = "write"
  /\ UNCHANGED <<main, running, listening, interrupted, received, cues, written, open>>

Write ==
  /\ main # "ended" /\ worker = "write" /\ open
  /\ written' = Append(written, Head(cues))
  /\ cues' = Tail(cues)
  /\ worker' = IF Len(cues) = 1 THEN "waiting" ELSE "display"
  /\ UNCHANGED <<main, running, listening, interrupted, received, shown, open>>

(* Mutant: a closed file is passed over cue by cue. *)
WriteFailsQuietly ==
  /\ main # "ended" /\ worker = "write" /\ ~ open
  /\ cues' = Tail(cues)
  /\ worker' = IF Len(cues) = 1 THEN "waiting" ELSE "display"
  /\ UNCHANGED <<main, running, listening, interrupted, received, shown, written, open>>

(* Writing to a closed file raises, which ends process_imsc(). *)
WriteFails ==
  /\ main # "ended" /\ worker = "write" /\ ~ open
  /\ cues' = <<>> /\ worker' = "waiting"
  /\ UNCHANGED <<main, running, listening, interrupted, received, shown, written, open>>

(* CaptionExtractor.stop(), from the signal handler or at the end of main() *)
Stop ==
  /\ Interrupt \/ StopProcessing
  /\ open' = FALSE
  /\ UNCHANGED <<received, cues, shown, written>>

Init ==
  /\ ShellInit
  /\ received = <<>> /\ cues = <<>> /\ shown = <<>> /\ written = <<>> /\ open = TRUE

Next ==
  \/ Receive \/ Display \/ Write \/ WriteFails \/ Stop
  \/ Ending /\ UNCHANGED extractor

(* Wherever Ctrl+C falls, the file holds what was shown, in its order, but    *)
(* for the one cue on whose way the file was closed.                          *)
FileFollowsConsole ==
  IsPrefix(written, shown) /\ Len(shown) - Len(written) <= 1

(* No caption of a document is passed over, whatever divs are around it:     *)
(* until Ctrl+C, what is shown are the cues of the documents received.        *)
EveryCueShown ==
  worker = "waiting" /\ running =>
    ToSet(shown) =
      (UNION {{received[d][i].cue : i \in DOMAIN received[d]} : d \in DOMAIN received}) \ {None}
===============================================================================
