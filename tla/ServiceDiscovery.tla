-------------------------- MODULE ServiceDiscovery --------------------------
(* From a service list table to the service guide: RouteParser::parse_slt   *)
(* (lib/framing/route_parser.cc) fills the catalog, route_parser_impl       *)
(* publishes the catalog after every change, and service_guide_impl shows   *)
(* what it was sent last.  The parser block runs in its thread, the guide   *)
(* in its own, and reset() comes from the application's thread with nothing *)
(* to keep it out of an update_service() under way, so both are taken apart *)
(* into the steps between which the other one can see the catalog.          *)
EXTENDS ServiceCatalog, Sequences

CONSTANTS
  Absent,        \* an attribute that is not there
  Tables,        \* the Service elements of the SLTs that are broadcast
  MaxInbox       \* bound: catalog messages on their way to the guide

VARIABLES
  slt,           \* current_slt_.services
  pc,            \* where update_service() stands, "idle" between tables
  pending,       \* services of the table the loop has yet to enter
  slot, isNew,   \* locals of update_service()
  number,        \* what ++num_services_ loaded
  clearing,      \* where reset() stands
  inbox,         \* catalog messages, oldest first
  guide,         \* services_ of the guide
  overlap,       \* history: "yes" when a reset() and a table have got in each
                 \* other's way, until a reset() all by itself "mends" that
  removed        \* history: remove_service took a service since the last table

tableVars == <<slt, pc, pending, slot, isNew, number>>
discoveryVars == <<catalogVars, tableVars, clearing, inbox, guide, overlap, removed>>

DiscoveryInit ==
  /\ CatalogInit
  /\ slt = <<>> /\ pc = "idle" /\ pending = <<>>
  /\ slot = 0 /\ isNew = FALSE /\ number = 0
  /\ clearing = "no"
  /\ inbox = <<>> /\ guide = <<>>
  /\ overlap = "no" /\ removed = FALSE

-----------------------------------------------------------------------------
(* parse_slt.  An attribute an element does not have is Absent, and          *)
(* get_xml_attr, which knows no end of a tag, then finds that of a later    *)
(* element.                                                                 *)

Attr(table, k, field) ==
  LET having == {j \in k .. Len(table) : table[j][field] # Absent} IN
  IF having = {} THEN Absent ELSE table[First(having)][field]

ParsedService(table, k) ==
  [id |-> Attr(table, k, "id"), details |-> Attr(table, k, "details")]

(* An element that has no serviceId even so is passed over. *)
Parsed(table) ==
  SelectSeq([k \in DOMAIN table |-> ParsedService(table, k)],
            LAMBDA s : s.id # Absent)

(* The tables speak of the ids and details that a service can have; details   *)
(* that no element has are Absent, an id is not.                              *)
ASSUME TablesAssumption == \A table \in Tables : Parsed(table) \in Seq(Service)

ParseSlt ==
  \E table \in Tables :
    /\ pc = "idle"
    /\ count <= MaxServices   \* bound: a count gone wrong waits for reset()
    /\ slt' = Parsed(table)
    /\ pending' = Parsed(table)
    /\ pc' = IF pending' = <<>> THEN "idle" ELSE "find"
    /\ overlap' = IF clearing = "no" THEN overlap ELSE "yes"
    /\ removed' = FALSE
    /\ UNCHANGED <<catalogVars, slot, isNew, number, clearing, inbox, guide>>

-----------------------------------------------------------------------------
(* update_service for the first pending service *)

AfterThis == IF Len(pending) = 1 THEN "idle" ELSE "find"

FindSlot ==
  /\ pc = "find"
  /\ Accepts(Head(pending))
  /\ slot' = First(EntriesFor(Head(pending).id))
  /\ pc' = "test"
  /\ UNCHANGED <<catalogVars, slt, pending, isNew, number,
                 clearing, inbox, guide, overlap, removed>>

(* Mutant: a refused service ends the loop over the table. *)
PassOverAll ==
  /\ pc = "find"
  /\ ~ Accepts(Head(pending))
  /\ pending' = <<>> /\ pc' = "idle"
  /\ UNCHANGED <<catalogVars, slt, slot, isNew, number,
                 clearing, inbox, guide, overlap, removed>>

PassOver ==
  /\ pc = "find"
  /\ ~ Accepts(Head(pending))
  /\ pending' = Tail(pending) /\ pc' = AfterThis
  /\ UNCHANGED <<catalogVars, slt, slot, isNew, number,
                 clearing, inbox, guide, overlap, removed>>

TestSlot ==
  /\ pc = "test"
  /\ isNew' = (slot \notin Used)
  /\ pc' = "copy"
  /\ UNCHANGED <<catalogVars, slt, pending, slot, number,
                 clearing, inbox, guide, overlap, removed>>

(* Mutant: the callback is called for new services only. *)
CopyQuietly ==
  /\ pc = "copy"
  /\ services' = [services EXCEPT ![slot] = Head(pending)]
  /\ number' = count
  /\ IF isNew
     THEN pc' = "count" /\ UNCHANGED pending
     ELSE pc' = AfterThis /\ pending' = Tail(pending)
  /\ UNCHANGED <<count, slt, slot, isNew, clearing, inbox, guide, overlap, removed>>

CopyService ==
  /\ pc = "copy"
  /\ services' = [services EXCEPT ![slot] = Head(pending)]
  /\ number' = count
  /\ pc' = IF isNew THEN "count" ELSE "notify"
  /\ UNCHANGED <<count, slt, pending, slot, isNew, clearing, inbox, guide, overlap, removed>>

CountService ==
  /\ pc = "count"
  /\ count' = number + 1
  /\ pc' = "notify"
  /\ UNCHANGED <<services, slt, pending, slot, isNew, number,
                 clearing, inbox, guide, overlap, removed>>

(* build_catalog_pmt: an entry that is not valid is left out by the guide. *)
ListingOf(entries, number_of) ==
  SelectSeq([i \in Entries \cap 1 .. number_of |-> entries[i]], LAMBDA s : s.id # 0)

Listing == ListingOf(services, count)

Notify ==
  /\ pc = "notify"
  /\ Len(inbox) < MaxInbox
  /\ inbox' = Append(inbox, Listing)
  /\ pending' = Tail(pending) /\ pc' = AfterThis
  /\ slot' = 0 /\ isNew' = FALSE /\ number' = 0
  /\ UNCHANGED <<catalogVars, slt, clearing, guide, overlap, removed>>

UpdateStep == FindSlot \/ PassOver \/ TestSlot \/ CopyService \/ CountService \/ Notify
-----------------------------------------------------------------------------
(* remove_service, which no block calls yet, on the parser's own thread *)

RemoveAndNotify ==
  \E id \in Ids :
    /\ pc = "idle" /\ clearing = "no"
    /\ count <= MaxServices
    /\ Len(inbox) < MaxInbox
    /\ RemoveService(id)
    /\ inbox' = Append(inbox, Listing')
    /\ removed' = TRUE
    /\ UNCHANGED <<slt, pc, pending, slot, isNew, number, clearing, guide, overlap>>

(* route_parser_impl::reset(): the parser, the entries, their number; no    *)
(* message.                                                                 *)

ResetParser ==
  /\ clearing = "no"
  /\ clearing' = "entries"
  /\ slt' = <<>>
  /\ overlap' = CASE pc # "idle" -> "yes"
                  [] pc = "idle" /\ overlap = "yes" -> "mends"
                  [] OTHER -> overlap
  /\ UNCHANGED <<catalogVars, pc, pending, slot, isNew, number, inbox, guide, removed>>

ClearEntries ==
  /\ clearing = "entries"
  /\ clearing' = "number"
  /\ services' = [i \in Entries |-> Empty]
  /\ overlap' = IF pc = "idle" THEN overlap ELSE "yes"
  /\ UNCHANGED <<count, tableVars, inbox, guide, removed>>

ClearNumber ==
  /\ clearing = "number"
  /\ clearing' = "no"
  /\ count' = 0
  /\ overlap' = CASE pc # "idle" -> "yes"
                  [] pc = "idle" /\ overlap = "mends" -> "no"
                  [] OTHER -> overlap
  /\ UNCHANGED <<services, tableVars, inbox, guide, removed>>

ResetStep == ResetParser \/ ClearEntries \/ ClearNumber

(* handle_catalog, under services_mutex_ *)
HandleCatalog ==
  /\ inbox # <<>>
  /\ guide' = Head(inbox)
  /\ inbox' = Tail(inbox)
  /\ UNCHANGED <<catalogVars, tableVars, clearing, overlap, removed>>

DiscoveryNext == ParseSlt \/ UpdateStep \/ RemoveAndNotify \/ ResetStep \/ HandleCatalog

DiscoverySpec == DiscoveryInit /\ [][DiscoveryNext]_discoveryVars

-----------------------------------------------------------------------------
Quiet == pc = "idle" /\ clearing = "no" /\ overlap = "no"

(* Between two tables the catalog is compact again, after any sequence of   *)
(* updates, removals and resets, unless a reset() fell into a table.        *)
CompactWhenQuiet == Quiet => Compact

(* Every service of the last table is in the catalog as the table has it    *)
(* (its last entry for that id), unless the catalog is full.                *)
TableListed ==
  Quiet /\ ~ removed =>
    \A k \in DOMAIN slt :
      \/ slt[k].id = 0
      \/ \E j \in k + 1 .. Len(slt) : slt[j].id = slt[k].id
      \/ \E i \in Used : services[i] = slt[k]
      \/ count = MaxServices

(* The guide shows the catalog once it has taken its messages ("Displays    *)
(* service catalog contents parsed from ROUTE signaling"), but not that a   *)
(* reset() has emptied it.                                                  *)
GuideInStep == Quiet /\ inbox = <<>> => guide = Listing \/ count = 0

(* Only remove_service and reset() take a service out of the catalog: a new *)
(* table never does, neither by leaving a service out nor by filling up.    *)
ServicesKept ==
  [][\A id \in Ids : EntriesOf(id) # {} /\ EntriesOf(id)' = {}
       => RemoveAndNotify \/ ResetStep \/ overlap # "no"]_discoveryVars

(* The number of services, when an update counts as made once the entry is  *)
(* filled and a clear() once the entries are empty.                         *)
CountInEffect ==
  IF clearing = "number" THEN 0 ELSE IF pc = "count" THEN number + 1 ELSE count

Atomic == INSTANCE ServiceCatalog WITH count <- CountInEffect

(* As long as no reset() falls into a table, whatever the two threads do to *)
(* the catalog bit by bit is one of its operations as a whole.              *)
StepsAreOperations ==
  [][overlap = "no" /\ overlap' = "no" =>
       [Atomic!CatalogNext]_<<services, CountInEffect>>]_discoveryVars
=============================================================================
