--------------------------- MODULE ServiceCatalog ---------------------------
(* lib/framing/service_catalog.cc: an array of MAX_SERVICES services and    *)
(* the number of those in use.  An entry whose valid flag is off is Empty;  *)
(* id 0 is what the code refuses as a service_id.  What a service holds     *)
(* besides its id (channel, name, category) is its details.  One operation  *)
(* is one step here; ServiceDiscovery looks inside them.                    *)
EXTENDS Naturals, FiniteSets

CONSTANTS
  Ids,           \* values of service_id, 0 among them
  Details,
  NoDetails,     \* the details of an entry that is not valid
  MaxServices    \* MAX_SERVICES

ASSUME CatalogAssumption ==
  /\ Ids \subseteq Nat
  /\ MaxServices \in Nat

VARIABLES
  services,      \* services_
  count          \* num_services_

catalogVars == <<services, count>>

Entries == 1 .. MaxServices

Service == [id : Ids, details : Details]

Empty == [id |-> 0, details |-> NoDetails]

CatalogInit ==
  /\ services = [i \in Entries |-> Empty]
  /\ count = 0

-----------------------------------------------------------------------------
(* find_service, find_slot *)

Used == {i \in Entries : services[i].id # 0}

EntriesOf(id) == {i \in Used : services[i].id = id}

(* Mutant: a full catalog gives away its first entry. *)
EntriesForEvicting(id) ==
  IF EntriesOf(id) # {} THEN EntriesOf(id)
  ELSE IF Used = Entries THEN {1} ELSE Entries \ Used

(* find_slot takes the first of these: the entry of the service, or else   *)
(* any that is not in use.                                                 *)
EntriesFor(id) == IF EntriesOf(id) # {} THEN EntriesOf(id) ELSE Entries \ Used

First(S) == CHOOSE i \in S : \A j \in S : i <= j

-----------------------------------------------------------------------------

Accepts(s) == s.id # 0 /\ EntriesFor(s.id) # {}

UpdateService(s) ==
  /\ Accepts(s)
  /\ services' = [services EXCEPT ![First(EntriesFor(s.id))] = s]
  /\ count' = IF EntriesOf(s.id) = {} THEN count + 1 ELSE count

(* The id is 0 or the catalog is full. *)
RefuseService(s) == ~ Accepts(s) /\ UNCHANGED catalogVars

(* Mutant: the entry is emptied and nothing takes its place. *)
RemoveInPlace(id) ==
  /\ EntriesOf(id) \cap 1 .. count # {}
  /\ services' = [services EXCEPT ![First(EntriesOf(id) \cap 1 .. count)] = Empty]
  /\ count' = count - 1

(* The last service moves into the place of the one that goes. *)
RemoveService(id) ==
  /\ EntriesOf(id) \cap 1 .. count # {}
  /\ services' = [services EXCEPT ![First(EntriesOf(id) \cap 1 .. count)] = services[count],
                                  ![count] = Empty]
  /\ count' = count - 1

Clear ==
  /\ services' = [i \in Entries |-> Empty]
  /\ count' = 0

CatalogNext ==
  \/ \E s \in Service : UpdateService(s) \/ RefuseService(s)
  \/ \E id \in Ids : RemoveService(id)
  \/ Clear

CatalogSpec == CatalogInit /\ [][CatalogNext]_catalogVars

-----------------------------------------------------------------------------
CatalogTypeOK ==
  /\ services \in [Entries -> Service \cup {Empty}]
  /\ count \in 0 .. MaxServices

(* The services are the first count entries and no id is there twice.      *)
(* get_service, find_service and remove_service look no further than       *)
(* count, find_slot looks at every entry: they agree only because of this. *)
Compact ==
  /\ Used = 1 .. count
  /\ \A i, j \in Used : services[i].id = services[j].id => i = j
=============================================================================
