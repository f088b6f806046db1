--------------------------- MODULE AttachedDevices ---------------------------
(***************************************************************************)
(* The scan of the modules: AttachedDevices, which ScanAttachedDevices     *)
(* runs until it is done, with the hold it takes on twoWire1.              *)
(*                                                                         *)
(* The link below is that of ModuleComms: a query ends with a reply or an  *)
(* error.  Left out: the versions that QueryFirmware logs, and that a      *)
(* module is exchanged for another one while the core is on.               *)
(***************************************************************************)
EXTENDS CoreState

VARIABLES
  attached,  \* what answers at an address: nothing, a sensor or a communications module
  scanning,  \* scanning
  asked,     \* addresses[addressIndex]
  query,     \* the query that is pushed, or "none"
  sensor,    \* querySensorCapabilities.sensor
  bus        \* the owner of twoWire1: "none", "scan", or "query" when it was not released

scanVars == <<scanning, asked, query, sensor, bus>>

Modules == {"nothing", "sensor", "comms"}
Queries == {"none", "capabilities", "sensor", "firmware"}

ScanTypeOK ==
  /\ attached \in [Addresses -> Modules]
  /\ scanning \in BOOLEAN
  /\ asked \in 7 .. LastAddress + 1
  /\ query \in Queries
  /\ sensor \in 0 .. NumSensors
  /\ bus \in {"none", "scan", "query"}

\* CoreState::readingsToTake knows one sensor module.
ScanInit ==
  /\ attached \in {m \in [Addresses -> Modules] :
                     /\ Cardinality({a \in Addresses : m[a] = "sensor"}) <= 1
                     /\ (\E a \in Addresses : m[a] = "comms") => Can("comms")}
  /\ scanning = FALSE /\ asked = 7 /\ query = "none" /\ sensor = 0
  /\ bus = "none"

SensorsOf(a) == IF attached[a] = "sensor" THEN NumSensors ELSE 0

ListedSensors == {a \in listed : attached[a] = "sensor"}

-----------------------------------------------------------------------------
\* resume(): the next address is asked for its capabilities, or the scan is done.
Resume(a) ==
  /\ asked' = a /\ sensor' = 0
  /\ IF a <= LastAddress
     THEN query' = "capabilities" /\ scanning' = TRUE /\ UNCHANGED bus
     ELSE query' = "none" /\ scanning' = FALSE /\ bus' = "none"

\* task() with a scan() that gets the bus.
ScanBegins ==
  /\ ~scanning /\ bus = "none"
  /\ query' = "capabilities" /\ scanning' = TRUE /\ asked' = 7 /\ sensor' = 0
  /\ bus' = "scan"
  /\ UNCHANGED <<numberVars, moduleVars>>

\* task() with a scan() that does not: it is busy with no query.
ScanHangs ==
  /\ ~scanning /\ bus # "none"
  /\ scanning' = TRUE /\ asked' = 7 /\ sensor' = 0
  /\ UNCHANGED <<numberVars, moduleVars, query, bus>>

\* done(queryCapabilities).
CapabilitiesReply ==
  /\ query = "capabilities" /\ attached[asked] # "nothing"
  /\ Create(asked, SensorsOf(asked))
  /\ IF SensorsOf(asked) > 0
     THEN query' = "sensor" /\ sensor' = 0 /\ UNCHANGED <<scanning, asked, bus>>
     ELSE Resume(asked + 1)
  /\ UNCHANGED numberVars

\* Mutant of SensorReply: it asks for one sensor more than there are.
SensorReplyOver ==
  /\ query = "sensor"
  /\ described' = described \union {<<asked, sensor>>}
  /\ sensor' = sensor + 1
  /\ query' = IF sensor' <= SensorsOf(asked) THEN "sensor" ELSE "firmware"
  /\ UNCHANGED <<numberVars, listed, done, dirty, taken, scanning, asked, bus>>

\* done(querySensorCapabilities).
SensorReply ==
  /\ query = "sensor"
  /\ described' = described \union {<<asked, sensor>>}
  /\ sensor' = sensor + 1
  /\ query' = IF sensor' < SensorsOf(asked) THEN "sensor" ELSE "firmware"
  /\ UNCHANGED <<numberVars, listed, done, dirty, taken, scanning, asked, bus>>

\* done(queryFirmware), and error() of it and of the capabilities.
NextAddress ==
  /\ \/ query = "firmware"
     \/ query = "capabilities" /\ (attached[asked] = "nothing" \/ Can("noise"))
  /\ Resume(asked + 1)
  /\ UNCHANGED <<numberVars, moduleVars>>

\* Mutant of ScanFails: the scan goes on with the next address.
ScanFailsOver ==
  /\ query = "sensor" /\ Can("noise")
  /\ Resume(asked + 1)
  /\ UNCHANGED <<numberVars, moduleVars>>

\* error(querySensorCapabilities): scanFailure().
ScanFails ==
  /\ query = "sensor" /\ Can("noise")
  /\ ClearModules
  /\ query' = "none" /\ scanning' = FALSE /\ bus' = "none"
  /\ UNCHANGED <<numberVars, asked, sensor>>

ScanTask ==
  \/ CapabilitiesReply \/ SensorReply \/ NextAddress \/ ScanFails
=============================================================================
