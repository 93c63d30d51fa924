---------------------------- MODULE WifiStation ----------------------------
(***************************************************************************)
(* Bringing the Wifi of the embedded ports up and down.  On Esp networkUp  *)
(* starts the radio, waits for event bits that the handler of the driver's *)
(* events sets on another task, connects, and waits for the bit of the     *)
(* address.  On Cc32xx it asks the network processor to connect and trusts *)
(* its return value.  What the driver does (esp_wifi, SimpleLink) is       *)
(* external: it starts interfaces, associates, gets an address and loses   *)
(* the link whenever it likes, and posts an event each time.               *)
(***************************************************************************)
EXTENDS Naturals, Sequences

CONSTANTS
  Ports,     \* "Esp", "Cc32xx"
  MaxEvents  \* bound: events the driver has posted and nobody has handled

WifiStationAssumption ==
  Ports \subseteq {"Esp", "Cc32xx"} /\ MaxEvents \in Nat \ {0}

VARIABLES
  port,        \* the platform of this behaviour, constant
  mode,        \* _params.mode
  authMode,    \* _params.authMode: "Unknown", or "WpaWpa2" for any that is known
  pc,          \* where networkUp is
  asked,       \* the mode of the last networkUp
  skipped,     \* observation: the last networkUp found the mode or the authMode unknown
  answer,      \* what the last networkUp has answered
  started,     \* the interfaces that the radio has started
  link,        \* the station: "down", "connecting", "associated", "address"
  events,      \* the events the driver has posted
  bits,        \* the bits of wifiEventGroup
  isUp,        \* NetworkTypes::Status::isUp
  isProvisioned, \* WifiTypes::Status::isProvisioned
  lost,        \* observation: a link or an interface has been lost or taken down
  reached      \* observation: the station has or had an address since networkUp began

vars == <<port, mode, authMode, pc, asked, skipped, answer, started, link, events, bits, isUp, isProvisioned, lost, reached>>
driver == <<started, link, events, lost, reached>>
status == <<isUp, isProvisioned>>
params == <<mode, authMode>>
request == <<asked, skipped>>

Modes == {"Unknown", "AccessPoint", "Station", "AccessPointAndStation", "PointToPoint"}
AuthModes == {"Unknown", "WpaWpa2"}

Init ==
  /\ port \in Ports
  /\ mode = "Unknown" /\ authMode = "Unknown" /\ asked = "Unknown" /\ skipped = FALSE
  /\ pc = "idle" /\ answer = "none"
  /\ started = {} /\ link = "down" /\ events = <<>> /\ bits = {}
  /\ isUp = FALSE /\ isProvisioned = FALSE
  /\ lost = FALSE /\ reached = FALSE

-----------------------------------------------------------------------------
(* The driver.                                                             *)

Post(new) == Len(events) + Len(new) <= MaxEvents /\ events' = events \o new

\* The interfaces of a mode.
Interfaces(m) == CASE m = "AccessPointAndStation" -> {"ap", "sta"}
                   [] m = "AccessPoint" -> {"ap"}
                   [] m = "Station" -> {"sta"}
                   [] OTHER -> {}

StartOf(i) == IF i \in Interfaces(mode) \ started THEN <<i>> ELSE <<>>

\* esp_wifi_set_mode() and esp_wifi_start(): an interface that is not wanted stops.
StartInterfaces ==
  LET stops == started \ Interfaces(mode) IN
  /\ started' = Interfaces(mode)
  /\ link' = IF "sta" \in stops THEN "down" ELSE link
  /\ lost' = (lost \/ stops # {})
  /\ Post((IF "sta" \in stops /\ link # "down" THEN <<"disconnected">> ELSE <<>>)
          \o StartOf("ap") \o StartOf("sta"))

Associate ==
  /\ link = "connecting"
  /\ link' = "associated" /\ Post(<<"connected">>)
  /\ UNCHANGED <<port, params, pc, request, answer, started, bits, status, lost, reached>>

GetAddress ==
  /\ link = "associated"
  /\ link' = "address" /\ reached' = TRUE /\ Post(<<"gotIp">>)
  /\ UNCHANGED <<port, params, pc, request, answer, started, bits, status, lost>>

LoseLink ==
  /\ link # "down"
  /\ link' = "down" /\ Post(<<"disconnected">>) /\ lost' = TRUE
  /\ UNCHANGED <<port, params, pc, request, answer, started, bits, status, reached>>

\* The station is told to drop its link.
DropLink ==
  /\ link' = "down" /\ lost' = TRUE
  /\ Post(IF link = "down" THEN <<>> ELSE <<"disconnected">>)
  /\ UNCHANGED reached

-----------------------------------------------------------------------------
(* The program on Esp.                                                     *)

SetMode(m) ==
  /\ pc = "idle" /\ mode' = m /\ m # mode
  /\ UNCHANGED <<port, authMode, pc, request, answer, driver, bits, status>>

\* setAuthMode(): Cc32xx refuses one that is not known.
SetAuthMode(a) ==
  /\ pc = "idle" /\ authMode' = a /\ a # authMode
  /\ port = "Cc32xx" => a # "Unknown"
  /\ UNCHANGED <<port, mode, pc, request, answer, driver, bits, status>>

\* A networkUp begins, with the parameters there are.
Ask == asked' = mode /\ skipped' = (mode = "Unknown" \/ authMode = "Unknown")

Answer(a) == pc' = "idle" /\ answer' = a

\* networkUp() does nothing when the mode or the authMode is unknown, and succeeds.
UpUnknown ==
  /\ port = "Esp" /\ pc = "idle"
  /\ mode = "Unknown" \/ authMode = "Unknown"
  /\ Ask /\ Answer("Success")
  /\ UNCHANGED <<port, params, driver, bits, status>>

\* The mode is set, the interfaces configured, the radio started ...
BeginUp ==
  /\ port = "Esp" /\ pc = "idle" /\ Interfaces(mode) # {} /\ authMode # "Unknown"
  /\ Ask /\ answer' = "none"
  /\ StartInterfaces
  /\ reached' = (link' = "address")
  /\ pc' = "started"
  /\ UNCHANGED <<port, params, bits, status>>

\* ... which may fail, or the mode is not one of Esp.
RefuseUp ==
  /\ port = "Esp" /\ pc = "idle" /\ mode # "Unknown" /\ authMode # "Unknown"
  /\ Ask /\ Answer("Failure")
  /\ UNCHANGED <<port, params, driver, bits, status>>

StartBits == CASE asked = "AccessPointAndStation" -> {"both"}
               [] asked = "AccessPoint" -> {"ap"}
               [] asked = "Station" -> {"sta"}

AccessPointReady ==
  /\ pc = "started" /\ StartBits \subseteq bits /\ asked = "AccessPoint"
  /\ Answer("Success")
  /\ UNCHANGED <<port, params, request, driver, bits, status>>

\* esp_wifi_connect().
ConnectStation ==
  /\ pc = "started" /\ StartBits \subseteq bits /\ asked # "AccessPoint"
  /\ \/ /\ link' = IF link = "down" THEN "connecting" ELSE link
        /\ pc' = "address" /\ UNCHANGED answer
     \/ Answer("Failure") /\ UNCHANGED link
  /\ UNCHANGED <<port, params, request, started, events, lost, reached, bits, status>>

\* Mutant of AddressReady: the association is enough.
AddressAssumed ==
  /\ pc = "address"
  /\ Answer("Success")
  /\ UNCHANGED <<port, params, request, driver, bits, status>>

AddressReady ==
  /\ pc = "address" /\ "dhcp" \in bits
  /\ Answer("Success")
  /\ UNCHANGED <<port, params, request, driver, bits, status>>

\* Either wait ends after ten seconds, unless its bits are there.
UpTimeout ==
  /\ \/ pc = "started" /\ ~(StartBits \subseteq bits)
     \/ pc = "address" /\ "dhcp" \notin bits
  /\ Answer("Timeout")
  /\ UNCHANGED <<port, params, request, driver, bits, status>>

NetworkDown ==
  /\ port = "Esp" /\ pc = "idle"
  /\ DropLink
  /\ isUp' = FALSE
  /\ UNCHANGED <<port, params, pc, request, answer, started, bits, isProvisioned>>

RadioOff ==
  /\ port = "Esp" /\ pc = "idle" /\ started # {}
  /\ DropLink
  /\ started' = {}
  /\ UNCHANGED <<port, params, pc, request, answer, bits, status>>

\* Mutant of EspHandler: the second interface does not tell that both started.
EspHandlerApOnly ==
  /\ port = "Esp" /\ events # <<>>
  /\ events' = Tail(events)
  /\ LET e == Head(events) IN
     /\ bits' = bits \cup (CASE e = "ap" -> {"ap", "both"} [] e = "sta" -> {"sta"}
                             [] e = "gotIp" -> {"dhcp"} [] OTHER -> {})
     /\ isUp' = (isUp \/ e = "gotIp" \/ (e = "ap" /\ mode = "AccessPoint"))
     /\ isProvisioned' = IF e \in {"connected", "disconnected"} THEN e = "connected" ELSE isProvisioned
  /\ UNCHANGED <<port, params, pc, request, answer, started, link, lost, reached>>

\* Mutant of EspHandler: the access point says the network is up in every mode.
EspHandlerUpEarly ==
  /\ port = "Esp" /\ events # <<>>
  /\ events' = Tail(events)
  /\ LET e == Head(events) IN
     /\ bits' = bits \cup (CASE e = "ap" -> {"ap"} \cup (IF "sta" \in bits THEN {"both"} ELSE {})
                             [] e = "sta" -> {"sta"} \cup (IF "ap" \in bits THEN {"both"} ELSE {})
                             [] e = "gotIp" -> {"dhcp"} [] OTHER -> {})
     /\ isUp' = (isUp \/ e \in {"gotIp", "connected"} \/ (e = "ap" /\ mode = "AccessPoint"))
     /\ isProvisioned' = IF e \in {"connected", "disconnected"} THEN e = "connected" ELSE isProvisioned
  /\ UNCHANGED <<port, params, pc, request, answer, started, link, lost, reached>>

\* WifiEventHandler(), on the task of the driver's events: no bit is ever cleared.
EspHandler ==
  /\ port = "Esp" /\ events # <<>>
  /\ events' = Tail(events)
  /\ LET e == Head(events) IN
     /\ bits' = bits \cup (CASE e = "ap" -> {"ap"} \cup (IF "sta" \in bits THEN {"both"} ELSE {})
                             [] e = "sta" -> {"sta"} \cup (IF "ap" \in bits THEN {"both"} ELSE {})
                             [] e = "gotIp" -> {"dhcp"} [] OTHER -> {})
     /\ isUp' = (isUp \/ e = "gotIp" \/ (e = "ap" /\ mode = "AccessPoint"))
     /\ isProvisioned' = IF e \in {"connected", "disconnected"} THEN e = "connected" ELSE isProvisioned
  /\ UNCHANGED <<port, params, pc, request, answer, started, link, lost, reached>>

-----------------------------------------------------------------------------
(* The program on Cc32xx.                                                  *)

\* networkUp(): sl_WlanConnect() accepts the request; the profile is added or not.
Cc32xxConnect ==
  /\ port = "Cc32xx" /\ pc = "idle" /\ "sta" \in Interfaces(mode)
  /\ Ask /\ started' = Interfaces(mode)
  /\ link' = "connecting" /\ UNCHANGED <<events, lost, reached>>
  /\ \E added \in BOOLEAN :
       /\ isProvisioned' = (isProvisioned \/ added)
       /\ isUp' = added
       /\ Answer(IF added THEN "Success" ELSE "Failure")
  /\ UNCHANGED <<port, params, bits>>

\* It is refused: provisioning is started, and its result is the answer.
Cc32xxProvision ==
  /\ port = "Cc32xx" /\ pc = "idle" /\ "sta" \in Interfaces(mode)
  /\ Ask
  /\ isUp' = FALSE
  /\ \E a \in {"Success", "Failure"} : Answer(a)
  /\ UNCHANGED <<port, params, driver, bits, isProvisioned>>

\* The other modes: nothing is asked of the network processor, and only an authMode
\* that is not known is an error.
Cc32xxUp ==
  /\ port = "Cc32xx" /\ pc = "idle" /\ mode # "Unknown" /\ "sta" \notin Interfaces(mode)
  /\ Ask
  /\ isUp' = (authMode # "Unknown")
  /\ Answer(IF authMode = "Unknown" THEN "Failure" ELSE "Success")
  /\ UNCHANGED <<port, params, driver, bits, isProvisioned>>

\* networkDown(): the status follows the end of the provisioning.
Cc32xxDown ==
  /\ port = "Cc32xx" /\ pc = "idle"
  /\ DropLink
  /\ \/ isUp' = FALSE /\ isProvisioned' = FALSE
     \/ UNCHANGED status
  /\ UNCHANGED <<port, params, pc, request, answer, started, bits>>

\* radioOff().
Cc32xxRadioOff ==
  /\ port = "Cc32xx" /\ pc = "idle" /\ started # {}
  /\ DropLink
  /\ started' = {} /\ isUp' = FALSE
  /\ UNCHANGED <<port, params, pc, request, answer, bits, isProvisioned>>

\* SimpleLinkWlanEventHandler() writes what happened to the log, and keeps nothing.
Cc32xxHandler ==
  /\ port = "Cc32xx" /\ events # <<>>
  /\ events' = Tail(events)
  /\ UNCHANGED <<port, params, pc, request, answer, started, link, lost, reached, bits, status>>

Next ==
  \/ Associate \/ GetAddress \/ LoseLink
  \/ \E m \in Modes \ {"Unknown"} : SetMode(m)
  \/ \E a \in AuthModes : SetAuthMode(a)
  \/ UpUnknown \/ BeginUp \/ RefuseUp \/ AccessPointReady \/ ConnectStation \/ AddressReady
  \/ UpTimeout \/ NetworkDown \/ RadioOff \/ EspHandler
  \/ Cc32xxConnect \/ Cc32xxProvision \/ Cc32xxUp \/ Cc32xxDown \/ Cc32xxRadioOff \/ Cc32xxHandler

Spec == Init /\ [][Next]_vars

-----------------------------------------------------------------------------
TypeOK ==
  /\ port \in Ports /\ mode \in Modes /\ authMode \in AuthModes /\ asked \in Modes /\ skipped \in BOOLEAN
  /\ pc \in {"idle", "started", "address"}
  /\ answer \in {"none", "Success", "Failure", "Timeout"}
  /\ started \subseteq {"ap", "sta"}
  /\ link \in {"down", "connecting", "associated", "address"}
  /\ events \in Seq({"ap", "sta", "connected", "disconnected", "gotIp"})
  /\ bits \subseteq {"ap", "sta", "both", "dhcp"}
  /\ isUp \in BOOLEAN /\ isProvisioned \in BOOLEAN /\ lost \in BOOLEAN /\ reached \in BOOLEAN

HasAddress == "sta" \in Interfaces(asked) /\ answer = "Success" => link = "address"

\* On Esp, and as long as nothing was lost or taken down before, networkUp of a
\* station whose authMode is known succeeds only when the station has an address.
FirstUpHasAddress == port = "Esp" /\ ~lost /\ ~skipped => HasAddress

\* The bit that both interfaces have started is there only when each of them has.
BothMeansBoth == "both" \in bits => {"ap", "sta"} \subseteq bits

\* On Esp, and as long as nothing was lost or taken down, isUp says that there
\* is an address or an access point.
UpIsUpAtFirst == port = "Esp" /\ ~lost /\ isUp => link = "address" \/ "ap" \in started

\* A networkUp of a station that succeeds has brought it up: it has or had an
\* address since the call began.  Violated without an authMode, and by the bits
\* of an earlier connection.
SuccessIsUp ==
  port = "Esp" /\ pc = "idle" /\ answer = "Success" /\ "sta" \in Interfaces(asked) => reached

\* isUp tells whether the network can be used.
UpIsUp == isUp /\ events = <<>> => link = "address" \/ "ap" \in started

\* A networkUp that succeeds leaves isUp set, once the events are handled.
SuccessSetsUp == pc = "idle" /\ answer = "Success" /\ ~lost /\ events = <<>> /\ asked # "Unknown" => isUp
=============================================================================
