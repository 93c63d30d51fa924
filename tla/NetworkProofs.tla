--------------------------- MODULE NetworkProofs ---------------------------
(***************************************************************************)
(* What holds of the network for every value of the constants: the Wi-Fi   *)
(* station, the HTTPS client of one user, the sockets of callers that wait *)
(* for their answers, the transfer of a message to a client, the request   *)
(* queue of the CC32xx, and the types of all of them.                      *)
(***************************************************************************)
EXTENDS MCNetwork, FiniteSets, FiniteSetTheorems, SequenceTheorems, WellFoundedInduction, TLAPS

(***************************************************************************)
(* A behaviour of PartSpec is one of a single component: the steps of its  *)
(* part are the component's own, and the other parts take none.            *)
(***************************************************************************)
LEMMA PartSteps ==
  ASSUME [PartNext]_allVars
  PROVE  /\ part' = part
         /\ part = "sockets" => [S!Next]_socketsVars
         /\ part = "wifi" => [W!Next]_wifiVars
         /\ part = "https" => [H!Next]_httpsVars
         /\ part = "transfer" => [X!Next]_transferVars
         /\ part = "app" => [Z!Next]_appVars
  <1>1. CASE UNCHANGED allVars
    BY <1>1 DEF allVars
  <1>2. CASE PartNext
    BY <1>2 DEF PartNext, SocketsStep, WifiStep, HttpsStep, TransferStep, MessagesStep, AppStep
  <1> QED BY <1>1, <1>2

-----------------------------------------------------------------------------
(* The Wi-Fi station.                                                      *)

\* An event says what its handler will find to be so, as long as nothing was lost.
EventsAreTrue ==
  \A i \in 1 .. Len(wifiEvents) :
    /\ wifiEvents[i] = "gotIp" => link = "address"
    /\ wifiEvents[i] = "ap" => "ap" \in started

\* And what the handler has kept of them is so as well.
KeptIsTrue ==
  /\ "dhcp" \in bits => link = "address"
  /\ isUp => link = "address" \/ "ap" \in started
  /\ asked \in {"AccessPointAndStation", "Station"} /\ answer = "Success" /\ ~skipped => link = "address"

WifiInv ==
  /\ W!TypeOK
  /\ wifiPc # "idle" => wifiPort = "Esp"
  /\ wifiPc = "started" => asked \in {"AccessPointAndStation", "AccessPoint", "Station"} /\ answer = "none"
  /\ wifiPc = "address" => answer = "none"
  /\ W!BothMeansBoth
  /\ wifiPort = "Esp" /\ ~lost => EventsAreTrue /\ KeptIsTrue

WifiHypothesis == W!WifiStationAssumption

LEMMA PostedEvents ==
  ASSUME NEW Kinds, NEW s \in Seq(Kinds), NEW t \in Seq(Kinds)
  PROVE  /\ s \o t \in Seq(Kinds)
         /\ \A i \in 1 .. Len(s \o t) : \/ \E j \in 1 .. Len(s) : (s \o t)[i] = s[j]
                                       \/ \E j \in 1 .. Len(t) : (s \o t)[i] = t[j]
  <1>1. ASSUME NEW i \in 1 .. Len(s \o t), ~(i <= Len(s))
        PROVE  i - Len(s) \in 1 .. Len(t) /\ (s \o t)[i] = t[i - Len(s)]
    BY <1>1
  <1>2. ASSUME NEW i \in 1 .. Len(s \o t), i <= Len(s)
        PROVE  i \in 1 .. Len(s) /\ (s \o t)[i] = s[i]
    BY <1>2
  <1> QED BY <1>1, <1>2

LEMMA HandledEvents ==
  ASSUME NEW Kinds, NEW s \in Seq(Kinds), s # <<>>
  PROVE  /\ Tail(s) \in Seq(Kinds)
         /\ Head(s) = s[1] /\ 1 \in 1 .. Len(s)
         /\ \A i \in 1 .. Len(Tail(s)) : Tail(s)[i] = s[i + 1] /\ i + 1 \in 1 .. Len(s)
  OBVIOUS

LEMMA InterfacesOf ==
  /\ \A m : W!Interfaces(m) \subseteq {"ap", "sta"}
  /\ \A m \in W!Modes : "sta" \in W!Interfaces(m) <=> m \in {"AccessPointAndStation", "Station"}
  /\ W!Interfaces("AccessPointAndStation") = {"ap", "sta"}
  /\ W!Interfaces("AccessPoint") = {"ap"} /\ W!Interfaces("Station") = {"sta"}
  /\ \A m \in W!Modes : W!Interfaces(m) # {} => m \in {"AccessPointAndStation", "AccessPoint", "Station"}
  BY DEF W!Interfaces, W!Modes

LEMMA WifiStarts == W!Init => WifiInv
  <1> SUFFICES ASSUME W!Init
               PROVE  WifiInv
    OBVIOUS
  <1> USE DEF W!Init
  <1>1. wifiEvents \in Seq({"ap", "sta", "connected", "disconnected", "gotIp"}) /\ EventsAreTrue
    BY DEF EventsAreTrue
  <1>2. KeptIsTrue
    BY DEF KeptIsTrue
  <1>3. W!BothMeansBoth
    BY DEF W!BothMeansBoth
  <1>4. W!TypeOK
    BY <1>1 DEF W!TypeOK, W!Modes, W!AuthModes
  <1>5. wifiPc = "idle"
    OBVIOUS
  <1> QED BY <1>1, <1>2, <1>3, <1>4, <1>5 DEF WifiInv

\* The driver posts events that are true, and what was true stays so.
LEMMA PostKeeps ==
  ASSUME WifiInv, NEW new \in Seq({"ap", "sta", "connected", "disconnected", "gotIp"}), W!Post(new)
  PROVE  /\ wifiEvents' \in Seq({"ap", "sta", "connected", "disconnected", "gotIp"})
         /\ EventsAreTrue /\ (link = "address" => link' = "address")
              /\ ("ap" \in started => "ap" \in started')
              /\ (\A j \in 1 .. Len(new) : /\ new[j] = "gotIp" => link' = "address"
                                           /\ new[j] = "ap" => "ap" \in started')
            => EventsAreTrue'
  <1>1. /\ wifiEvents' = wifiEvents \o new
        /\ wifiEvents \in Seq({"ap", "sta", "connected", "disconnected", "gotIp"})
    BY DEF W!Post, WifiInv, W!TypeOK
  <1>2. \A i \in 1 .. Len(wifiEvents') :
          \/ \E j \in 1 .. Len(wifiEvents) : wifiEvents'[i] = wifiEvents[j]
          \/ \E j \in 1 .. Len(new) : wifiEvents'[i] = new[j]
    BY <1>1, PostedEvents
  <1>3. wifiEvents' \in Seq({"ap", "sta", "connected", "disconnected", "gotIp"})
    BY <1>1
  <1> QED BY <1>2, <1>3 DEF EventsAreTrue

LEMMA WifiKeeps == WifiHypothesis /\ WifiInv /\ [W!Next]_wifiVars => WifiInv'
  <1> SUFFICES ASSUME WifiHypothesis, WifiInv, [W!Next]_wifiVars
               PROVE  WifiInv'
    OBVIOUS
  <1> DEFINE Kinds == {"ap", "sta", "connected", "disconnected", "gotIp"}
  <1>0. /\ W!TypeOK /\ W!BothMeansBoth
        /\ wifiEvents \in Seq(Kinds)
    BY DEF WifiInv, W!TypeOK
  <1>1. CASE UNCHANGED wifiVars
    BY <1>1 DEF wifiVars, WifiInv, W!TypeOK, W!BothMeansBoth, EventsAreTrue, KeptIsTrue
  <1>2. CASE W!Associate
    <2>1. W!Post(<<"connected">>) /\ <<"connected">> \in Seq(Kinds)
      BY <1>2 DEF W!Associate
    <2>2. wifiEvents' \in Seq(Kinds)
      BY <2>1, PostKeeps
    <2>3. EventsAreTrue => EventsAreTrue'
      <3>1. /\ link = "address" => link' = "address"
            /\ "ap" \in started => "ap" \in started'
        BY <1>2 DEF W!Associate, W!vars
      <3>2. \A j \in 1 .. Len(<<"connected">>) :
              /\ <<"connected">>[j] = "gotIp" => link' = "address"
              /\ <<"connected">>[j] = "ap" => "ap" \in started'
        OBVIOUS
      <3> QED BY <2>1, <3>1, <3>2, PostKeeps
    <2> QED BY <1>2, <2>2, <2>3 DEF W!Associate, W!status, W!params, W!request, WifiInv, W!TypeOK, W!BothMeansBoth, KeptIsTrue
  <1>3. CASE W!GetAddress
    <2>1. W!Post(<<"gotIp">>) /\ <<"gotIp">> \in Seq(Kinds)
      BY <1>3 DEF W!GetAddress
    <2>2. wifiEvents' \in Seq(Kinds)
      BY <2>1, PostKeeps
    <2>3. EventsAreTrue => EventsAreTrue'
      <3>1. /\ link' = "address"
            /\ "ap" \in started => "ap" \in started'
        BY <1>3 DEF W!GetAddress
      <3>2. \A j \in 1 .. Len(<<"gotIp">>) :
              /\ <<"gotIp">>[j] = "gotIp" => link' = "address"
              /\ <<"gotIp">>[j] = "ap" => "ap" \in started'
        BY <3>1
      <3> QED BY <2>1, <3>1, <3>2, PostKeeps
    <2> QED BY <1>3, <2>2, <2>3 DEF W!GetAddress, W!status, W!params, W!request, WifiInv, W!TypeOK, W!BothMeansBoth, KeptIsTrue
  <1>4. CASE W!LoseLink
    <2>1. W!Post(<<"disconnected">>) /\ <<"disconnected">> \in Seq(Kinds) /\ lost' = TRUE
      BY <1>4 DEF W!LoseLink
    <2>2. wifiEvents' \in Seq(Kinds)
      BY <2>1, PostKeeps
    <2> QED BY <1>4, <2>1, <2>2 DEF W!LoseLink, W!status, W!params, W!request, WifiInv, W!TypeOK, W!BothMeansBoth
  <1>5. ASSUME NEW m \in W!Modes \ {"Unknown"}, W!SetMode(m)
        PROVE  WifiInv'
    BY <1>5 DEF W!SetMode, W!request, W!driver, W!status, WifiInv, W!TypeOK, W!BothMeansBoth, EventsAreTrue, KeptIsTrue
  <1>16. ASSUME NEW a \in W!AuthModes, W!SetAuthMode(a)
         PROVE  WifiInv'
    BY <1>16 DEF W!SetAuthMode, W!request, W!driver, W!status, WifiInv, W!TypeOK, W!BothMeansBoth, EventsAreTrue, KeptIsTrue
  <1>60. ASSUME wifiPort' = wifiPort, bits' = bits, isUp' = isUp, started' = started, wifiEvents' = wifiEvents,
                lost' = lost, W!TypeOK', wifiPc' = "idle", link = "address" => link' = "address",
                wifiPort = "Esp" /\ ~lost /\ KeptIsTrue
                  => (asked' \in {"AccessPointAndStation", "Station"} /\ answer' = "Success" /\ ~skipped' => link' = "address")
         PROVE  WifiInv'
    <2>1. EventsAreTrue => EventsAreTrue'
      BY <1>60 DEF EventsAreTrue
    <2>2. wifiPort = "Esp" /\ ~lost /\ KeptIsTrue => KeptIsTrue'
      BY <1>60 DEF KeptIsTrue
    <2> QED BY <1>60, <2>1, <2>2 DEF WifiInv, W!BothMeansBoth
  <1>6. CASE W!UpUnknown \/ W!RefuseUp
    <2>1. /\ wifiPort' = wifiPort /\ bits' = bits /\ isUp' = isUp /\ started' = started /\ wifiEvents' = wifiEvents
          /\ lost' = lost /\ wifiPc' = "idle" /\ link' = link /\ mode' = mode /\ asked' = mode
          /\ authMode' = authMode /\ reached' = reached /\ isProvisioned' = isProvisioned
          /\ skipped' \in BOOLEAN /\ (answer' = "Failure" \/ (answer' = "Success" /\ skipped'))
      BY <1>6 DEF W!UpUnknown, W!RefuseUp, W!Ask, W!Answer, W!driver, W!status, W!params
    <2>2. W!TypeOK'
      BY <2>1, <1>0 DEF W!TypeOK
    <2> QED BY <2>1, <2>2, <1>60
  <1>7. CASE W!BeginUp
    <2> DEFINE stops == started \ W!Interfaces(mode)
               new == (IF "sta" \in stops /\ link # "down" THEN <<"disconnected">> ELSE <<>>)
                        \o W!StartOf("ap") \o W!StartOf("sta")
    <2>1. W!Post(new) /\ started' = W!Interfaces(mode) /\ lost' = (lost \/ stops # {})
          /\ link' = IF "sta" \in stops THEN "down" ELSE link
      BY <1>7 DEF W!BeginUp, W!StartInterfaces
    <2>2. /\ new \in Seq(Kinds)
          /\ \A j \in 1 .. Len(new) : new[j] # "gotIp" /\ (new[j] = "ap" => "ap" \in W!Interfaces(mode))
      <3> DEFINE first == IF "sta" \in stops /\ link # "down" THEN <<"disconnected">> ELSE <<>>
                 second == W!StartOf("ap")
                 third == W!StartOf("sta")
      <3>1. first \in {<<>>, <<"disconnected">>} /\ second \in {<<>>, <<"ap">>} /\ third \in {<<>>, <<"sta">>}
        BY DEF W!StartOf
      <3>2. second # <<>> => "ap" \in W!Interfaces(mode)
        BY DEF W!StartOf
      <3>3. new = first \o second \o third
        OBVIOUS
      <3> HIDE DEF first, second, third, new
      <3>4. first \in Seq(Kinds) /\ second \in Seq(Kinds) /\ third \in Seq(Kinds)
        <4>1. /\ <<>> \in Seq(Kinds) /\ <<"disconnected">> \in Seq(Kinds)
              /\ <<"ap">> \in Seq(Kinds) /\ <<"sta">> \in Seq(Kinds)
          OBVIOUS
        <4> HIDE DEF Kinds
        <4> QED BY <4>1, <3>1
      <3>5. first \o second \in Seq(Kinds) /\ new \in Seq(Kinds)
        BY <3>3, <3>4
      <3>6. ASSUME NEW j \in 1 .. Len(new)
            PROVE  \/ \E k \in 1 .. Len(first) : new[j] = first[k]
                   \/ \E k \in 1 .. Len(second) : new[j] = second[k]
                   \/ \E k \in 1 .. Len(third) : new[j] = third[k]
        <4>1. \/ \E k \in 1 .. Len(first \o second) : new[j] = (first \o second)[k]
              \/ \E k \in 1 .. Len(third) : new[j] = third[k]
          BY <3>3, <3>4, <3>5, PostedEvents
        <4> QED BY <4>1, <3>4, PostedEvents
      <3> QED BY <3>1, <3>2, <3>5, <3>6
    <2>3. wifiEvents' \in Seq(Kinds)
      BY <2>1, <2>2, PostKeeps
    <2>4. ~lost' => stops = {} /\ link' = link /\ started \subseteq started' /\ ~lost
      BY <2>1, <1>0 DEF W!TypeOK
    <2>5. ~lost' /\ EventsAreTrue => EventsAreTrue'
      <3> SUFFICES ASSUME ~lost', EventsAreTrue
                   PROVE  EventsAreTrue'
        OBVIOUS
      <3>1. /\ link = "address" => link' = "address"
            /\ "ap" \in started => "ap" \in started'
        BY <2>4
      <3>2. \A j \in 1 .. Len(new) :
              /\ new[j] = "gotIp" => link' = "address"
              /\ new[j] = "ap" => "ap" \in started'
        BY <2>1, <2>2
      <3> QED BY <2>1, <2>2, <3>1, <3>2, PostKeeps
    <2>6. W!TypeOK'
      BY <1>7, <2>1, <2>3, <1>0, InterfacesOf DEF W!BeginUp, W!Ask, W!params, W!status, W!TypeOK
    <2>7. mode \in {"AccessPointAndStation", "AccessPoint", "Station"}
      BY <1>7, <1>0, InterfacesOf DEF W!BeginUp, W!TypeOK
    <2>8. ~lost' /\ wifiPort' = "Esp" => KeptIsTrue'
      <3> SUFFICES ASSUME ~lost', wifiPort' = "Esp"
                   PROVE  KeptIsTrue'
        OBVIOUS
      <3>1. KeptIsTrue /\ bits' = bits /\ isUp' = isUp /\ answer' = "none"
        BY <1>7, <2>4 DEF W!BeginUp, W!status, WifiInv
      <3> QED BY <3>1, <2>4 DEF KeptIsTrue, W!HasAddress
    <2> QED BY <1>7, <2>4, <2>5, <2>6, <2>7, <2>8 DEF W!BeginUp, W!Ask, W!status, WifiInv, W!BothMeansBoth
  <1>8. CASE W!AccessPointReady \/ W!AddressReady \/ W!UpTimeout
    <2>1. /\ wifiPort' = wifiPort /\ bits' = bits /\ isUp' = isUp /\ started' = started /\ wifiEvents' = wifiEvents
          /\ lost' = lost /\ wifiPc' = "idle" /\ link' = link /\ mode' = mode /\ asked' = asked
          /\ authMode' = authMode /\ skipped' = skipped /\ reached' = reached /\ isProvisioned' = isProvisioned
          /\ (\/ answer' = "Timeout"
              \/ answer' = "Success" /\ asked = "AccessPoint"
              \/ answer' = "Success" /\ "dhcp" \in bits)
      BY <1>8 DEF W!AccessPointReady, W!AddressReady, W!UpTimeout, W!Answer, W!driver, W!status, W!params, W!request
    <2>2. W!TypeOK'
      BY <2>1, <1>0 DEF W!TypeOK
    <2> QED BY <2>1, <2>2, <1>60 DEF KeptIsTrue
  <1>9. CASE W!ConnectStation
    <2>1. /\ wifiPort' = wifiPort /\ bits' = bits /\ isUp' = isUp /\ started' = started /\ wifiEvents' = wifiEvents
          /\ lost' = lost /\ mode' = mode /\ authMode' = authMode /\ asked' = asked /\ skipped' = skipped
          /\ reached' = reached /\ isProvisioned' = isProvisioned /\ wifiPc = "started"
          /\ \/ wifiPc' = "idle" /\ answer' = "Failure" /\ link' = link
             \/ /\ wifiPc' = "address" /\ answer' = answer
                /\ link' = IF link = "down" THEN "connecting" ELSE link
      BY <1>9 DEF W!ConnectStation, W!Answer, W!status, W!params, W!request
    <2>5. (link = "address" => link' = "address") /\ link' \in {link, "connecting"}
      BY <2>1
    <2>2. W!TypeOK'
      BY <2>1, <2>5, <1>0 DEF W!TypeOK
    <2>3. CASE wifiPc' = "idle" /\ answer' = "Failure"
      BY <2>1, <2>2, <2>3, <2>5, <1>60
    <2>4. CASE wifiPc' = "address" /\ answer' = answer
      <3>1. wifiPort = "Esp" /\ answer' = "none"
        BY <2>1, <2>4 DEF WifiInv
      <3>2. EventsAreTrue => EventsAreTrue'
        BY <2>1 DEF EventsAreTrue
      <3>3. KeptIsTrue => KeptIsTrue'
        BY <2>1, <2>5, <3>1 DEF KeptIsTrue
      <3> QED BY <2>1, <2>2, <2>4, <3>1, <3>2, <3>3 DEF WifiInv, W!BothMeansBoth
    <2> QED BY <2>1, <2>3, <2>4
  <1>10. ASSUME W!DropLink, bits' = bits, wifiPc' = wifiPc, answer' = answer, asked' = asked, skipped' = skipped, mode' = mode, authMode' = authMode,
                wifiPort' = wifiPort, isUp' \in BOOLEAN, isProvisioned' \in BOOLEAN, started' \in {started, {}}
         PROVE  WifiInv'
    <2> DEFINE new == IF link = "down" THEN <<>> ELSE <<"disconnected">>
    <2>1. W!Post(new) /\ lost' = TRUE /\ link' = "down" /\ reached' = reached
      BY <1>10 DEF W!DropLink
    <2>3. new \in Seq(Kinds)
      <3>1. <<>> \in Seq(Kinds) /\ <<"disconnected">> \in Seq(Kinds)
        OBVIOUS
      <3> QED BY <3>1
    <2>2. wifiEvents' \in Seq(Kinds)
      BY <2>1, <2>3, PostKeeps
    <2> QED BY <1>10, <2>1, <2>2 DEF WifiInv, W!TypeOK, W!BothMeansBoth
  <1>11. CASE W!NetworkDown \/ W!RadioOff \/ W!Cc32xxDown \/ W!Cc32xxRadioOff
    BY <1>10, <1>11, <1>0 DEF W!NetworkDown, W!RadioOff, W!Cc32xxDown, W!Cc32xxRadioOff, W!status, W!params, W!request, W!TypeOK
  <1>12. ASSUME wifiEvents # <<>>, wifiEvents' = Tail(wifiEvents), link' = link, started' = started
         PROVE  wifiEvents' \in Seq(Kinds) /\ (EventsAreTrue => EventsAreTrue')
    BY <1>12, <1>0, HandledEvents DEF EventsAreTrue
  <1>13. CASE W!EspHandler
    <2>1. /\ wifiEvents # <<>> /\ wifiEvents' = Tail(wifiEvents) /\ link' = link /\ started' = started
          /\ lost' = lost /\ answer' = answer /\ asked' = asked /\ wifiPort' = wifiPort /\ wifiPc' = wifiPc
          /\ mode' = mode /\ authMode' = authMode /\ skipped' = skipped /\ reached' = reached
      BY <1>13 DEF W!EspHandler, W!params, W!request
    <2>2. wifiEvents' \in Seq(Kinds) /\ (EventsAreTrue => EventsAreTrue')
      BY <2>1, <1>12
    <2>3. /\ Head(wifiEvents) \in Kinds
          /\ EventsAreTrue /\ Head(wifiEvents) = "gotIp" => link = "address"
          /\ EventsAreTrue /\ Head(wifiEvents) = "ap" => "ap" \in started
      BY <2>1, <1>0, HandledEvents DEF EventsAreTrue
    <2>4. bits' \subseteq {"ap", "sta", "both", "dhcp"} /\ W!BothMeansBoth'
          /\ ("dhcp" \in bits' => "dhcp" \in bits \/ Head(wifiEvents) = "gotIp")
      BY <1>13, <2>3, <1>0 DEF W!EspHandler, W!TypeOK, W!BothMeansBoth
    <2>5. isUp' \in BOOLEAN /\ isProvisioned' \in BOOLEAN
          /\ (isUp' => isUp \/ Head(wifiEvents) \in {"gotIp", "ap"})
      BY <1>13, <1>0 DEF W!EspHandler, W!TypeOK
    <2>6. EventsAreTrue /\ KeptIsTrue => KeptIsTrue'
      <3> SUFFICES ASSUME EventsAreTrue, KeptIsTrue
                   PROVE  KeptIsTrue'
        OBVIOUS
      <3> DEFINE e == Head(wifiEvents)
      <3>3. (e = "gotIp" => link = "address") /\ (e = "ap" => "ap" \in started)
        BY <2>3
      <3>4. "dhcp" \in bits' => "dhcp" \in bits \/ e = "gotIp"
        BY <2>4
      <3>5. isUp' => isUp \/ e \in {"gotIp", "ap"}
        BY <2>5
      <3> HIDE DEF e, Kinds
      <3>1. "dhcp" \in bits' => link' = "address"
        BY <2>1, <3>3, <3>4, <3>5 DEF KeptIsTrue
      <3>2. isUp' => link' = "address" \/ "ap" \in started'
        BY <2>1, <3>3, <3>4, <3>5 DEF KeptIsTrue
      <3> QED BY <2>1, <3>1, <3>2 DEF KeptIsTrue, W!HasAddress
    <2> QED BY <2>1, <2>2, <2>4, <2>5, <2>6 DEF WifiInv, W!TypeOK
  <1>14. CASE W!Cc32xxHandler
    BY <1>12, <1>14, <1>0 DEF W!Cc32xxHandler, W!status, W!params, W!request, WifiInv, W!TypeOK, W!BothMeansBoth
  <1>15. CASE W!Cc32xxConnect \/ W!Cc32xxProvision \/ W!Cc32xxUp
    BY <1>15, <1>0, InterfacesOf DEF W!Cc32xxConnect, W!Cc32xxProvision, W!Cc32xxUp, W!Ask, W!Answer, W!driver, W!status, W!params, WifiInv,
       W!TypeOK, W!BothMeansBoth
  <1> QED
    BY <1>1, <1>2, <1>3, <1>4, <1>5, <1>6, <1>7, <1>8, <1>9, <1>11, <1>13, <1>14, <1>15, <1>16 DEF W!Next, W!vars, wifiVars

WifiPart == part = "wifi" => WifiInv

LEMMA WifiShow == WifiPart => StationIsUpOnlyWhenReady
  BY InterfacesOf DEF W!TypeOK, WifiPart, WifiInv, KeptIsTrue, W!HasAddress, StationIsUpOnlyWhenReady, W!FirstUpHasAddress, W!UpIsUpAtFirst

LEMMA WifiAlways == PartSpec => []WifiPart
  <1>1. PartInit => WifiPart
    BY WifiStarts DEF PartInit, WifiPart
  <1>2. WifiPart /\ [PartNext]_allVars => WifiPart'
    BY PartSteps, WifiKeeps, Parameters DEF WifiPart, WifiHypothesis
  <1> QED BY <1>1, <1>2, PTL DEF PartSpec

(***************************************************************************)
(* On Esp, as long as no link or interface is lost, networkUp of a station *)
(* succeeds and isUp is set only when there is what they tell of, however  *)
(* the driver's events are spread over the calls.                          *)
(***************************************************************************)
THEOREM StationComesUpReady == PartSpec => []StationIsUpOnlyWhenReady
  BY WifiAlways, WifiShow, PTL

-----------------------------------------------------------------------------
(* The HTTPS client.                                                       *)

\* The client has one user at most.
OneUser == \A u, v \in Users : u = v

Ops == {"connect", "send", "receive", "disconnect"}
CallOf == [user : Users, op : Ops]
AnswerOf == [op : Ops \cup {"none"}, result : {"none", "Success", "Failure", "LimitReached"},
             valid : BOOLEAN, rest : Int]

\* A user has one call at a time, and a frame is being written for the call at the head.
CallsInv ==
  /\ calls \in Seq(CallOf) /\ Len(calls) <= 1
  /\ writing \in [on : BOOLEAN, valid : BOOLEAN, size : 0 .. FrameSize, written : 0 .. FrameSize]
  /\ writing.written <= writing.size
  /\ writing.on => calls # <<>> /\ Head(calls).op = "send"
  /\ ~writing.on => writing = H!NoFrame
  /\ answers \in [Users -> AnswerOf]
  /\ H!SentIsWhole

\* On Esp _connected tells that the ssl context is ready, and who sends, receives or
\* disconnects has seen it.
ConnectedInv ==
  /\ httpsConnected => secure /\ open /\ contexts["ssl"] = "ready"
  /\ trusted => httpsConnected
  /\ calls # <<>> /\ Head(calls).op \in {"send", "receive"} => trusted
  /\ calls # <<>> /\ Head(calls).op = "disconnect" => httpsConnected /\ ~trusted
  /\ "ssl used" \notin misuse

HttpsInv ==
  /\ https \in HttpsPorts
  /\ contexts \in [H!Contexts -> {"raw", "ready", "freed"}]
  /\ httpsConnected \in BOOLEAN /\ open \in BOOLEAN /\ secure \in BOOLEAN /\ trusted \in BOOLEAN
  /\ CallsInv
  /\ https = "Esp" => ConnectedInv

HttpsHypothesis == H!HttpsClientAssumption /\ OneUser

LEMMA StepsAreCounted ==
  /\ DOMAIN H!EspSteps = 1 .. 9 /\ H!StepOf(H!EspSteps, "ip") = 7
  /\ DOMAIN H!PosixSteps = 1 .. 9 /\ H!StepOf(H!PosixSteps, "ip") = 4
  <1>1. DOMAIN H!EspSteps = 1 .. 9 /\ DOMAIN H!PosixSteps = 1 .. 9
    BY DEF H!EspSteps, H!PosixSteps
  <1>2. \A j \in 1 .. 9 : H!EspSteps[j].fails = "ip" <=> j = 7
    BY DEF H!EspSteps
  <1>3. \A j \in 1 .. 9 : H!PosixSteps[j].fails = "ip" <=> j = 4
    BY DEF H!PosixSteps
  <1> QED BY <1>1, <1>2, <1>3 DEF H!StepOf

\* A connectTo that succeeds on Esp has taken every step.
LEMMA EspStepsEnd ==
  ASSUME NEW i \in DOMAIN H!EspSteps
  PROVE  /\ H!ErrorAt(H!EspSteps, i) \in {"Success", "Failure"}
         /\ H!ErrorAt(H!EspSteps, i) = "Success" =>
              /\ H!EspSteps[i].fails = "done"
              /\ i > H!StepOf(H!EspSteps, "ip")
              /\ "ssl" \in H!InitialisedBefore(H!EspSteps, i)
  <1>2. DOMAIN H!EspSteps = 1 .. 9 /\ H!StepOf(H!EspSteps, "ip") = 7
    BY StepsAreCounted
  <1>3. H!EspSteps[8].fails = "handshake" /\ H!EspSteps[9].fails = "done" /\ H!EspSteps[7].fails = "ip"
        /\ H!EspSteps[3].init = {"ssl", "cacert", "conf"}
    BY DEF H!EspSteps
  <1>4. H!ErrorAt(H!EspSteps, i) \in {"Success", "Failure"}
    BY DEF H!ErrorAt
  <1>5. ASSUME H!ErrorAt(H!EspSteps, i) = "Success"
        PROVE  i = 9
    BY <1>2, <1>3, <1>5 DEF H!ErrorAt
  <1>6. "ssl" \in H!InitialisedBefore(H!EspSteps, 9)
    BY <1>3 DEF H!InitialisedBefore
  <1> QED BY <1>2, <1>3, <1>4, <1>5, <1>6

LEMMA HeadGoes ==
  ASSUME NEW s \in Seq(CallOf), Len(s) <= 1, s # <<>>
  PROVE  /\ Tail(s) = <<>> /\ Tail(s) \in Seq(CallOf) /\ Len(Tail(s)) = 0
         /\ Head(s) \in CallOf /\ Head(s).user \in Users
  <1>1. Len(s) = 1 /\ Head(s) = s[1] /\ s[1] \in CallOf
    OBVIOUS
  <1>2. Tail(s) \in Seq(CallOf) /\ Len(Tail(s)) = 0
    BY <1>1
  <1>3. Tail(s) = <<>>
    BY <1>2
  <1>4. s[1].user \in Users
    BY <1>1 DEF CallOf
  <1> QED BY <1>1, <1>2, <1>3, <1>4

LEMMA HttpsStarts == HttpsHypothesis /\ H!Init => HttpsInv
  <1> SUFFICES ASSUME HttpsHypothesis, H!Init
               PROVE  HttpsInv
    OBVIOUS
  <1> USE DEF H!Init
  <1>1. calls = <<>> /\ calls \in Seq(CallOf) /\ Len(calls) = 0
    OBVIOUS
  <1>2. answers \in [Users -> AnswerOf] /\ H!SentIsWhole
    BY DEF AnswerOf, H!SentIsWhole
  <1>3. /\ writing = H!NoFrame
        /\ writing \in [on : BOOLEAN, valid : BOOLEAN, size : 0 .. FrameSize, written : 0 .. FrameSize]
        /\ writing.on = FALSE /\ writing.written <= writing.size
    BY DEF H!NoFrame, HttpsHypothesis, H!HttpsClientAssumption
  <1>4. CallsInv
    BY <1>1, <1>2, <1>3 DEF CallsInv
  <1>5. ConnectedInv
    BY <1>1 DEF ConnectedInv
  <1> QED BY <1>4, <1>5 DEF HttpsInv

\* The call at the head is answered.
LEMMA ReturnKeeps ==
  ASSUME HttpsInv, calls # <<>>, ~writing.on, writing' = writing,
         NEW r \in {"Success", "Failure"}, H!Return(r)
  PROVE  CallsInv' /\ calls' = <<>>
  <1>1. calls \in Seq(CallOf) /\ Len(calls) <= 1 /\ calls' = Tail(calls)
    BY DEF HttpsInv, CallsInv, H!Return
  <1>2. /\ Tail(calls) = <<>> /\ Tail(calls) \in Seq(CallOf) /\ Len(Tail(calls)) = 0
        /\ Head(calls) \in CallOf /\ Head(calls).user \in Users
    BY <1>1, HeadGoes
  <1> DEFINE new == [op |-> Head(calls).op, result |-> r, valid |-> TRUE, rest |-> 0]
  <1>3. answers' = [answers EXCEPT ![Head(calls).user] = new]
    BY DEF H!Return, H!Answer
  <1>4. new \in AnswerOf /\ new.rest = 0
    BY <1>2 DEF AnswerOf, CallOf
  <1> HIDE DEF new
  <1>5. answers' \in [Users -> AnswerOf]
    BY <1>3, <1>4 DEF HttpsInv, CallsInv
  <1>6. H!SentIsWhole'
    BY <1>2, <1>3, <1>4 DEF HttpsInv, CallsInv, H!SentIsWhole
  <1> QED BY <1>1, <1>2, <1>5, <1>6 DEF HttpsInv, CallsInv

LEMMA RunsAlone ==
  ASSUME HttpsInv, NEW o, H!Runs(o)
  PROVE  calls # <<>> /\ Head(calls).op = o /\ ~writing.on
  BY DEF H!Runs, H!NoFrame, HttpsInv, CallsInv

\* Of one user there is no call while it makes one.
LEMMA CallerFindsNothing ==
  ASSUME HttpsHypothesis, HttpsInv, NEW u \in Users, H!Idle(u)
  PROVE  calls = <<>> /\ ~writing.on
  <1>1. calls \in Seq(CallOf) /\ Len(calls) <= 1
    BY DEF HttpsInv, CallsInv
  <1>2. ASSUME calls # <<>>
        PROVE  FALSE
    <2>1. 1 \in DOMAIN calls /\ calls[1] \in CallOf
      BY <1>1, <1>2
    <2>2. calls[1].user = u
      BY <2>1 DEF HttpsHypothesis, OneUser, CallOf
    <2> QED BY <2>1, <2>2 DEF H!Idle
  <1> QED BY <1>2 DEF HttpsInv, CallsInv

LEMMA HttpsKeeps == HttpsHypothesis /\ HttpsInv /\ [H!Next]_httpsVars => HttpsInv'
  <1> SUFFICES ASSUME HttpsHypothesis, HttpsInv, [H!Next]_httpsVars
               PROVE  HttpsInv'
    OBVIOUS
  <1>0. /\ https \in HttpsPorts
        /\ contexts \in [H!Contexts -> {"raw", "ready", "freed"}]
        /\ httpsConnected \in BOOLEAN /\ open \in BOOLEAN /\ secure \in BOOLEAN /\ trusted \in BOOLEAN
        /\ CallsInv
        /\ https = "Esp" => ConnectedInv
    BY DEF HttpsInv
  <1>1. CASE UNCHANGED httpsVars
    BY <1>0, <1>1 DEF httpsVars, HttpsInv, CallsInv, ConnectedInv, H!SentIsWhole, H!NoFrame
  <1>2. ASSUME NEW u \in Users, H!Call(u)
        PROVE  HttpsInv'
    <2>1. calls = <<>> /\ ~writing.on
      BY <1>2, CallerFindsNothing DEF H!Call
    <2>2. /\ https' = https /\ contexts' = contexts /\ httpsConnected' = httpsConnected /\ open' = open
          /\ secure' = secure /\ misuse' = misuse /\ writing' = writing
      BY <1>2 DEF H!Call, H!connection
    <2>3. ASSUME NEW o \in Ops, H!AddEvent(u, o)
          PROVE  /\ CallsInv'
                 /\ calls' = <<>> \/ (calls' # <<>> /\ Head(calls').op = o)
      <3>1. CASE calls' = Append(calls, [user |-> u, op |-> o]) /\ UNCHANGED answers
        <4> DEFINE call == [user |-> u, op |-> o]
        <4>1. call \in CallOf /\ call.op = o
          BY <2>3 DEF CallOf
        <4> HIDE DEF call
        <4>2. calls' = <<call>>
          BY <2>1, <3>1 DEF call
        <4>3. calls' \in Seq(CallOf) /\ Len(calls') = 1 /\ Head(calls') = call /\ calls' # <<>>
          BY <4>1, <4>2
        <4> QED BY <1>0, <2>1, <2>2, <3>1, <4>1, <4>3 DEF CallsInv, H!SentIsWhole, H!NoFrame
      <3>2. CASE H!Answer(u, o, "LimitReached") /\ UNCHANGED calls
        <4> DEFINE new == [op |-> o, result |-> "LimitReached", valid |-> TRUE, rest |-> 0]
        <4>1. new \in AnswerOf /\ new.rest = 0 /\ answers' = [answers EXCEPT ![u] = new]
          BY <2>3, <3>2 DEF AnswerOf, H!Answer
        <4> HIDE DEF new
        <4>2. answers' \in [Users -> AnswerOf] /\ H!SentIsWhole'
          BY <1>0, <4>1 DEF CallsInv, H!SentIsWhole
        <4> QED BY <1>0, <2>1, <2>2, <3>2, <4>2 DEF CallsInv, H!NoFrame
      <3> QED BY <2>3, <3>1, <3>2 DEF H!AddEvent
    <2>4. CASE H!AddEvent(u, "connect") /\ UNCHANGED trusted
      <3>1. CallsInv' /\ (calls' = <<>> \/ (calls' # <<>> /\ Head(calls').op = "connect"))
        BY <2>3, <2>4 DEF Ops
      <3> QED BY <1>0, <2>2, <2>4, <3>1 DEF HttpsInv, ConnectedInv
    <2>5. ASSUME NEW o \in {"send", "receive"}, trusted, H!AddEvent(u, o), UNCHANGED trusted
          PROVE  HttpsInv'
      <3>1. CallsInv' /\ (calls' = <<>> \/ (calls' # <<>> /\ Head(calls').op = o))
        BY <2>3, <2>5 DEF Ops
      <3> QED BY <1>0, <2>2, <2>5, <3>1 DEF HttpsInv, ConnectedInv
    <2>6. CASE httpsConnected /\ H!AddEvent(u, "disconnect") /\ trusted' = FALSE
      <3>1. CallsInv' /\ (calls' = <<>> \/ (calls' # <<>> /\ Head(calls').op = "disconnect"))
        BY <2>3, <2>6 DEF Ops
      <3> QED BY <1>0, <2>2, <2>6, <3>1 DEF HttpsInv, ConnectedInv
    <2>7. CASE H!Answer(u, "disconnect", "Success") /\ trusted' = FALSE /\ UNCHANGED calls
      <3> DEFINE new == [op |-> "disconnect", result |-> "Success", valid |-> TRUE, rest |-> 0]
      <3>1. new \in AnswerOf /\ new.rest = 0 /\ answers' = [answers EXCEPT ![u] = new]
        BY <2>7 DEF AnswerOf, H!Answer, Ops
      <3> HIDE DEF new
      <3>2. answers' \in [Users -> AnswerOf] /\ H!SentIsWhole'
        BY <1>0, <3>1 DEF CallsInv, H!SentIsWhole
      <3>3. CallsInv'
        BY <1>0, <2>1, <2>2, <2>7, <3>2 DEF CallsInv, H!NoFrame
      <3> QED BY <1>0, <2>1, <2>2, <2>7, <3>3 DEF HttpsInv, ConnectedInv
    <2> QED BY <1>2, <2>4, <2>5, <2>6, <2>7 DEF H!Call
  <1>3. ASSUME NEW flag \in BOOLEAN, H!Disconnect(flag), https = "Esp" => flag = FALSE
        PROVE  HttpsInv'
    <2>1. /\ calls # <<>> /\ Head(calls).op = "disconnect" /\ ~writing.on
      BY <1>3, RunsAlone DEF H!Disconnect
    <2>2. /\ https' = https /\ open' = open /\ writing' = writing /\ trusted' = trusted
          /\ contexts' = H!freeSslContexts /\ httpsConnected' = flag /\ secure' = FALSE
          /\ misuse' = misuse \cup H!FreesRaw \cup H!UsesSsl
          /\ \E r \in {"Success", "Failure"} : H!Return(r)
      BY <1>3 DEF H!Disconnect
    <2>3. CallsInv' /\ calls' = <<>>
      BY <2>1, <2>2, ReturnKeeps
    <2>4. contexts' \in [H!Contexts -> {"raw", "ready", "freed"}]
      BY <2>2 DEF H!freeSslContexts
    <2>5. ASSUME https = "Esp"
          PROVE  ConnectedInv'
      <3>1. httpsConnected' = FALSE /\ ~trusted /\ "ssl used" \notin misuse /\ contexts["ssl"] = "ready"
        BY <1>0, <1>3, <2>1, <2>2, <2>5 DEF ConnectedInv
      <3>2. "ssl used" \notin misuse'
        BY <2>2, <3>1 DEF H!FreesRaw, H!UsesSsl
      <3> QED BY <2>2, <2>3, <3>1, <3>2 DEF ConnectedInv
    <2> QED BY <1>0, <2>2, <2>3, <2>4, <2>5 DEF HttpsInv
  <1>4. ASSUME NEW steps \in {H!EspSteps, H!PosixSteps}, NEW i \in DOMAIN steps, H!Connect(steps, i),
               https = "Esp" => steps = H!EspSteps
        PROVE  HttpsInv'
    <2> DEFINE before == IF httpsConnected THEN H!freeSslContexts ELSE contexts
               inits  == H!InitialisedBefore(steps, i)
               ip     == H!StepOf(steps, "ip")
    <2>1. /\ https' = https /\ writing' = writing /\ H!Runs("connect")
          /\ contexts' = [x \in H!Contexts |-> IF x \in inits THEN "ready" ELSE before[x]]
          /\ misuse' = misuse \cup (IF httpsConnected THEN H!FreesRaw \cup H!UsesSsl ELSE {})
                         \cup (IF \E x \in inits : before[x] = "ready" THEN {"ready lost"} ELSE {})
          /\ open' = (IF i < ip THEN open ELSE i > ip)
          /\ secure' = (steps[i].fails = "done")
          /\ httpsConnected' = (H!ErrorAt(steps, i) = "Success")
          /\ trusted' = (H!ErrorAt(steps, i) = "Success")
          /\ H!Return(H!ErrorAt(steps, i))
      BY <1>4 DEF H!Connect
    <2>2. calls # <<>> /\ Head(calls).op = "connect" /\ ~writing.on
      BY <2>1, RunsAlone
    <2>3. H!ErrorAt(steps, i) \in {"Success", "Failure"}
      BY DEF H!ErrorAt
    <2>4. CallsInv' /\ calls' = <<>>
      BY <2>1, <2>2, <2>3, ReturnKeeps
    <2>5. before \in [H!Contexts -> {"raw", "ready", "freed"}]
      BY <1>0 DEF H!freeSslContexts
    <2> HIDE DEF before
    <2>6. contexts' \in [H!Contexts -> {"raw", "ready", "freed"}]
      BY <2>1, <2>5
    <2>9. i \in Int /\ ip \in Int
      BY StepsAreCounted
    <2> HIDE DEF ip, inits
    <2>10. i < ip => open' = open
      BY <2>1
    <2>11. ASSUME i > ip
           PROVE  open' = TRUE
      <3>1. ~(i < ip) /\ (i > ip) = TRUE
        BY <2>9, <2>11
      <3>2. open' = (i > ip)
        BY <2>1, <3>1
      <3> QED BY <3>1, <3>2
    <2>12. ASSUME i = ip
           PROVE  open' = FALSE
      <3>1. ~(i < ip) /\ (i > ip) = FALSE
        BY <2>9, <2>12
      <3>2. open' = (i > ip)
        BY <2>1, <3>1
      <3> QED BY <3>1, <3>2
    <2>7. httpsConnected' \in BOOLEAN /\ open' \in BOOLEAN /\ secure' \in BOOLEAN /\ trusted' \in BOOLEAN
      <3>1. open' \in BOOLEAN
        <4>1. CASE i < ip
          BY <2>10, <4>1, <1>0
        <4>2. CASE i > ip
          BY <2>11, <4>2
        <4>3. CASE i = ip
          BY <2>12, <4>3
        <4> QED BY <2>9, <4>1, <4>2, <4>3
      <3> QED BY <2>1, <3>1
    <2>8. ASSUME https = "Esp"
          PROVE  ConnectedInv'
      <3>1. steps = H!EspSteps
        BY <1>4, <2>8
      <3>2. httpsConnected' => secure' /\ open' /\ contexts'["ssl"] = "ready"
        <4>1. H!ErrorAt(steps, i) = "Success" =>
                steps[i].fails = "done" /\ i > ip /\ "ssl" \in inits
          BY <3>1, EspStepsEnd DEF ip, inits
        <4>2. "ssl" \in H!Contexts
          BY DEF H!Contexts
        <4>3. (steps[i].fails = "done") /\ i > ip /\ "ssl" \in inits => secure' /\ open' /\ contexts'["ssl"] = "ready"
          <5>1. i > ip => open' = TRUE
            BY <2>11
          <5>2. (steps[i].fails = "done") => secure' = TRUE
            BY <2>1
          <5>3. "ssl" \in inits => contexts'["ssl"] = "ready"
            BY <2>1, <4>2
          <5> QED BY <5>1, <5>2, <5>3
        <4>4. httpsConnected' => H!ErrorAt(steps, i) = "Success"
          BY <2>1
        <4> QED BY <4>1, <4>3, <4>4
      <3>3. "ssl used" \notin misuse'
        <4>1. "ssl used" \notin misuse /\ (httpsConnected => contexts["ssl"] = "ready")
          BY <1>0, <2>8 DEF ConnectedInv
        <4> QED BY <2>1, <4>1 DEF H!FreesRaw, H!UsesSsl
      <3> QED BY <2>1, <2>4, <3>2, <3>3 DEF ConnectedInv
    <2> QED BY <1>0, <2>1, <2>4, <2>6, <2>7, <2>8 DEF HttpsInv
  <1>5. CASE H!BeginSend
    <2>1. /\ UNCHANGED <<https, contexts, httpsConnected, open, secure, calls, answers, trusted>>
          /\ misuse' = misuse \cup H!UsesSsl
          /\ \E size \in 0 .. FrameSize : writing' = [on |-> TRUE, valid |-> size > 0, size |-> size, written |-> 0]
      BY <1>5 DEF H!BeginSend
    <2>2. calls # <<>> /\ Head(calls).op = "send" /\ ~writing.on
      BY <1>5, RunsAlone DEF H!BeginSend
    <2>3. /\ writing' \in [on : BOOLEAN, valid : BOOLEAN, size : 0 .. FrameSize, written : 0 .. FrameSize]
          /\ writing'.on = TRUE /\ writing'.written <= writing'.size
      <3>1. PICK size \in 0 .. FrameSize : writing' = [on |-> TRUE, valid |-> size > 0, size |-> size, written |-> 0]
        BY <2>1
      <3>2. (size > 0) \in BOOLEAN /\ 0 \in 0 .. FrameSize /\ 0 <= size
        BY DEF HttpsHypothesis, H!HttpsClientAssumption
      <3> QED BY <3>1, <3>2
    <2>4. CallsInv'
      BY <1>0, <2>1, <2>2, <2>3 DEF CallsInv, H!SentIsWhole
    <2>5. ASSUME https = "Esp"
          PROVE  ConnectedInv'
      <3>1. ConnectedInv /\ contexts["ssl"] = "ready" /\ "ssl used" \notin misuse
        BY <1>0, <2>2, <2>5 DEF ConnectedInv
      <3>2. "ssl used" \notin misuse'
        BY <2>1, <3>1 DEF H!UsesSsl
      <3> QED BY <2>1, <3>1, <3>2 DEF ConnectedInv
    <2> QED BY <1>0, <2>1, <2>4, <2>5 DEF HttpsInv
  <1>6. CASE H!Round
    <2>1. /\ writing.on /\ UNCHANGED <<https, contexts, httpsConnected, open, secure, misuse, trusted>>
      BY <1>6 DEF H!Round, H!connection
    <2>2. /\ calls # <<>> /\ Head(calls).op = "send" /\ calls \in Seq(CallOf) /\ Len(calls) <= 1
          /\ writing \in [on : BOOLEAN, valid : BOOLEAN, size : 0 .. FrameSize, written : 0 .. FrameSize]
      BY <1>0, <2>1 DEF CallsInv
    <2>3. writing.written \in Nat /\ writing.size \in 0 .. FrameSize /\ writing.valid \in BOOLEAN
      BY <2>2
    <2>4. ASSUME NEW n \in 0 .. writing.size - writing.written, NEW r \in {"Success", "Failure"},
                 r = "Success" => writing.size - writing.written - n = 0, H!EndSend(r, n)
          PROVE  HttpsInv'
      <3> DEFINE rest == writing.size - writing.written - n
                 new == [op |-> "send", result |-> r, valid |-> writing.valid, rest |-> rest]
      <3>1. /\ writing' = H!NoFrame /\ calls' = Tail(calls)
            /\ answers' = [answers EXCEPT ![Head(calls).user] = new]
        BY <2>4 DEF H!EndSend
      <3>2. rest \in Int /\ (r = "Success" => rest = 0)
        BY <2>3, <2>4
      <3> HIDE DEF rest
      <3>3. new \in AnswerOf /\ (new.result = "Success" => new.rest = 0)
        BY <2>3, <3>2 DEF AnswerOf, Ops
      <3> HIDE DEF new
      <3>4. /\ calls' = <<>> /\ calls' \in Seq(CallOf) /\ Len(calls') = 0
            /\ Head(calls).user \in Users
        BY <2>2, <3>1, HeadGoes
      <3>5. answers' \in [Users -> AnswerOf] /\ H!SentIsWhole'
        BY <1>0, <3>1, <3>3, <3>4 DEF CallsInv, H!SentIsWhole
      <3>6. /\ writing' \in [on : BOOLEAN, valid : BOOLEAN, size : 0 .. FrameSize, written : 0 .. FrameSize]
            /\ writing'.on = FALSE /\ writing'.written <= writing'.size
        BY <3>1 DEF H!NoFrame, HttpsHypothesis, H!HttpsClientAssumption
      <3>7. CallsInv'
        <4>1. (~writing.on => writing = H!NoFrame)'
          BY <3>1 DEF H!NoFrame
        <4>2. (writing.on => calls # <<>> /\ Head(calls).op = "send")'
          BY <3>6
        <4> QED BY <3>4, <3>5, <3>6, <4>1, <4>2 DEF CallsInv
      <3>8. https = "Esp" => ConnectedInv'
        BY <1>0, <2>1, <3>4 DEF ConnectedInv
      <3> QED BY <1>0, <2>1, <3>7, <3>8 DEF HttpsInv
    <2>5. ASSUME NEW n \in 0 .. writing.size - writing.written, writing.written + n < writing.size,
                 writing' = [writing EXCEPT !.written = @ + n], UNCHANGED <<calls, answers>>
          PROVE  HttpsInv'
      <3> DEFINE more == writing.written + n
      <3>1. more \in 0 .. FrameSize /\ more <= writing.size
        BY <2>3, <2>5 DEF HttpsHypothesis, H!HttpsClientAssumption
      <3>2. writing' = [writing EXCEPT !.written = more]
        BY <2>5
      <3> HIDE DEF more
      <3>3. /\ writing' \in [on : BOOLEAN, valid : BOOLEAN, size : 0 .. FrameSize, written : 0 .. FrameSize]
            /\ writing'.on = writing.on /\ writing'.written <= writing'.size
        BY <2>2, <3>1, <3>2
      <3>4. CallsInv'
        BY <1>0, <2>1, <2>2, <2>5, <3>3 DEF CallsInv, H!SentIsWhole
      <3>5. https = "Esp" => ConnectedInv'
        BY <1>0, <2>1, <2>5 DEF ConnectedInv
      <3> QED BY <1>0, <2>1, <3>4, <3>5 DEF HttpsInv
    <2>6. CASE H!EndSend("Failure", 0)
      <3>1. 0 \in 0 .. writing.size - writing.written
        BY <1>0, <2>3 DEF CallsInv
      <3> QED BY <2>4, <2>6, <3>1
    <2>7. ASSUME NEW n \in 0 .. writing.size - writing.written,
                 IF H!NoError(n) /\ writing.written + n < writing.size
                 THEN writing' = [writing EXCEPT !.written = @ + n] /\ UNCHANGED <<calls, answers>>
                 ELSE H!EndSend(IF H!NoError(n) THEN "Success" ELSE "Failure", n)
          PROVE  HttpsInv'
      <3>1. CASE H!NoError(n) /\ writing.written + n < writing.size
        BY <2>5, <2>7, <3>1
      <3>2. CASE H!NoError(n) /\ ~(writing.written + n < writing.size)
        <4>1. writing.size - writing.written - n = 0
          BY <2>3, <2>7, <3>2
        <4> QED BY <2>4, <2>7, <3>2, <4>1
      <3>3. CASE ~H!NoError(n)
        BY <2>4, <2>7, <3>3
      <3> QED BY <3>1, <3>2, <3>3
    <2> QED BY <1>6, <2>6, <2>7 DEF H!Round
  <1>7. CASE H!Receive
    <2>1. /\ UNCHANGED <<https, contexts, httpsConnected, open, secure, writing, trusted>>
          /\ misuse' = misuse \cup H!UsesSsl
          /\ \E r \in {"Success", "Failure"} : H!Return(r)
      BY <1>7 DEF H!Receive
    <2>2. calls # <<>> /\ Head(calls).op = "receive" /\ ~writing.on
      BY <1>7, RunsAlone DEF H!Receive
    <2>3. CallsInv' /\ calls' = <<>>
      BY <2>1, <2>2, ReturnKeeps
    <2>4. ASSUME https = "Esp"
          PROVE  ConnectedInv'
      <3>1. ConnectedInv /\ contexts["ssl"] = "ready" /\ "ssl used" \notin misuse
        BY <1>0, <2>2, <2>4 DEF ConnectedInv
      <3>2. "ssl used" \notin misuse'
        BY <2>1, <3>1 DEF H!UsesSsl
      <3> QED BY <2>1, <2>3, <3>1, <3>2 DEF ConnectedInv
    <2> QED BY <1>0, <2>1, <2>3, <2>4 DEF HttpsInv
  <1>8. CASE H!Destroy
    <2>1. /\ UNCHANGED <<https, calls, writing, answers>> /\ calls = <<>>
          /\ misuse' = misuse \cup H!FreesRaw \cup (IF open THEN {"socket lost"} ELSE {})
          /\ contexts' = [x \in H!Contexts |-> "raw"]
          /\ httpsConnected' = FALSE /\ open' = FALSE /\ secure' = FALSE /\ trusted' = FALSE
      BY <1>8 DEF H!Destroy, H!Nobody
    <2>2. CallsInv'
      BY <1>0, <2>1 DEF CallsInv, H!SentIsWhole, H!NoFrame
    <2>3. https = "Esp" => ConnectedInv'
      BY <1>0, <2>1 DEF ConnectedInv, H!FreesRaw
    <2> QED BY <1>0, <2>1, <2>2, <2>3 DEF HttpsInv
  <1>9. CASE H!PosixConnect \/ H!EspConnect
    BY <1>4, <1>9 DEF H!PosixConnect, H!EspConnect
  <1>10. CASE H!PosixSend \/ H!EspSend
    BY <1>6, <1>10 DEF H!PosixSend, H!EspSend
  <1>11. CASE H!PosixDisconnect \/ H!EspDisconnect
    BY <1>3, <1>11 DEF H!PosixDisconnect, H!EspDisconnect
  <1> QED BY <1>1, <1>2, <1>5, <1>7, <1>8, <1>9, <1>10, <1>11 DEF H!Next, H!vars, httpsVars

HttpsPart == part = "https" => HttpsInv

LEMMA HttpsShow == HttpsPart => HttpsIsSetUpBeforeUse
  BY DEF HttpsPart, HttpsInv, CallsInv, ConnectedInv, HttpsIsSetUpBeforeUse, H!EspConnectedIsSecure,
     H!ConnectedIsSecure, H!EspUsesReady

LEMMA HttpsAlways == OneUser /\ PartSpec => []HttpsPart
  <1> SUFFICES ASSUME OneUser
               PROVE  PartSpec => []HttpsPart
    OBVIOUS
  <1>0. HttpsHypothesis
    BY Parameters DEF HttpsHypothesis
  <1>1. PartInit => HttpsPart
    BY <1>0, HttpsStarts DEF PartInit, HttpsPart
  <1>2. HttpsPart /\ [PartNext]_allVars => HttpsPart'
    BY <1>0, PartSteps, HttpsKeeps DEF HttpsPart
  <1> QED BY <1>1, <1>2, PTL DEF PartSpec

(***************************************************************************)
(* A client on Esp that says it is connected has verified the server, the  *)
(* ssl context is used only while it is ready, whatever step of a connect  *)
(* fails, and on both ports a send that succeeds has written every segment.*)
(***************************************************************************)
THEOREM ClientIsSetUpBeforeUse == OneUser /\ PartSpec => []HttpsIsSetUpBeforeUse
  BY HttpsAlways, HttpsShow, PTL

-----------------------------------------------------------------------------
(* The sockets.                                                            *)

ClientOps == {"connect", "open", "send", "receive"}
ServerOps == {"accept", "serve", "close", "listen"}

\* An event is of a caller that waits for it, who has no other one.
EventsInv ==
  /\ \A i \in 1 .. Len(socketsQueue) :
       /\ socketsQueue[i].waits /\ socketsQueue[i].who \in waiting
       /\ cur.op # "none" => socketsQueue[i].who # cur.who
       /\ \A j \in 1 .. Len(socketsQueue) : socketsQueue[i].who = socketsQueue[j].who => i = j
  /\ cur.op # "none" => cur.waits /\ cur.who \in waiting
  /\ cur.op = "none" => cur.held = S!NoSocket
  /\ waiting \cap leaving = {}

\* What the event of a client does, and what it holds once it has started.
ClientEvents ==
  /\ \A i \in 1 .. Len(socketsQueue) :
       socketsQueue[i].who \in Clients =>
         socketsQueue[i].op \in {"connect", "send", "receive"} /\ socketsQueue[i].held = S!NoSocket
  /\ cur.op # "none" /\ cur.who \in Clients =>
       /\ cur.op \in ClientOps
       /\ cur.held = IF cur.op = "open" THEN S!NoSocket ELSE sock[cur.who]

\* What the event of the server does follows from where listenTo is.
ServerEvent(e) ==
  /\ listening = "no" =>
       /\ e.op \in {"accept", "serve", "close"}
       /\ e.held # S!NoSocket => astray \/ fds[e.held] = "accepted"
  /\ listening = "closing" => e.op = "close" /\ e.held = listener
  /\ listening = "opening" => e.op = "listen" /\ e.held = S!NoSocket

ServerEvents ==
  /\ \A i \in 1 .. Len(socketsQueue) : socketsQueue[i].who = "server" => ServerEvent(socketsQueue[i])
  /\ cur.op # "none" /\ cur.who = "server" => ServerEvent(cur)

\* The listener is known, and there is one whenever no listenTo is under way or its first
\* half is not done; in the second half there is none.
ListenerInv ==
  ~astray =>
    /\ \A d \in S!Descriptors : fds[d] = "listener" => listener = d
    /\ (listening = "no" \/ (listening = "closing" /\ "server" \in waiting)) /\ listener # S!NoSocket =>
         fds[listener] = "listener"
    /\ listening = "opening" \/ (listening = "closing" /\ "server" \notin waiting) =>
         \A d \in S!Descriptors : fds[d] # "listener"

\* The connected sockets are the accepted ones.
ConnectionsInv ==
  /\ socketsStatus.activeConnections = Len(socketsConnected) /\ Len(socketsConnected) <= MaxConnected
  /\ \A d \in S!Descriptors : fds[d] = "accepted" => \E i \in 1 .. Len(socketsConnected) : socketsConnected[i] = d
  /\ ~astray => \A i, j \in 1 .. Len(socketsConnected) :
       /\ fds[socketsConnected[i]] = "accepted"
       /\ socketsConnected[i] = socketsConnected[j] => i = j

\* What a client takes for its socket is its own, and where disconnect closes every socket
\* no other one is.
ClientsInv ==
  /\ ~astray => \A c \in Clients : c \notin leaving /\ sock[c] # S!NoSocket => fds[sock[c]] = c
  /\ socketsPort # "Esp" => \A d \in S!Descriptors : fds[d] \in Clients =>
       sock[fds[d]] = d /\ fds[d] \notin leaving /\ ~(cur.op = "open" /\ cur.who = fds[d])

SocketsInv ==
  /\ S!TypeOK /\ EventsInv /\ ClientEvents /\ ServerEvents /\ ListenerInv /\ ConnectionsInv /\ ClientsInv

SocketsHypothesis == S!SocketsAssumption /\ Habits = {}

\* The names of the owners of a descriptor are no clients.
LEMMA NamesDiffer ==
  ASSUME SocketsHypothesis, NEW c \in Clients
  PROVE  c # "free" /\ c # "listener" /\ c # "accepted" /\ c # "file" /\ c # "pipe" /\ c # "server"
  BY DEF SocketsHypothesis, S!SocketsAssumption

LEMMA DescriptorsAreNumbers ==
  ASSUME SocketsHypothesis
  PROVE  S!Descriptors \subseteq Nat /\ S!NoSocket \notin S!Descriptors /\ IsFiniteSet(S!Descriptors)
  <1>1. LastDescriptor \in Nat
    BY DEF SocketsHypothesis, S!SocketsAssumption
  <1>2. IsFiniteSet(0 .. LastDescriptor)
    BY <1>1, FS_Interval
  <1> QED BY <1>1, <1>2 DEF S!Descriptors, S!NoSocket

Smaller == OpToRel(LAMBDA m, n : m < n, Nat)

LEMMA MinIsThere ==
  ASSUME NEW ns \in SUBSET Nat, ns # {}
  PROVE  S!Min(ns) \in ns /\ \A n \in ns : S!Min(ns) <= n
  <1>1. IsWellFoundedOn(Smaller, Nat)
    BY NatLessThanWellFounded DEF OpToRel, Smaller
  <1>2. PICK m \in ns : \A n \in ns : ~(<<n, m>> \in Smaller)
    BY <1>1, WFMin
  <1>3. \A n \in ns : m <= n
    <2> SUFFICES ASSUME NEW n \in ns PROVE m <= n
      OBVIOUS
    <2>1. n \in Nat /\ m \in Nat /\ ~(<<n, m>> \in Smaller)
      BY <1>2
    <2>2. ~(n < m)
      BY <2>1 DEF Smaller, OpToRel
    <2> QED BY <2>1, <2>2
  <1> QED BY <1>2, <1>3 DEF S!Min

Owners == Clients \cup {"free", "listener", "accepted", "file", "pipe"}

\* A descriptor is taken: the lowest that is free.
LEMMA TakeGives ==
  ASSUME SocketsHypothesis, fds \in [S!Descriptors -> Owners], S!Free # {}, NEW owner \in Owners, S!Take(owner)
  PROVE  /\ S!Min(S!Free) \in S!Descriptors /\ fds[S!Min(S!Free)] = "free"
         /\ fds' \in [S!Descriptors -> Owners] /\ fds'[S!Min(S!Free)] = owner
         /\ \A x \in S!Descriptors : x # S!Min(S!Free) => fds'[x] = fds[x]
  <1>1. S!Free \in SUBSET Nat
    BY DescriptorsAreNumbers DEF S!Free
  <1>2. S!Min(S!Free) \in S!Free
    BY <1>1, MinIsThere
  <1> DEFINE m == S!Min(S!Free)
  <1>3. m \in S!Descriptors /\ fds[m] = "free" /\ fds' = [fds EXCEPT ![m] = owner]
    BY <1>2 DEF S!Free, S!Take
  <1> HIDE DEF m
  <1>4. /\ fds' \in [S!Descriptors -> Owners] /\ fds'[m] = owner
        /\ \A x \in S!Descriptors : x # m => fds'[x] = fds[x]
    BY <1>3
  <1> QED BY <1>3, <1>4 DEF m

\* A descriptor is closed, if it is open.
LEMMA ReleaseFrees ==
  ASSUME SocketsHypothesis, fds \in [S!Descriptors -> Owners], refused \subseteq S!Descriptors,
         NEW d \in S!Descriptors \cup {S!NoSocket}, S!Release(d)
  PROVE  /\ fds' \in [S!Descriptors -> Owners] /\ refused' \subseteq S!Descriptors
         /\ \A x \in S!Descriptors : x # d => fds'[x] = fds[x]
         /\ d \in S!Descriptors => fds'[d] = "free"
         /\ S!IsOpen(d) <=> d \in S!Descriptors /\ fds[d] # "free"
  <1>1. S!IsOpen(d) <=> d \in S!Descriptors /\ fds[d] # "free"
    BY DescriptorsAreNumbers DEF S!IsOpen
  <1>2. CASE S!IsOpen(d)
    BY <1>1, <1>2 DEF S!Release, Owners
  <1>3. CASE ~S!IsOpen(d)
    BY <1>1, <1>3 DEF S!Release
  <1> QED BY <1>1, <1>2, <1>3

\* A client's is left open only on Esp.
LEMMA ReleaseClientFrees ==
  ASSUME SocketsHypothesis, fds \in [S!Descriptors -> Owners], refused \subseteq S!Descriptors,
         socketsPort \in SocketPorts,
         NEW d \in S!Descriptors \cup {S!NoSocket}, S!ReleaseClient(d)
  PROVE  /\ fds' \in [S!Descriptors -> Owners] /\ refused' \subseteq S!Descriptors
         /\ \A x \in S!Descriptors : x # d => fds'[x] = fds[x]
         /\ d \in S!Descriptors => fds'[d] \in {"free", fds[d]}
         /\ socketsPort # "Esp" /\ d \in S!Descriptors => fds'[d] = "free"
  <1>1. socketsPort # "Esp" => S!ClientCalls.closesRefused = TRUE
    <2>1. socketsPort \in {"Linux", "Darwin", "Esp", "Cc32xx"}
      BY DEF SocketsHypothesis, S!SocketsAssumption
    <2> QED BY <2>1 DEF S!ClientCalls, S!LinuxClientCalls, S!DarwinClientCalls, S!EspClientCalls, S!Cc32xxClientCalls
  <1>2. CASE S!Release(d)
    BY <1>2, ReleaseFrees
  <1>3. CASE socketsPort = "Esp" /\ UNCHANGED <<fds, refused>>
    BY <1>3
  <1> QED BY <1>1, <1>2, <1>3 DEF S!ReleaseClient

LEMMA JoinedAt ==
  ASSUME NEW D, NEW a \in Seq(D), NEW b \in Seq(D)
  PROVE  /\ a \o b \in Seq(D) /\ Len(a \o b) = Len(a) + Len(b)
         /\ \A i \in 1 .. Len(a) + Len(b) : (a \o b)[i] = IF i <= Len(a) THEN a[i] ELSE b[i - Len(a)]
  OBVIOUS

\* What erase() leaves.
LEMMA EraseLeaves ==
  ASSUME NEW D, NEW s \in Seq(D), NEW d
  PROVE  /\ S!Erase(s, d) \in Seq(D) /\ Len(S!Erase(s, d)) <= Len(s)
         /\ \A i \in 1 .. Len(S!Erase(s, d)) : \E j \in 1 .. Len(s) : S!Erase(s, d)[i] = s[j]
         /\ \A j \in 1 .. Len(s) : s[j] # d => \E i \in 1 .. Len(S!Erase(s, d)) : S!Erase(s, d)[i] = s[j]
         /\ (\A i, j \in 1 .. Len(s) : s[i] = s[j] => i = j) =>
              /\ \A i, j \in 1 .. Len(S!Erase(s, d)) : S!Erase(s, d)[i] = S!Erase(s, d)[j] => i = j
              /\ \A i \in 1 .. Len(S!Erase(s, d)) : S!Erase(s, d)[i] # d
  <1> DEFINE found == {i \in 1 .. Len(s) : s[i] = d}
             m == S!Min(found)
             t == S!Erase(s, d)
  <1>1. CASE found = {}
    <2>1. t = s /\ \A i \in 1 .. Len(s) : s[i] # d
      BY <1>1 DEF S!Erase
    <2> HIDE DEF t
    <2>2. /\ t \in Seq(D) /\ Len(t) <= Len(s)
          /\ \A i \in 1 .. Len(t) : \E j \in 1 .. Len(s) : t[i] = s[j]
          /\ \A j \in 1 .. Len(s) : s[j] # d => \E i \in 1 .. Len(t) : t[i] = s[j]
          /\ (\A i, j \in 1 .. Len(s) : s[i] = s[j] => i = j) =>
               /\ \A i, j \in 1 .. Len(t) : t[i] = t[j] => i = j
               /\ \A i \in 1 .. Len(t) : t[i] # d
      BY <2>1
    <2> QED BY <2>2 DEF t
  <1>2. CASE found # {}
    <2>1. m \in found
      BY <1>2, MinIsThere
    <2>2. m \in 1 .. Len(s) /\ s[m] = d
      BY <2>1
    <2>3. t = SubSeq(s, 1, m - 1) \o SubSeq(s, m + 1, Len(s))
      BY <1>2 DEF S!Erase, S!RemoveAt
    <2> HIDE DEF found, m, t
    <2>4. /\ t \in Seq(D) /\ Len(t) = Len(s) - 1
          /\ \A i \in 1 .. Len(t) : t[i] = IF i < m THEN s[i] ELSE s[i + 1]
      <3> DEFINE a == SubSeq(s, 1, m - 1)
                 b == SubSeq(s, m + 1, Len(s))
      <3>0. Len(s) \in Nat /\ m \in 1 .. Len(s)
        BY <2>2
      <3>1. a \in Seq(D) /\ Len(a) = m - 1 /\ \A i \in 1 .. m - 1 : a[i] = s[i]
        BY <3>0
      <3>2. b \in Seq(D) /\ Len(b) = Len(s) - m /\ \A i \in 1 .. Len(s) - m : b[i] = s[m + i]
        BY <3>0
      <3>3. t = a \o b
        BY <2>3
      <3> HIDE DEF a, b
      <3>4. t \in Seq(D) /\ Len(t) = Len(a) + Len(b)
            /\ \A i \in 1 .. Len(a) + Len(b) : t[i] = IF i <= Len(a) THEN a[i] ELSE b[i - Len(a)]
        BY <3>1, <3>2, <3>3, JoinedAt
      <3>5. ASSUME NEW i \in 1 .. Len(t)
            PROVE  t[i] = IF i < m THEN s[i] ELSE s[i + 1]
        <4>1. CASE i < m
          <5>1. i \in 1 .. m - 1 /\ i <= Len(a) /\ i \in 1 .. Len(a) + Len(b)
            BY <3>0, <3>1, <3>2, <3>4, <4>1
          <5> QED BY <3>1, <3>4, <4>1, <5>1
        <4>2. CASE ~(i < m)
          <5>1. i - Len(a) \in 1 .. Len(s) - m /\ m + (i - Len(a)) = i + 1 /\ ~(i <= Len(a))
            BY <3>0, <3>1, <3>2, <3>4, <4>2
          <5> QED BY <3>1, <3>2, <3>4, <4>2, <5>1
        <4> QED BY <4>1, <4>2
      <3> QED BY <3>0, <3>1, <3>2, <3>4, <3>5
    <2>5. ASSUME NEW i \in 1 .. Len(t)
          PROVE  \E j \in 1 .. Len(s) : t[i] = s[j]
      <3>1. i \in 1 .. Len(s) /\ i + 1 \in 1 .. Len(s)
        BY <2>4
      <3> QED BY <2>4, <3>1
    <2>6. ASSUME NEW j \in 1 .. Len(s), s[j] # d
          PROVE  \E i \in 1 .. Len(t) : t[i] = s[j]
      <3>1. CASE j < m
        BY <2>2, <2>4, <3>1
      <3>2. CASE j > m
        <4>1. j - 1 \in 1 .. Len(t) /\ ~(j - 1 < m) /\ (j - 1) + 1 = j
          BY <2>2, <2>4, <3>2
        <4> QED BY <2>4, <4>1
      <3> QED BY <2>2, <2>6, <3>1, <3>2
    <2>7. ASSUME \A i, j \in 1 .. Len(s) : s[i] = s[j] => i = j
          PROVE  /\ \A i, j \in 1 .. Len(t) : t[i] = t[j] => i = j
                 /\ \A i \in 1 .. Len(t) : t[i] # d
      <3> DEFINE place(i) == IF i < m THEN i ELSE i + 1
      <3>1. \A i \in 1 .. Len(t) : place(i) \in 1 .. Len(s) /\ t[i] = s[place(i)] /\ place(i) # m
        BY <2>2, <2>4
      <3>2. \A i, j \in 1 .. Len(t) : place(i) = place(j) => i = j
        BY <2>2, <2>4
      <3> HIDE DEF place
      <3> QED BY <2>2, <2>7, <3>1, <3>2
    <2>8. Len(t) <= Len(s)
      BY <2>4
    <2> QED BY <2>4, <2>5, <2>6, <2>7, <2>8 DEF t
  <1> QED BY <1>1, <1>2

(* What a step that leaves the variables of a part of the invariant alone keeps. *)
LEMMA SameEvents == EventsInv /\ UNCHANGED <<socketsQueue, cur, waiting, leaving>> => EventsInv'
  BY DEF EventsInv
LEMMA SameClientEvents == ClientEvents /\ UNCHANGED <<socketsQueue, cur, sock>> => ClientEvents'
  BY DEF ClientEvents
LEMMA SameListener == ListenerInv /\ UNCHANGED <<astray, fds, listener, listening, waiting>> => ListenerInv'
  BY DEF ListenerInv
LEMMA SameConnections ==
  ConnectionsInv /\ UNCHANGED <<socketsStatus, socketsConnected, fds, astray>> => ConnectionsInv'
  BY DEF ConnectionsInv

\* A caller adds an event and waits for it.
AddAndWait(op, who, held) == S!Add(op, who, held, TRUE)

\* An event that was added is the last of the queue, and the only one of its caller.
LEMMA AddKeeps ==
  ASSUME SocketsHypothesis, SocketsInv, NEW who \in Clients \cup {"server"}, who \notin waiting, who \notin leaving,
         NEW op \in {"connect", "send", "receive", "serve", "close", "listen", "accept"},
         NEW held \in S!Descriptors \cup {S!NoSocket}, AddAndWait(op, who, held),
         cur' = cur, leaving' = leaving
  PROVE  /\ EventsInv' /\ socketsQueue' \in Seq(S!Event) /\ waiting' = waiting \cup {who}
         /\ \A i \in 1 .. Len(socketsQueue) : socketsQueue[i].who # who
         /\ cur.op # "none" => cur.who # who
         /\ \A i \in 1 .. Len(socketsQueue') :
              \/ i \in 1 .. Len(socketsQueue) /\ socketsQueue'[i] = socketsQueue[i]
              \/ /\ socketsQueue'[i].who = who /\ socketsQueue'[i].op = op /\ socketsQueue'[i].held = held
  <1> DEFINE e == [op |-> op, who |-> who, held |-> held, waits |-> TRUE, answer |-> "none"]
             n == Len(socketsQueue)
  <1>1. socketsQueue \in Seq(S!Event) /\ EventsInv
    BY DEF SocketsInv, S!TypeOK
  <1>2. e \in S!Event /\ e.who = who /\ e.op = op /\ e.held = held /\ e.waits = TRUE
    BY DEF S!Event
  <1>3. socketsQueue' = Append(socketsQueue, e) /\ waiting' = waiting \cup {who}
    BY DEF AddAndWait, S!Add
  <1> HIDE DEF e
  <1>4. /\ socketsQueue' \in Seq(S!Event) /\ Len(socketsQueue') = n + 1
        /\ \A i \in 1 .. n : socketsQueue'[i] = socketsQueue[i]
        /\ socketsQueue'[n + 1] = e
    BY <1>1, <1>2, <1>3
  <1>5. n \in Nat /\ \A i \in 1 .. n + 1 : i \in 1 .. n \/ i = n + 1
    BY <1>1
  <1>6. /\ \A i \in 1 .. n : socketsQueue[i].who # who
        /\ cur.op # "none" => cur.who # who
    BY <1>1 DEF EventsInv
  <1> HIDE DEF n
  <1>7. EventsInv'
    <2>1. \A i \in 1 .. n + 1 : socketsQueue'[i].waits /\ socketsQueue'[i].who \in waiting'
      BY <1>1, <1>2, <1>3, <1>4, <1>5 DEF EventsInv, n
    <2>2. \A i \in 1 .. n + 1 : cur'.op # "none" => socketsQueue'[i].who # cur'.who
      BY <1>1, <1>2, <1>4, <1>5, <1>6 DEF EventsInv, n
    <2>3. \A i, j \in 1 .. n + 1 : socketsQueue'[i].who = socketsQueue'[j].who => i = j
      <3> SUFFICES ASSUME NEW i \in 1 .. n + 1, NEW j \in 1 .. n + 1, socketsQueue'[i].who = socketsQueue'[j].who
                   PROVE  i = j
        OBVIOUS
      <3>1. CASE i \in 1 .. n /\ j \in 1 .. n
        BY <1>1, <1>4, <3>1 DEF EventsInv, n
      <3>2. CASE i = n + 1 /\ j \in 1 .. n
        BY <1>2, <1>4, <1>6, <3>2
      <3>3. CASE j = n + 1 /\ i \in 1 .. n
        BY <1>2, <1>4, <1>6, <3>3
      <3>4. CASE i = n + 1 /\ j = n + 1
        BY <3>4
      <3> QED BY <1>5, <3>1, <3>2, <3>3, <3>4
    <2>4. /\ cur'.op # "none" => cur'.waits /\ cur'.who \in waiting'
          /\ cur'.op = "none" => cur'.held = S!NoSocket
          /\ waiting' \cap leaving' = {}
      BY <1>1, <1>3 DEF EventsInv
    <2> QED BY <1>4, <2>1, <2>2, <2>3, <2>4 DEF EventsInv
  <1>8. \A i \in 1 .. Len(socketsQueue') :
              \/ i \in 1 .. n /\ socketsQueue'[i] = socketsQueue[i]
              \/ /\ socketsQueue'[i].who = who /\ socketsQueue'[i].op = op /\ socketsQueue'[i].held = held
    BY <1>2, <1>4, <1>5
  <1> QED BY <1>3, <1>4, <1>6, <1>7, <1>8 DEF n

\* An event that ends was the only one of its caller, who waits no more.
LEMMA EndKeeps ==
  ASSUME SocketsHypothesis, SocketsInv, cur.op # "none", NEW a \in {"none", "Success", "Failure", "Timeout"},
         S!EndEventWith(a), socketsQueue' = socketsQueue, leaving' = leaving
  PROVE  /\ EventsInv' /\ ClientEvents' /\ cur' \in S!Event /\ cur'.op = "none"
         /\ waiting' \subseteq waiting /\ cur.who \notin waiting'
         /\ cur.who # "server" => ("server" \in waiting' <=> "server" \in waiting)
         /\ cur.who = "server" => ServerEvents'
         /\ \A i \in 1 .. Len(socketsQueue) : socketsQueue[i].who # cur.who
  <1>1. EventsInv /\ ClientEvents /\ cur \in S!Event /\ cur.waits = TRUE
    BY DEF SocketsInv, S!TypeOK, EventsInv, S!Event
  <1>2. waiting' = waiting \ {cur.who}
    BY <1>1 DEF S!EndEventWith
  <1>3. cur' \in S!Event /\ cur'.op = "none" /\ cur'.held = S!NoSocket
    BY DEF S!EndEventWith, S!NoEvent, S!Event
  <1>4. \A i \in 1 .. Len(socketsQueue) : socketsQueue[i].who # cur.who
    BY <1>1 DEF EventsInv
  <1>5. EventsInv'
    BY <1>1, <1>2, <1>3, <1>4 DEF EventsInv
  <1>6. ClientEvents'
    BY <1>1, <1>3 DEF ClientEvents
  <1>7. cur.who = "server" => ServerEvents'
    BY <1>3, <1>4 DEF ServerEvents
  <1> QED BY <1>2, <1>3, <1>4, <1>5, <1>6, <1>7

\* Who runs tells what is run.
LEMMA RunsFor ==
  ASSUME SocketsHypothesis, SocketsInv, cur.op # "none"
  PROVE  /\ cur.op \in ClientOps => cur.who \in Clients /\ cur.who # "server"
         /\ cur.op \in ServerOps => cur.who = "server" /\ ServerEvent(cur)
         /\ cur.op = "listen" => listening = "opening"
         /\ cur.op \in {"accept", "serve"} => listening = "no"
         /\ cur.op = "close" => listening \in {"no", "closing"}
  <1>1. cur \in S!Event /\ listening \in {"no", "closing", "opening"}
    BY DEF SocketsInv, S!TypeOK
  <1>2. cur.who \in Clients \cup {"server"}
    BY <1>1 DEF S!Event
  <1>3. CASE cur.who = "server"
    <2>1. ServerEvent(cur)
      BY <1>3 DEF SocketsInv, ServerEvents
    <2> QED BY <1>1, <1>3, <2>1 DEF ServerEvent, ClientOps, ServerOps
  <1>4. CASE cur.who \in Clients
    <2>1. cur.op \in ClientOps /\ cur.who # "server"
      BY <1>4, NamesDiffer DEF SocketsInv, ClientEvents
    <2> QED BY <1>4, <2>1 DEF ClientOps, ServerOps
  <1> QED BY <1>2, <1>3, <1>4

LEMMA SocketsStarts ==
  ASSUME SocketsHypothesis, S!Init
  PROVE  SocketsInv
  <1> USE DEF S!Init
  <1>1. socketsQueue = <<>> /\ socketsQueue \in Seq(S!Event) /\ Len(socketsQueue) = 0
        /\ socketsConnected = <<>> /\ socketsConnected \in Seq(S!Descriptors) /\ Len(socketsConnected) = 0
    OBVIOUS
  <1>2. cur = S!NoEvent /\ cur.op = "none" /\ cur.held = S!NoSocket /\ cur \in S!Event
    BY DEF S!NoEvent, S!Event
  <1>3. MaxConnected \in Nat
    BY DEF SocketsHypothesis, S!SocketsAssumption
  <1>4. S!TypeOK
    <2>1. fds \in [S!Descriptors -> Clients \cup {"free", "listener", "accepted", "file", "pipe"}]
      OBVIOUS
    <2>2. sock \in [Clients -> S!Descriptors \cup {S!NoSocket}]
      OBVIOUS
    <2>3. socketsStatus \in [listening : BOOLEAN, activeConnections : 0 .. MaxConnected]
      BY <1>3
    <2> QED BY <1>1, <1>2, <2>1, <2>2, <2>3 DEF S!TypeOK
  <1>5. EventsInv /\ ClientEvents /\ ServerEvents
    BY <1>1, <1>2 DEF EventsInv, ClientEvents, ServerEvents
  <1>6. \A d \in S!Descriptors : fds[d] = "free"
    OBVIOUS
  <1>7. ListenerInv
    BY <1>6 DEF ListenerInv
  <1>8. ConnectionsInv
    BY <1>1, <1>3, <1>6 DEF ConnectionsInv
  <1>9. ClientsInv
    BY <1>2, <1>6, NamesDiffer DEF ClientsInv
  <1> QED BY <1>4, <1>5, <1>7, <1>8, <1>9 DEF SocketsInv

LEMMA SocketsKeep ==
  ASSUME SocketsHypothesis, SocketsInv, [S!Next]_socketsVars
  PROVE  SocketsInv'
  <1>0. /\ S!TypeOK /\ EventsInv /\ ClientEvents /\ ServerEvents /\ ListenerInv /\ ConnectionsInv /\ ClientsInv
    BY DEF SocketsInv
  <1>a. /\ socketsPort \in SocketPorts
        /\ fds \in [S!Descriptors -> Owners]
        /\ refused \subseteq S!Descriptors /\ leaving \subseteq Clients
        /\ sock \in [Clients -> S!Descriptors \cup {S!NoSocket}]
        /\ listener \in S!Descriptors \cup {S!NoSocket}
        /\ socketsConnected \in Seq(S!Descriptors)
        /\ socketsStatus \in [listening : BOOLEAN, activeConnections : 0 .. MaxConnected]
        /\ waiting \subseteq Clients \cup {"server"}
        /\ listening \in {"no", "closing", "opening"}
        /\ socketsQueue \in Seq(S!Event) /\ cur \in S!Event
        /\ astray \in BOOLEAN
    BY <1>0 DEF S!TypeOK, Owners
  <1>b. cur.held \in S!Descriptors \cup {S!NoSocket} /\ cur.who \in Clients \cup {"server"}
        /\ \A i \in 1 .. Len(socketsQueue) :
             /\ socketsQueue[i].held \in S!Descriptors \cup {S!NoSocket}
             /\ socketsQueue[i].who \in Clients \cup {"server"}
    <2>1. cur \in S!Event /\ \A i \in 1 .. Len(socketsQueue) : socketsQueue[i] \in S!Event
      BY <1>a
    <2> QED BY <2>1 DEF S!Event
  <1>c. S!NoSocket \notin S!Descriptors
    BY DescriptorsAreNumbers
  <1>1. CASE UNCHANGED socketsVars
    BY <1>0, <1>1 DEF socketsVars, SocketsInv, S!TypeOK, EventsInv, ClientEvents, ServerEvents, ServerEvent,
       ListenerInv, ConnectionsInv, ClientsInv
  <1>2. CASE S!OpenOther \/ S!CloseFile
    <2>1. /\ UNCHANGED <<socketsPort, refused, sock, leaving, listener, socketsConnected, socketsStatus, waiting,
                 listening, socketsQueue, cur, astray>>
          /\ fds' \in [S!Descriptors -> Owners]
          /\ \A d \in S!Descriptors : fds'[d] = fds[d] \/ (fds[d] \in {"free", "file"} /\ fds'[d] \in {"free", "file"})
      <3>1. CASE S!OpenOther
        <4>1. \E other \in S!Others : S!Take(other)
          BY <3>1 DEF S!OpenOther
        <4>2. S!Others = {"file"} /\ "file" \in Owners
          BY DEF S!Others, SocketsHypothesis, Owners
        <4>3. S!Take("file") /\ S!Free # {}
          BY <3>1, <4>1, <4>2 DEF S!OpenOther
        <4> QED BY <1>a, <3>1, <4>2, <4>3, TakeGives DEF S!OpenOther
      <3>2. CASE S!CloseFile
        BY <1>a, <3>2 DEF S!CloseFile, Owners
      <3> QED BY <1>2, <3>1, <3>2
    <2>2. S!TypeOK'
      BY <1>a, <2>1 DEF S!TypeOK, Owners
    <2>3. EventsInv' /\ ClientEvents'
      BY <1>0, <2>1, SameEvents, SameClientEvents
    <2>4. ServerEvents'
      BY <1>0, <1>b, <2>1 DEF ServerEvents, ServerEvent
    <2>5. ListenerInv'
      BY <1>0, <1>a, <2>1 DEF ListenerInv
    <2>6. ConnectionsInv'
      <3>1. \A i \in 1 .. Len(socketsConnected) : socketsConnected[i] \in S!Descriptors
        BY <1>a
      <3> QED BY <1>0, <2>1, <3>1 DEF ConnectionsInv
    <2>7. ClientsInv'
      <3>1. \A c \in Clients : c # "free" /\ c # "file" /\ sock[c] \in S!Descriptors \cup {S!NoSocket}
        BY <1>a, NamesDiffer
      <3> QED BY <1>0, <2>1, <3>1 DEF ClientsInv
    <2> QED BY <2>2, <2>3, <2>4, <2>5, <2>6, <2>7 DEF SocketsInv
  <1>3. ASSUME NEW c \in Clients, NEW op \in {"connect", "send", "receive"}, S!CallClient(c, op, TRUE)
        PROVE  SocketsInv'
    <2>1. /\ c \notin waiting /\ c \notin leaving /\ AddAndWait(op, c, S!NoSocket)
          /\ UNCHANGED <<socketsPort, fds, refused, cur, sock, leaving, listener, socketsConnected, socketsStatus,
                         listening, astray>>
      BY <1>3 DEF AddAndWait, S!CallClient, S!client, S!server
    <2>2. /\ EventsInv' /\ socketsQueue' \in Seq(S!Event) /\ waiting' = waiting \cup {c}
          /\ \A i \in 1 .. Len(socketsQueue') :
              \/ i \in 1 .. Len(socketsQueue) /\ socketsQueue'[i] = socketsQueue[i]
              \/ /\ socketsQueue'[i].who = c /\ socketsQueue'[i].op = op /\ socketsQueue'[i].held = S!NoSocket
      <3>1. /\ c \in Clients \cup {"server"} /\ S!NoSocket \in S!Descriptors \cup {S!NoSocket}
            /\ op \in {"connect", "send", "receive", "serve", "close", "listen", "accept"}
            /\ cur' = cur /\ leaving' = leaving
        BY <2>1
      <3> QED BY <2>1, <3>1, AddKeeps
    <2>3. c # "server"
      BY NamesDiffer
    <2>4. S!TypeOK'
      BY <1>a, <2>1, <2>2 DEF S!TypeOK, Owners
    <2>5. ClientEvents'
      BY <1>0, <2>1, <2>2 DEF ClientEvents
    <2>6. ServerEvents'
      BY <1>0, <2>1, <2>2, <2>3 DEF ServerEvents, ServerEvent
    <2>7. ListenerInv'
      BY <1>0, <2>1, <2>2, <2>3 DEF ListenerInv
    <2>8. ConnectionsInv' /\ ClientsInv'
      BY <1>0, <2>1 DEF ConnectionsInv, ClientsInv
    <2> QED BY <2>2, <2>4, <2>5, <2>6, <2>7, <2>8 DEF SocketsInv
  \* A client's socket is closed, and the client leaves or goes on to open another.
  <1>4. ASSUME NEW c \in Clients, c \notin leaving, S!ReleaseClient(sock[c])
        PROVE  /\ fds' \in [S!Descriptors -> Owners] /\ refused' \subseteq S!Descriptors
               /\ \A d \in S!Descriptors : fds'[d] = fds[d] \/ fds'[d] = "free"
               /\ socketsPort # "Esp" => \A d \in S!Descriptors : fds'[d] # c
               /\ \A d \in S!Descriptors : ~astray /\ fds[d] # c => fds'[d] = fds[d]
    <2>1. sock[c] \in S!Descriptors \cup {S!NoSocket}
      BY <1>a
    <2>2. /\ fds' \in [S!Descriptors -> Owners] /\ refused' \subseteq S!Descriptors
          /\ \A x \in S!Descriptors : x # sock[c] => fds'[x] = fds[x]
          /\ sock[c] \in S!Descriptors => fds'[sock[c]] \in {"free", fds[sock[c]]}
          /\ socketsPort # "Esp" /\ sock[c] \in S!Descriptors => fds'[sock[c]] = "free"
      BY <1>4, <1>a, <2>1, ReleaseClientFrees
    <2>3. c # "free"
      BY NamesDiffer
    <2>4. ASSUME socketsPort # "Esp", NEW d \in S!Descriptors
          PROVE  fds'[d] # c
      <3>1. fds[d] = c => sock[c] = d
        BY <1>0, <2>4 DEF ClientsInv
      <3> QED BY <2>2, <2>3, <2>4, <3>1
    <2>5. ASSUME ~astray, NEW d \in S!Descriptors, fds[d] # c
          PROVE  fds'[d] = fds[d]
      <3>1. sock[c] # S!NoSocket => fds[sock[c]] = c
        BY <1>0, <1>4, <2>5 DEF ClientsInv
      <3>2. sock[c] # d
        BY <1>c, <2>5, <3>1
      <3> QED BY <2>2, <3>2
    <2>6. \A d \in S!Descriptors : fds'[d] = fds[d] \/ fds'[d] = "free"
      BY <2>2
    <2> QED BY <2>2, <2>4, <2>5, <2>6
  \* What the server has is not the socket of a client, what another client has is not either.
  <1>5. ASSUME NEW c \in Clients, c \notin leaving, S!ReleaseClient(sock[c]),
               UNCHANGED <<listener, socketsConnected, socketsStatus, listening, astray, waiting>>
        PROVE  ListenerInv' /\ ConnectionsInv'
    <2>1. /\ \A d \in S!Descriptors : fds'[d] = fds[d] \/ fds'[d] = "free"
          /\ \A d \in S!Descriptors : ~astray /\ fds[d] # c => fds'[d] = fds[d]
      BY <1>4, <1>5
    <2>2. c # "listener" /\ c # "accepted"
      BY NamesDiffer
    <2>3. ListenerInv'
      BY <1>0, <1>a, <1>5, <2>1, <2>2 DEF ListenerInv
    <2>4. \A i \in 1 .. Len(socketsConnected) : socketsConnected[i] \in S!Descriptors
      BY <1>a
    <2>5. ConnectionsInv'
      BY <1>0, <1>5, <2>1, <2>2, <2>4 DEF ConnectionsInv
    <2> QED BY <2>3, <2>5
  <1>6. ASSUME NEW c \in Clients, S!BeginDisconnect(c)
        PROVE  SocketsInv'
    <2>1. /\ c \notin leaving /\ c \notin waiting /\ S!ReleaseClient(sock[c])
          /\ leaving' = leaving \cup {c}
          /\ UNCHANGED <<socketsPort, sock, waiting, socketsQueue, cur, listener, socketsConnected, socketsStatus,
                         listening, astray>>
      BY <1>6 DEF S!BeginDisconnect, S!server, SocketsHypothesis
    <2>2. /\ fds' \in [S!Descriptors -> Owners] /\ refused' \subseteq S!Descriptors
          /\ \A d \in S!Descriptors : fds'[d] = fds[d] \/ fds'[d] = "free"
          /\ socketsPort # "Esp" => \A d \in S!Descriptors : fds'[d] # c
          /\ \A d \in S!Descriptors : ~astray /\ fds[d] # c => fds'[d] = fds[d]
      BY <1>4, <2>1
    <2>3. S!TypeOK'
      BY <1>a, <2>1, <2>2 DEF S!TypeOK, Owners
    <2>4. EventsInv'
      BY <1>0, <2>1 DEF EventsInv
    <2>5. ClientEvents'
      BY <1>0, <2>1, SameClientEvents
    <2>6. ServerEvents'
      BY <1>0, <1>b, <2>1, <2>2, NamesDiffer DEF ServerEvents, ServerEvent
    <2>7. ListenerInv' /\ ConnectionsInv'
      BY <1>5, <2>1
    <2>8. ClientsInv'
      <3>1. \A b \in Clients : b # "free" /\ sock[b] \in S!Descriptors \cup {S!NoSocket}
        BY <1>a, NamesDiffer
      <3> QED BY <1>0, <2>1, <2>2, <3>1 DEF ClientsInv
    <2> QED BY <2>3, <2>4, <2>5, <2>6, <2>7, <2>8 DEF SocketsInv
  <1>7. ASSUME NEW c \in Clients, S!EndDisconnect(c)
        PROVE  SocketsInv'
    <2>1. /\ c \in leaving /\ sock' = [sock EXCEPT ![c] = S!NoSocket] /\ leaving' = leaving \ {c}
          /\ UNCHANGED <<socketsPort, fds, refused, waiting, socketsQueue, cur, listener, socketsConnected,
                         socketsStatus, listening, astray>>
      BY <1>7 DEF S!EndDisconnect, S!server
    <2>2. S!TypeOK'
      BY <1>a, <2>1 DEF S!TypeOK, Owners
    <2>3. EventsInv'
      BY <1>0, <2>1 DEF EventsInv
    <2>4. cur.op # "none" => cur.who # c
      BY <1>0, <2>1 DEF EventsInv
    <2>5. ClientEvents'
      BY <1>0, <1>a, <2>1, <2>4 DEF ClientEvents
    <2>6. ServerEvents'
      BY <1>0, <2>1 DEF ServerEvents, ServerEvent
    <2>7. ListenerInv' /\ ConnectionsInv'
      BY <1>0, <2>1, SameListener, SameConnections
    <2>8. ClientsInv'
      BY <1>0, <1>a, <2>1 DEF ClientsInv
    <2> QED BY <2>2, <2>3, <2>5, <2>6, <2>7, <2>8 DEF SocketsInv
  \* The server adds an event of its own.
  <1>8. ASSUME "server" \notin waiting, NEW op \in ServerOps,
               NEW held \in S!Descriptors \cup {S!NoSocket}, AddAndWait(op, "server", held),
               UNCHANGED <<socketsPort, fds, refused, cur, sock, leaving, listener, socketsConnected, socketsStatus,
                           astray>>,
               listening' \in {"no", "closing", "opening"},
               ServerEvent([op |-> op, held |-> held])',
               ListenerInv'
        PROVE  SocketsInv'
    <2>1. "server" \notin leaving
      BY <1>a, NamesDiffer
    <2>2. /\ EventsInv' /\ socketsQueue' \in Seq(S!Event) /\ waiting' = waiting \cup {"server"}
          /\ \A i \in 1 .. Len(socketsQueue) : socketsQueue[i].who # "server"
          /\ cur.op # "none" => cur.who # "server"
          /\ \A i \in 1 .. Len(socketsQueue') :
              \/ i \in 1 .. Len(socketsQueue) /\ socketsQueue'[i] = socketsQueue[i]
              \/ /\ socketsQueue'[i].who = "server" /\ socketsQueue'[i].op = op /\ socketsQueue'[i].held = held
      <3>1. /\ "server" \in Clients \cup {"server"}
            /\ op \in {"connect", "send", "receive", "serve", "close", "listen", "accept"}
            /\ cur' = cur /\ leaving' = leaving
        BY <1>8 DEF ServerOps
      <3> QED BY <1>8, <2>1, <3>1, AddKeeps
    <2>3. S!TypeOK'
      BY <1>8, <1>a, <2>2 DEF S!TypeOK, Owners
    <2>4. ClientEvents'
      <3>1. "server" \notin Clients
        BY NamesDiffer
      <3> QED BY <1>0, <1>8, <2>2, <3>1 DEF ClientEvents
    <2>5. ServerEvents'
      <3>1. ASSUME NEW i \in 1 .. Len(socketsQueue'), socketsQueue'[i].who = "server"
            PROVE  ServerEvent(socketsQueue[i])'
        <4>1. socketsQueue'[i].op = op /\ socketsQueue'[i].held = held
          BY <2>2, <3>1
        <4> QED BY <1>8, <4>1 DEF ServerEvent
      <3> QED BY <1>8, <2>2, <3>1 DEF ServerEvents
    <2>6. ConnectionsInv' /\ ClientsInv'
      BY <1>0, <1>8 DEF ConnectionsInv, ClientsInv
    <2> QED BY <1>8, <2>2, <2>3, <2>4, <2>5, <2>6 DEF SocketsInv
  <1>9. CASE S!BeginListen
    <2>1. /\ "server" \notin waiting /\ listening = "no" /\ listening' = "closing"
          /\ UNCHANGED <<socketsPort, fds, refused, cur, sock, leaving, listener, socketsConnected, socketsStatus>>
      BY <1>9 DEF S!BeginListen, S!ServerIdle, S!client
    <2>2. CASE AddAndWait("close", "server", listener) /\ UNCHANGED astray
      <3>1. waiting' = waiting \cup {"server"}
        BY <2>2 DEF AddAndWait, S!Add
      <3>2. ListenerInv'
        BY <1>0, <2>1, <2>2, <3>1 DEF ListenerInv
      <3>3. PICK held \in S!Descriptors \cup {S!NoSocket} : held = listener
        BY <1>a
      <3>4. ServerEvent([op |-> "close", held |-> held])'
        BY <2>1, <3>3 DEF ServerEvent
      <3>5. AddAndWait("close", "server", held)
        BY <2>2, <3>3
      <3> QED BY <1>8, <2>1, <2>2, <3>2, <3>4, <3>5 DEF ServerOps
    <2>3. CASE astray' = TRUE /\ UNCHANGED <<socketsQueue, waiting>>
      <3>1. /\ \A i \in 1 .. Len(socketsQueue) : socketsQueue[i].who # "server"
            /\ cur.op # "none" => cur.who # "server"
        BY <1>0, <2>1 DEF EventsInv
      <3>2. S!TypeOK'
        BY <1>a, <2>1, <2>3 DEF S!TypeOK, Owners
      <3>3. EventsInv' /\ ClientEvents'
        BY <1>0, <2>1, <2>3, SameEvents, SameClientEvents
      <3>4. ServerEvents'
        BY <2>1, <2>3, <3>1 DEF ServerEvents
      <3>5. ListenerInv' /\ ConnectionsInv' /\ ClientsInv'
        BY <1>0, <2>1, <2>3 DEF ListenerInv, ConnectionsInv, ClientsInv
      <3> QED BY <3>2, <3>3, <3>4, <3>5 DEF SocketsInv
    <2> QED BY <1>9, <2>2, <2>3 DEF S!BeginListen, AddAndWait
  <1>10. CASE S!QueueListen
    <2>1. /\ "server" \notin waiting /\ listening = "closing" /\ listening' = "opening"
          /\ AddAndWait("listen", "server", S!NoSocket)
          /\ UNCHANGED <<socketsPort, fds, refused, cur, sock, leaving, listener, socketsConnected, socketsStatus, astray>>
      BY <1>10 DEF AddAndWait, S!QueueListen, S!client
    <2>2. ListenerInv'
      BY <1>0, <2>1 DEF ListenerInv
    <2>3. ServerEvent([op |-> "listen", held |-> S!NoSocket])'
      BY <2>1 DEF ServerEvent
    <2> QED BY <1>8, <2>1, <2>2, <2>3 DEF ServerOps
  <1>11. CASE S!RefuseListen
    <2>1. /\ "server" \notin waiting /\ listening' = "no" /\ astray' = TRUE
          /\ UNCHANGED <<socketsPort, fds, refused, waiting, socketsQueue, cur, sock, leaving, listener,
                         socketsConnected, socketsStatus>>
      BY <1>11 DEF S!RefuseListen, S!client
    <2>2. /\ \A i \in 1 .. Len(socketsQueue) : socketsQueue[i].who # "server"
          /\ cur.op # "none" => cur.who # "server"
      BY <1>0, <2>1 DEF EventsInv
    <2>3. S!TypeOK'
      BY <1>a, <2>1 DEF S!TypeOK, Owners
    <2>4. EventsInv' /\ ClientEvents'
      BY <1>0, <2>1, SameEvents, SameClientEvents
    <2>5. ServerEvents'
      BY <2>1, <2>2 DEF ServerEvents
    <2>6. ListenerInv' /\ ConnectionsInv' /\ ClientsInv'
      BY <1>0, <2>1 DEF ListenerInv, ConnectionsInv, ClientsInv
    <2> QED BY <2>3, <2>4, <2>5, <2>6 DEF SocketsInv
  <1>12. ASSUME NEW op \in {"accept", "serve", "close"}, NEW d \in S!Descriptors \cup {S!NoSocket},
                d # S!NoSocket => astray \/ fds[d] = "accepted", S!CallServer(op, d)
         PROVE  SocketsInv'
    <2>1. /\ "server" \notin waiting /\ listening = "no" /\ AddAndWait(op, "server", d)
          /\ UNCHANGED <<socketsPort, fds, refused, cur, sock, leaving, listener, socketsConnected, socketsStatus,
                         listening, astray>>
      BY <1>12 DEF AddAndWait, S!CallServer, S!ServerIdle, S!client, S!server
    <2>2. ListenerInv'
      BY <1>0, <2>1 DEF ListenerInv
    <2>3. ServerEvent([op |-> op, held |-> d])'
      BY <1>12, <2>1 DEF ServerEvent
    <2> QED BY <1>8, <2>1, <2>2, <2>3 DEF ServerOps
  <1>13. CASE S!StartEvent
    <2> DEFINE e == Head(socketsQueue)
    <2>1. /\ cur.op = "none" /\ socketsQueue # <<>> /\ socketsQueue' = Tail(socketsQueue)
          /\ cur' = IF e.op \in {"connect", "send", "receive"} THEN [e EXCEPT !.held = sock[e.who]] ELSE e
          /\ UNCHANGED <<socketsPort, fds, refused, waiting, sock, leaving, listener, socketsConnected,
                         socketsStatus, listening, astray>>
      BY <1>13 DEF S!StartEvent, S!client, S!server
    <2>2. /\ e = socketsQueue[1] /\ e \in S!Event /\ 1 \in 1 .. Len(socketsQueue)
          /\ socketsQueue' \in Seq(S!Event)
          /\ \A i \in 1 .. Len(socketsQueue') : socketsQueue'[i] = socketsQueue[i + 1] /\ i + 1 \in 1 .. Len(socketsQueue)
      BY <1>a, <2>1
    <2> HIDE DEF e
    <2>3. /\ e.waits /\ e.who \in waiting
          /\ \A i \in 1 .. Len(socketsQueue') : socketsQueue'[i].who # e.who
      <3>1. \A i \in 1 .. Len(socketsQueue') : i + 1 # 1
        OBVIOUS
      <3> QED BY <1>0, <2>2, <3>1 DEF EventsInv
    <2>4. /\ e.who \in Clients => e.op \in {"connect", "send", "receive"}
          /\ e.who = "server" => ServerEvent(e) /\ e.op \in ServerOps /\ e.op \notin {"connect", "send", "receive"}
      <3>1. e.who \in Clients => e.op \in {"connect", "send", "receive"}
        BY <1>0, <2>2 DEF ClientEvents
      <3>2. e.who = "server" => ServerEvent(e)
        BY <1>0, <2>2 DEF ServerEvents
      <3> QED BY <1>a, <3>1, <3>2 DEF ServerEvent, ServerOps
    <2>5. e.who \in Clients \cup {"server"} /\ e.op # "none"
      BY <2>2, <2>4 DEF S!Event, ServerOps
    <2>6. /\ cur' \in S!Event /\ cur'.who = e.who /\ cur'.op = e.op /\ cur'.waits = e.waits
          /\ e.who \in Clients => cur'.held = sock[e.who]
          /\ e.who = "server" => cur' = e
      <3>1. CASE e.who = "server"
        BY <2>1, <2>2, <2>4, <3>1, NamesDiffer
      <3>2. CASE e.who \in Clients
        <4>1. sock[e.who] \in S!Descriptors \cup {S!NoSocket} /\ e.who # "server"
          BY <1>a, <3>2, NamesDiffer
        <4>2. cur' = [e EXCEPT !.held = sock[e.who]]
          BY <2>1, <2>4, <3>2
        <4> QED BY <2>2, <4>1, <4>2 DEF S!Event
      <3> QED BY <2>5, <3>1, <3>2
    <2>7. S!TypeOK'
      BY <1>a, <2>1, <2>2, <2>6 DEF S!TypeOK, Owners
    <2>8. EventsInv'
      <3>1. \A i, j \in 1 .. Len(socketsQueue') : i + 1 = j + 1 => i = j
        OBVIOUS
      <3>2. \A i \in 1 .. Len(socketsQueue') : socketsQueue'[i].waits /\ socketsQueue'[i].who \in waiting
        BY <1>0, <2>2 DEF EventsInv
      <3>3. \A i, j \in 1 .. Len(socketsQueue') : socketsQueue'[i].who = socketsQueue'[j].who => i = j
        BY <1>0, <2>2, <3>1 DEF EventsInv
      <3>4. waiting' = waiting /\ leaving' = leaving /\ waiting \cap leaving = {}
        BY <1>0, <2>1 DEF EventsInv
      <3> QED BY <2>3, <2>5, <2>6, <3>2, <3>3, <3>4 DEF EventsInv
    <2>9. ClientEvents'
      <3>1. \A i \in 1 .. Len(socketsQueue') : socketsQueue'[i].who \in Clients =>
              socketsQueue'[i].op \in {"connect", "send", "receive"} /\ socketsQueue'[i].held = S!NoSocket
        BY <1>0, <2>2 DEF ClientEvents
      <3> QED BY <2>1, <2>4, <2>6, <3>1 DEF ClientEvents, ClientOps
    <2>10. ServerEvents'
      <3>1. \A i \in 1 .. Len(socketsQueue') : socketsQueue'[i].who = "server" => ServerEvent(socketsQueue'[i])
        BY <1>0, <2>2 DEF ServerEvents
      <3> QED BY <2>1, <2>4, <2>6, <3>1 DEF ServerEvents, ServerEvent
    <2>11. ListenerInv' /\ ConnectionsInv'
      BY <1>0, <2>1, SameListener, SameConnections
    <2>12. ClientsInv'
      <3>1. cur'.op # "open"
        BY <2>4, <2>5, <2>6 DEF ServerOps
      <3> QED BY <1>0, <2>1, <3>1 DEF ClientsInv
    <2> QED BY <2>7, <2>8, <2>9, <2>10, <2>11, <2>12 DEF SocketsInv
  <1>14. CASE S!CloseOld
    <2> DEFINE c == cur.who
    <2>1. /\ cur.op = "connect" /\ S!ReleaseClient(cur.held)
          /\ sock' = [sock EXCEPT ![c] = S!NoSocket]
          /\ cur' = [cur EXCEPT !.op = "open", !.held = S!NoSocket]
          /\ UNCHANGED <<socketsPort, leaving, waiting, socketsQueue, listener, socketsConnected, socketsStatus,
                         listening, astray>>
      BY <1>14 DEF S!CloseOld, S!server
    <2>2. c \in Clients /\ c # "server" /\ cur.op # "none"
      BY <2>1, RunsFor DEF ClientOps
    <2>3. cur.held = sock[c] /\ c \in waiting /\ c \notin leaving
      BY <1>0, <2>1, <2>2 DEF ClientEvents, EventsInv
    <2>4. /\ cur' \in S!Event /\ cur'.op = "open" /\ cur'.held = S!NoSocket /\ cur'.who = c /\ cur'.waits = cur.waits
      BY <1>a, <2>1 DEF S!Event
    <2> HIDE DEF c
    <2>5. S!ReleaseClient(sock[c])
      BY <2>1, <2>3
    <2>6. /\ fds' \in [S!Descriptors -> Owners] /\ refused' \subseteq S!Descriptors
          /\ \A d \in S!Descriptors : fds'[d] = fds[d] \/ fds'[d] = "free"
          /\ socketsPort # "Esp" => \A d \in S!Descriptors : fds'[d] # c
          /\ \A d \in S!Descriptors : ~astray /\ fds[d] # c => fds'[d] = fds[d]
      BY <1>4, <2>2, <2>3, <2>5
    <2>7. S!TypeOK'
      BY <1>a, <2>1, <2>4, <2>6 DEF S!TypeOK, Owners
    <2>8. EventsInv'
      BY <1>0, <2>1, <2>2, <2>4 DEF EventsInv, c
    <2>9. ClientEvents'
      BY <1>0, <2>1, <2>4 DEF ClientEvents, ClientOps
    <2>10. ServerEvents'
      BY <1>0, <1>b, <2>1, <2>2, <2>4, <2>6, NamesDiffer DEF ServerEvents, ServerEvent
    <2>11. ListenerInv' /\ ConnectionsInv'
      BY <1>5, <2>1, <2>2, <2>3, <2>5
    <2>12. ClientsInv'
      <3>1. \A b \in Clients : b # "free" /\ sock[b] \in S!Descriptors \cup {S!NoSocket}
        BY <1>a, NamesDiffer
      <3>2. sock'[c] = S!NoSocket /\ \A b \in Clients : b # c => sock'[b] = sock[b]
        BY <1>a, <2>1, <2>2 DEF c
      <3> QED BY <1>0, <2>1, <2>2, <2>4, <2>6, <3>1, <3>2 DEF ClientsInv
    <2> QED BY <2>7, <2>8, <2>9, <2>10, <2>11, <2>12 DEF SocketsInv
  <1>15. CASE S!OpenConnection
    <2> DEFINE c == cur.who
               m == S!Min(S!Free)
    <2>1. /\ cur.op = "open" /\ S!Free # {} /\ S!Take(c) /\ sock' = [sock EXCEPT ![c] = m]
          /\ refused' \in {refused, refused \cup {m}} /\ S!EndEventWith("none")
          /\ UNCHANGED <<socketsPort, leaving, socketsQueue, listener, socketsConnected, socketsStatus,
                         listening, astray>>
      BY <1>15 DEF S!OpenConnection, S!server, S!EndEvent
    <2>2. c \in Clients /\ c # "server" /\ cur.op # "none"
      BY <2>1, RunsFor DEF ClientOps
    <2>3. /\ m \in S!Descriptors /\ fds[m] = "free" /\ fds' \in [S!Descriptors -> Owners] /\ fds'[m] = c
          /\ \A x \in S!Descriptors : x # m => fds'[x] = fds[x]
      BY <1>a, <2>1, <2>2, TakeGives DEF Owners
    <2>4. /\ EventsInv' /\ ClientEvents' /\ cur' \in S!Event /\ cur'.op = "none"
          /\ waiting' \subseteq waiting /\ ("server" \in waiting' <=> "server" \in waiting)
      BY <2>1, <2>2, EndKeeps
    <2> HIDE DEF m, c
    <2>5. S!TypeOK'
      BY <1>a, <2>1, <2>2, <2>3, <2>4 DEF S!TypeOK, Owners
    <2>6. ServerEvents'
      BY <1>0, <1>b, <2>1, <2>3, <2>4 DEF ServerEvents, ServerEvent
    <2>7. ListenerInv'
      BY <1>0, <1>a, <2>1, <2>2, <2>3, <2>4, NamesDiffer DEF ListenerInv
    <2>8. ConnectionsInv'
      <3>1. \A i \in 1 .. Len(socketsConnected) : socketsConnected[i] \in S!Descriptors
        BY <1>a
      <3> QED BY <1>0, <2>1, <2>2, <2>3, <3>1, NamesDiffer DEF ConnectionsInv
    <2>9. ClientsInv'
      <3>1. \A b \in Clients : b # "free" /\ sock[b] \in S!Descriptors \cup {S!NoSocket}
        BY <1>a, NamesDiffer
      <3>2. sock'[c] = m /\ \A b \in Clients : b # c => sock'[b] = sock[b]
        BY <1>a, <2>1, <2>2
      <3>3. c \notin leaving /\ cur.op = "open" /\ cur.who = c
        BY <1>0, <2>1, <2>2 DEF EventsInv, c
      <3>4. ASSUME ~astray, NEW b \in Clients, b \notin leaving, sock'[b] # S!NoSocket
            PROVE  fds'[sock'[b]] = b
        <4>1. CASE b = c
          BY <2>3, <3>2, <4>1
        <4>2. CASE b # c
          <5>1. fds[sock[b]] = b /\ sock[b] \in S!Descriptors /\ sock'[b] = sock[b]
            BY <1>0, <3>1, <3>2, <3>4, <4>2 DEF ClientsInv
          <5> QED BY <2>3, <3>1, <5>1
        <4> QED BY <4>1, <4>2
      <3>5. ASSUME socketsPort # "Esp", NEW d \in S!Descriptors, fds'[d] \in Clients
            PROVE  sock'[fds'[d]] = d /\ fds'[d] \notin leaving
        <4>1. CASE d = m
          BY <2>3, <3>2, <3>3, <4>1
        <4>2. CASE d # m
          <5>1. fds'[d] = fds[d] /\ sock[fds[d]] = d /\ fds[d] \notin leaving /\ fds[d] # c
            BY <1>0, <2>3, <3>3, <3>5, <4>2 DEF ClientsInv
          <5> QED BY <3>2, <3>5, <5>1
        <4> QED BY <4>1, <4>2
      <3> QED BY <2>1, <2>4, <3>4, <3>5 DEF ClientsInv
    <2> QED BY <2>4, <2>5, <2>6, <2>7, <2>8, <2>9 DEF SocketsInv
  \* An event ends and nothing else happens; that of the server was not one of listenTo.
  <1>16. ASSUME cur.op # "none", NEW a \in {"none", "Success", "Failure", "Timeout"}, S!EndEventWith(a),
                cur.who = "server" => listening = "no",
                UNCHANGED <<socketsPort, fds, refused, socketsQueue, sock, leaving, listener, socketsConnected,
                            socketsStatus, listening, astray>>
         PROVE  SocketsInv'
    <2>1. /\ EventsInv' /\ ClientEvents' /\ cur' \in S!Event /\ cur'.op = "none"
          /\ waiting' \subseteq waiting
          /\ cur.who # "server" => ("server" \in waiting' <=> "server" \in waiting)
          /\ cur.who = "server" => ServerEvents'
      BY <1>16, EndKeeps
    <2>2. S!TypeOK'
      BY <1>a, <1>16, <2>1 DEF S!TypeOK, Owners
    <2>3. ServerEvents'
      <3>1. CASE cur.who # "server"
        BY <1>0, <1>16, <2>1, <3>1 DEF ServerEvents, ServerEvent
      <3> QED BY <2>1, <3>1
    <2>4. ListenerInv'
      BY <1>0, <1>16, <2>1 DEF ListenerInv
    <2>5. ConnectionsInv'
      BY <1>0, <1>16, SameConnections
    <2>6. ClientsInv'
      BY <1>0, <1>16, <2>1 DEF ClientsInv
    <2> QED BY <2>1, <2>2, <2>3, <2>4, <2>5, <2>6 DEF SocketsInv
  <1>17. CASE S!OpenNothing \/ S!Transmit \/ S!AcceptNothing
    <2>1. /\ cur.op \in {"open", "send", "serve", "accept"} /\ S!EndEventWith("none")
          /\ UNCHANGED <<socketsPort, fds, refused, socketsQueue, sock, leaving, listener, socketsConnected,
                         socketsStatus, listening, astray>>
      BY <1>17 DEF S!OpenNothing, S!Transmit, S!AcceptNothing, S!EndEvent, S!client, S!server
    <2>2. cur.who = "server" => listening = "no"
      BY <2>1, RunsFor DEF ClientOps
    <2> QED BY <1>16, <2>1, <2>2
  <1>18. CASE S!Receive
    <2>1. /\ cur.op = "receive"
          /\ UNCHANGED <<socketsPort, fds, refused, socketsQueue, sock, leaving, listener, socketsConnected,
                         socketsStatus, listening, astray>>
          /\ \E a \in IF S!IsOpen(cur.held) THEN {"Success", S!Transfers.silence} ELSE {"Failure"} :
               S!EndEventWith(a)
      BY <1>18 DEF S!Receive, S!client, S!server
    <2>2. S!Transfers.silence \in {"Timeout", "Failure"}
      <3>1. socketsPort \in {"Linux", "Darwin", "Esp", "Cc32xx"}
        BY <1>a DEF SocketsHypothesis, S!SocketsAssumption
      <3> QED BY <3>1 DEF S!Transfers, S!LinuxTransfers, S!DarwinTransfers, S!EspTransfers, S!Cc32xxTransfers
    <2>3. PICK a \in {"none", "Success", "Failure", "Timeout"} : S!EndEventWith(a)
      BY <2>1, <2>2
    <2>4. cur.who # "server"
      BY <2>1, RunsFor DEF ClientOps
    <2> QED BY <1>16, <2>1, <2>3, <2>4
  <1>19. CASE S!CloseConnection
    <2> DEFINE h == cur.held
               left == IF S!IsOpen(h) THEN S!Erase(socketsConnected, h) ELSE socketsConnected
    <2>1. /\ cur.op = "close" /\ S!Release(h) /\ S!EndEventWith("none") /\ socketsConnected' = left
          /\ socketsStatus' = [socketsStatus EXCEPT !.activeConnections = Len(left)]
          /\ UNCHANGED <<socketsPort, socketsQueue, sock, leaving, listener, listening, astray>>
      BY <1>19 DEF S!CloseConnection, S!client, S!EndEvent
    <2>2. cur.op # "none" /\ cur.who = "server" /\ ServerEvent(cur) /\ listening \in {"no", "closing"}
      BY <2>1, RunsFor DEF ServerOps
    <2>3. /\ EventsInv' /\ ClientEvents' /\ cur' \in S!Event /\ cur'.op = "none"
          /\ waiting' \subseteq waiting /\ "server" \notin waiting' /\ ServerEvents'
      BY <2>1, <2>2, EndKeeps
    <2>4. /\ fds' \in [S!Descriptors -> Owners] /\ refused' \subseteq S!Descriptors
          /\ \A x \in S!Descriptors : x # h => fds'[x] = fds[x]
          /\ h \in S!Descriptors => fds'[h] = "free"
          /\ S!IsOpen(h) <=> h \in S!Descriptors /\ fds[h] # "free"
      BY <1>a, <1>b, <2>1, ReleaseFrees
    <2>5. /\ left \in Seq(S!Descriptors) /\ Len(left) <= Len(socketsConnected)
          /\ \A i \in 1 .. Len(left) : \E j \in 1 .. Len(socketsConnected) : left[i] = socketsConnected[j]
          /\ \A j \in 1 .. Len(socketsConnected) :
               socketsConnected[j] # h \/ ~S!IsOpen(h) => \E i \in 1 .. Len(left) : left[i] = socketsConnected[j]
          /\ (\A i, j \in 1 .. Len(socketsConnected) : socketsConnected[i] = socketsConnected[j] => i = j) =>
               /\ \A i, j \in 1 .. Len(left) : left[i] = left[j] => i = j
               /\ S!IsOpen(h) => \A i \in 1 .. Len(left) : left[i] # h
      <3>1. CASE S!IsOpen(h)
        <4>1. PICK s \in Seq(S!Descriptors) : s = socketsConnected
          BY <1>a
        <4>2. PICK d : d = h
          OBVIOUS
        <4>3. left = S!Erase(s, d)
          BY <3>1, <4>1, <4>2
        <4> HIDE DEF left, h
        <4>4. /\ S!Erase(s, d) \in Seq(S!Descriptors) /\ Len(S!Erase(s, d)) <= Len(s)
              /\ \A i \in 1 .. Len(S!Erase(s, d)) : \E j \in 1 .. Len(s) : S!Erase(s, d)[i] = s[j]
              /\ \A j \in 1 .. Len(s) : s[j] # d => \E i \in 1 .. Len(S!Erase(s, d)) : S!Erase(s, d)[i] = s[j]
              /\ (\A i, j \in 1 .. Len(s) : s[i] = s[j] => i = j) =>
                   /\ \A i, j \in 1 .. Len(S!Erase(s, d)) : S!Erase(s, d)[i] = S!Erase(s, d)[j] => i = j
                   /\ \A i \in 1 .. Len(S!Erase(s, d)) : S!Erase(s, d)[i] # d
          BY EraseLeaves
        <4> QED BY <3>1, <4>1, <4>2, <4>3, <4>4
      <3>2. CASE ~S!IsOpen(h)
        <4>1. left = socketsConnected
          BY <3>2
        <4> HIDE DEF left, h
        <4> QED BY <1>a, <3>2, <4>1
      <3> QED BY <3>1, <3>2
    <2>6. h \in S!Descriptors \cup {S!NoSocket}
      BY <1>b
    <2>7. /\ listening = "no" /\ h # S!NoSocket => astray \/ fds[h] = "accepted"
          /\ listening = "closing" => h = listener
      BY <2>2 DEF ServerEvent
    <2> HIDE DEF left, h
    <2>8. MaxConnected \in Nat /\ Len(left) \in 0 .. MaxConnected
      <3>1. Len(left) \in Nat /\ Len(socketsConnected) \in Nat
        BY <1>a, <2>5
      <3> QED BY <1>0, <2>5, <3>1 DEF ConnectionsInv, SocketsHypothesis, S!SocketsAssumption
    <2>9. socketsStatus' \in [listening : BOOLEAN, activeConnections : 0 .. MaxConnected]
          /\ socketsStatus'.activeConnections = Len(left)
      BY <1>a, <2>1, <2>8
    <2>10. S!TypeOK'
      BY <1>a, <2>1, <2>3, <2>4, <2>5, <2>9 DEF S!TypeOK, Owners
    <2>11. ASSUME ~astray
           PROVE  \A d \in S!Descriptors :
                    d = h => fds[d] \in {"free", "accepted", "listener"} /\ (fds[d] = "listener" => listening = "closing")
      <3>1. CASE listening = "no"
        BY <2>6, <2>7, <2>11, <3>1, <1>c
      <3>2. CASE listening = "closing"
        <4>1. "server" \in waiting
          BY <1>0, <2>2 DEF EventsInv
        <4>2. \A d \in S!Descriptors : d = listener => fds[d] = "listener"
          BY <1>0, <1>c, <2>11, <3>2, <4>1 DEF ListenerInv
        <4> QED BY <2>7, <3>2, <4>2
      <3> QED BY <2>2, <3>1, <3>2
    <2>12. ListenerInv'
      <3> SUFFICES ASSUME ~astray
                   PROVE  ListenerInv'
        BY <2>1 DEF ListenerInv
      <3>1. \A d \in S!Descriptors : fds'[d] = "listener" => fds[d] = "listener" /\ listener = d /\ d # h
        BY <1>0, <2>4 DEF ListenerInv
      <3>2. CASE listening = "no"
        <4>1. listener # S!NoSocket => fds[listener] = "listener" /\ listener # h
          BY <1>0, <1>a, <2>11, <3>2 DEF ListenerInv
        <4> QED BY <1>a, <2>1, <2>4, <3>1, <3>2, <4>1 DEF ListenerInv
      <3>3. CASE listening = "closing"
        <4>1. \A d \in S!Descriptors : fds'[d] # "listener"
          BY <2>7, <3>1, <3>3
        <4> QED BY <2>1, <2>3, <3>3, <4>1 DEF ListenerInv
      <3> QED BY <2>2, <3>2, <3>3
    <2>13. ConnectionsInv'
      <3>1. ASSUME NEW d \in S!Descriptors, fds'[d] = "accepted"
            PROVE  \E i \in 1 .. Len(left) : left[i] = d
        <4>1. fds[d] = "accepted" /\ d # h
          BY <2>4, <3>1
        <4>2. PICK j \in 1 .. Len(socketsConnected) : socketsConnected[j] = d
          BY <1>0, <4>1 DEF ConnectionsInv
        <4> QED BY <2>5, <4>1, <4>2
      <3>2. ASSUME ~astray
            PROVE  \A i, j \in 1 .. Len(left) : fds'[left[i]] = "accepted" /\ (left[i] = left[j] => i = j)
        <4>1. \A i, j \in 1 .. Len(socketsConnected) :
                /\ fds[socketsConnected[i]] = "accepted"
                /\ socketsConnected[i] = socketsConnected[j] => i = j
          BY <1>0, <3>2 DEF ConnectionsInv
        <4>2. ASSUME NEW i \in 1 .. Len(left)
              PROVE  fds'[left[i]] = "accepted"
          <5>1. PICK j \in 1 .. Len(socketsConnected) : left[i] = socketsConnected[j]
            BY <2>5
          <5>2. left[i] \in S!Descriptors /\ fds[left[i]] = "accepted"
            BY <2>5, <4>1, <5>1
          <5>3. left[i] # h
            BY <2>4, <2>5, <4>1, <5>2
          <5> QED BY <2>4, <5>2, <5>3
        <4>3. \A i, j \in 1 .. Len(left) : left[i] = left[j] => i = j
          BY <2>5, <4>1
        <4> QED BY <4>2, <4>3
      <3> QED BY <2>1, <2>8, <2>9, <3>1, <3>2 DEF ConnectionsInv
    <2>14. ClientsInv'
      <3>1. \A b \in Clients : b # "free" /\ b # "accepted" /\ b # "listener" /\ sock[b] \in S!Descriptors \cup {S!NoSocket}
        BY <1>a, NamesDiffer
      <3>2. ASSUME ~astray, NEW b \in Clients, b \notin leaving, sock[b] # S!NoSocket
            PROVE  fds'[sock[b]] = b
        <4>1. fds[sock[b]] = b /\ sock[b] \in S!Descriptors
          BY <1>0, <3>1, <3>2 DEF ClientsInv
        <4>2. sock[b] # h
          BY <2>11, <3>1, <3>2, <4>1
        <4> QED BY <2>4, <4>1, <4>2
      <3>3. \A d \in S!Descriptors : fds'[d] \in Clients => fds[d] = fds'[d]
        BY <2>4, <3>1
      <3> QED BY <1>0, <2>1, <2>3, <3>2, <3>3 DEF ClientsInv
    <2> QED BY <2>3, <2>10, <2>12, <2>13, <2>14 DEF SocketsInv
  \* A listenTo ends: a descriptor may have been taken for the listener.
  <1>20. ASSUME NEW succeeded \in BOOLEAN, cur.op = "listen", S!EndListen(succeeded), refused' = refused,
                listener' \in S!Descriptors \cup {S!NoSocket},
                \/ fds' = fds
                \/ /\ fds' \in [S!Descriptors -> Owners]
                   /\ \E m \in S!Descriptors : /\ fds[m] = "free" /\ fds'[m] = "listener"
                                               /\ \A x \in S!Descriptors : x # m => fds'[x] = fds[x],
                succeeded => listener' \in S!Descriptors /\ fds'[listener'] = "listener"
                               /\ \A x \in S!Descriptors : x # listener' => fds'[x] = fds[x]
         PROVE  SocketsInv'
    <2>1. /\ socketsStatus' = [socketsStatus EXCEPT !.listening = succeeded]
          /\ listening' = "no" /\ astray' = (astray \/ ~succeeded) /\ S!EndEventWith("none")
          /\ UNCHANGED <<socketsPort, socketsQueue, sock, leaving, socketsConnected>>
      BY <1>20 DEF S!EndListen, S!EndEvent, S!client
    <2>2. cur.op # "none" /\ cur.who = "server" /\ listening = "opening"
      BY <1>20, RunsFor DEF ServerOps
    <2>3. /\ EventsInv' /\ ClientEvents' /\ cur' \in S!Event /\ cur'.op = "none"
          /\ waiting' \subseteq waiting /\ ServerEvents'
      BY <2>1, <2>2, EndKeeps
    <2>4. /\ fds' \in [S!Descriptors -> Owners]
          /\ \A d \in S!Descriptors : fds'[d] = fds[d] \/ (fds[d] = "free" /\ fds'[d] = "listener")
      BY <1>a, <1>20
    <2>5. astray' \in BOOLEAN /\ (~astray' => ~astray /\ succeeded)
      BY <1>a, <2>1
    <2>6. socketsStatus' \in [listening : BOOLEAN, activeConnections : 0 .. MaxConnected]
          /\ socketsStatus'.activeConnections = socketsStatus.activeConnections
      BY <1>a, <2>1
    <2>7. S!TypeOK'
      BY <1>a, <1>20, <2>1, <2>3, <2>4, <2>5, <2>6 DEF S!TypeOK, Owners
    <2>8. ListenerInv'
      <3> SUFFICES ASSUME ~astray'
                   PROVE  ListenerInv'
        BY DEF ListenerInv
      <3>1. \A d \in S!Descriptors : fds[d] # "listener"
        BY <1>0, <2>2, <2>5 DEF ListenerInv
      <3>2. /\ listener' \in S!Descriptors /\ fds'[listener'] = "listener"
            /\ \A x \in S!Descriptors : fds'[x] = "listener" => listener' = x
        BY <1>20, <2>5, <3>1
      <3> QED BY <2>1, <3>2 DEF ListenerInv
    <2>9. ConnectionsInv'
      <3>1. \A i \in 1 .. Len(socketsConnected) : socketsConnected[i] \in S!Descriptors
        BY <1>a
      <3> QED BY <1>0, <2>1, <2>4, <2>5, <2>6, <3>1 DEF ConnectionsInv
    <2>10. ClientsInv'
      <3>1. \A b \in Clients : b # "free" /\ b # "listener" /\ sock[b] \in S!Descriptors \cup {S!NoSocket}
        BY <1>a, NamesDiffer
      <3> QED BY <1>0, <2>1, <2>3, <2>4, <2>5, <3>1 DEF ClientsInv
    <2> QED BY <2>3, <2>7, <2>8, <2>9, <2>10 DEF SocketsInv
  <1>21. CASE S!Listen
    <2> DEFINE m == S!Min(S!Free)
    <2>1. cur.op = "listen" /\ S!Free # {} /\ S!Take("listener") /\ listener' = m /\ S!EndListen(TRUE) /\ refused' = refused
      BY <1>21 DEF S!Listen
    <2>2. /\ m \in S!Descriptors /\ fds[m] = "free" /\ fds' \in [S!Descriptors -> Owners] /\ fds'[m] = "listener"
          /\ \A x \in S!Descriptors : x # m => fds'[x] = fds[x]
      BY <1>a, <2>1, TakeGives DEF Owners
    <2> HIDE DEF m
    <2> QED BY <1>20, <2>1, <2>2
  <1>22. CASE S!ListenUnbound
    <2> DEFINE m == S!Min(S!Free)
    <2>1. cur.op = "listen" /\ S!Free # {} /\ (fds' = fds \/ S!Take("listener")) /\ listener' = m /\ S!EndListen(FALSE)
          /\ refused' = refused
      BY <1>22 DEF S!ListenUnbound
    <2>2. m \in S!Descriptors
      <3>1. S!Free \in SUBSET Nat /\ S!Free \subseteq S!Descriptors
        BY DescriptorsAreNumbers DEF S!Free
      <3> QED BY <2>1, <3>1, MinIsThere
    <2>3. CASE fds' = fds
      BY <1>20, <2>1, <2>2, <2>3
    <2>4. CASE S!Take("listener")
      <3>1. /\ fds[m] = "free" /\ fds' \in [S!Descriptors -> Owners] /\ fds'[m] = "listener"
            /\ \A x \in S!Descriptors : x # m => fds'[x] = fds[x]
        BY <1>a, <2>1, <2>4, TakeGives DEF Owners
      <3> HIDE DEF m
      <3> QED BY <1>20, <2>1, <2>2, <3>1
    <2> QED BY <2>1, <2>3, <2>4
  <1>23. CASE S!ListenNowhere
    <2>1. cur.op = "listen" /\ fds' = fds /\ listener' \in {listener, S!NoSocket} /\ S!EndListen(FALSE)
          /\ refused' = refused
      BY <1>23 DEF S!ListenNowhere
    <2>2. listener' \in S!Descriptors \cup {S!NoSocket}
      BY <1>a, <2>1
    <2> QED BY <1>20, <2>1, <2>2
  <1>24. CASE S!Accept
    <2> DEFINE m == S!Min(S!Free)
    <2>1. /\ cur.op = "accept" /\ S!Free # {} /\ Len(socketsConnected) < MaxConnected /\ S!Take("accepted")
          /\ socketsConnected' = Append(socketsConnected, m)
          /\ socketsStatus' = [socketsStatus EXCEPT !.activeConnections = Len(socketsConnected')]
          /\ S!EndEventWith("none")
          /\ UNCHANGED <<socketsPort, refused, socketsQueue, sock, leaving, listener, listening, astray>>
      BY <1>24 DEF S!Accept, S!EndEvent, S!client
    <2>2. cur.op # "none" /\ cur.who = "server" /\ listening = "no"
      BY <2>1, RunsFor DEF ServerOps
    <2>3. /\ EventsInv' /\ ClientEvents' /\ cur' \in S!Event /\ cur'.op = "none"
          /\ waiting' \subseteq waiting /\ ServerEvents'
      BY <2>1, <2>2, EndKeeps
    <2>4. /\ m \in S!Descriptors /\ fds[m] = "free" /\ fds' \in [S!Descriptors -> Owners] /\ fds'[m] = "accepted"
          /\ \A x \in S!Descriptors : x # m => fds'[x] = fds[x]
      BY <1>a, <2>1, TakeGives DEF Owners
    <2> HIDE DEF m
    <2>5. /\ socketsConnected' \in Seq(S!Descriptors) /\ Len(socketsConnected') = Len(socketsConnected) + 1
          /\ \A i \in 1 .. Len(socketsConnected) : socketsConnected'[i] = socketsConnected[i]
          /\ socketsConnected'[Len(socketsConnected) + 1] = m
      BY <1>a, <2>1, <2>4
    <2>6. /\ Len(socketsConnected) \in Nat /\ Len(socketsConnected') \in 0 .. MaxConnected
          /\ \A i \in 1 .. Len(socketsConnected) + 1 : i \in 1 .. Len(socketsConnected) \/ i = Len(socketsConnected) + 1
      <3>1. MaxConnected \in Nat /\ Len(socketsConnected) \in Nat
        BY <1>a DEF SocketsHypothesis, S!SocketsAssumption
      <3> QED BY <2>1, <2>5, <3>1
    <2>7. socketsStatus' \in [listening : BOOLEAN, activeConnections : 0 .. MaxConnected]
          /\ socketsStatus'.activeConnections = Len(socketsConnected')
      BY <1>a, <2>1, <2>6
    <2>8. S!TypeOK'
      BY <1>a, <2>1, <2>3, <2>4, <2>5, <2>7 DEF S!TypeOK, Owners
    <2>9. ListenerInv'
      BY <1>0, <1>a, <2>1, <2>2, <2>3, <2>4 DEF ListenerInv
    <2>10. ConnectionsInv'
      <3>1. ASSUME NEW d \in S!Descriptors, fds'[d] = "accepted"
            PROVE  \E i \in 1 .. Len(socketsConnected') : socketsConnected'[i] = d
        <4>1. CASE d = m
          BY <2>5, <2>6, <4>1
        <4>2. CASE d # m
          <5>1. PICK i \in 1 .. Len(socketsConnected) : socketsConnected[i] = d
            BY <1>0, <2>4, <3>1, <4>2 DEF ConnectionsInv
          <5>2. i \in 1 .. Len(socketsConnected')
            BY <2>5, <2>6
          <5> QED BY <2>5, <5>1, <5>2
        <4> QED BY <4>1, <4>2
      <3>2. ASSUME ~astray, NEW i \in 1 .. Len(socketsConnected), NEW j \in 1 .. Len(socketsConnected)
            PROVE  /\ fds[socketsConnected[i]] = "accepted" /\ socketsConnected[i] \in S!Descriptors
                   /\ socketsConnected[i] # m
                   /\ socketsConnected[i] = socketsConnected[j] => i = j
        BY <1>0, <1>a, <2>4, <3>2 DEF ConnectionsInv
      <3>3. ASSUME ~astray, NEW i \in 1 .. Len(socketsConnected'), NEW j \in 1 .. Len(socketsConnected')
            PROVE  /\ fds'[socketsConnected'[i]] = "accepted"
                   /\ socketsConnected'[i] = socketsConnected'[j] => i = j
        <4>1. \/ i \in 1 .. Len(socketsConnected) \/ i = Len(socketsConnected) + 1
          BY <2>5, <2>6
        <4>2. \/ j \in 1 .. Len(socketsConnected) \/ j = Len(socketsConnected) + 1
          BY <2>5, <2>6
        <4>3. fds'[socketsConnected'[i]] = "accepted"
          BY <2>4, <2>5, <3>2, <3>3, <4>1
        <4>4. socketsConnected'[i] = socketsConnected'[j] => i = j
          BY <2>5, <3>2, <3>3, <4>1, <4>2
        <4> QED BY <4>3, <4>4
      <3>4. Len(socketsConnected') <= MaxConnected
        BY <2>6
      <3> QED BY <2>1, <2>7, <3>1, <3>3, <3>4 DEF ConnectionsInv
    <2>11. ClientsInv'
      <3>1. \A b \in Clients : b # "free" /\ b # "accepted" /\ sock[b] \in S!Descriptors \cup {S!NoSocket}
        BY <1>a, NamesDiffer
      <3> QED BY <1>0, <2>1, <2>3, <2>4, <3>1 DEF ClientsInv
    <2> QED BY <2>3, <2>8, <2>9, <2>10, <2>11 DEF SocketsInv
  <1>25. CASE \E i \in 1 .. Len(socketsConnected), op \in {"serve", "close"} : S!CallServer(op, socketsConnected[i])
    <2>1. PICK i \in 1 .. Len(socketsConnected), op \in {"serve", "close"} : S!CallServer(op, socketsConnected[i])
      BY <1>25
    <2>2. PICK d \in S!Descriptors \cup {S!NoSocket} : d = socketsConnected[i]
      BY <1>a
    <2>3. astray \/ fds[d] = "accepted"
      BY <1>0, <2>2 DEF ConnectionsInv
    <2> QED BY <1>12, <2>1, <2>2, <2>3
  <1>26. CASE S!CallServer("accept", S!NoSocket)
    BY <1>12, <1>26
  <1>27. CASE \E c \in Clients :
                \/ \E op \in {"connect", "send", "receive"} : S!CallClient(c, op, TRUE)
                \/ S!BeginDisconnect(c) \/ S!EndDisconnect(c)
                \/ "nonBlocking" \in Habits /\ S!CallClient(c, "send", FALSE)
    BY <1>3, <1>6, <1>7, <1>27 DEF SocketsHypothesis
  <1>28. CASE S!Next
    BY <1>2, <1>9, <1>10, <1>11, <1>13, <1>14, <1>15, <1>17, <1>18, <1>19, <1>21, <1>22, <1>23, <1>24, <1>25, <1>26,
       <1>27, <1>28 DEF S!Next
  <1> QED BY <1>1, <1>28

LEMMA ActiveAreCounted ==
  ASSUME SocketsHypothesis, SocketsInv, ~astray
  PROVE  socketsStatus.activeConnections = S!Cardinality({d \in S!Descriptors : fds[d] = "accepted"})
  <1> DEFINE n == Len(socketsConnected)
             accepted == {d \in S!Descriptors : fds[d] = "accepted"}
             f == [i \in 1 .. n |-> socketsConnected[i]]
  <1>1. socketsConnected \in Seq(S!Descriptors) /\ n \in Nat /\ socketsStatus.activeConnections = n
    BY DEF SocketsInv, S!TypeOK, ConnectionsInv
  <1>2. /\ \A i, j \in 1 .. n : /\ fds[socketsConnected[i]] = "accepted"
                                /\ socketsConnected[i] = socketsConnected[j] => i = j
        /\ \A d \in accepted : \E i \in 1 .. n : socketsConnected[i] = d
    BY DEF SocketsInv, ConnectionsInv
  <1>3. f \in Bijection(1 .. n, accepted)
    <2>1. \A i \in 1 .. n : socketsConnected[i] \in accepted
      BY <1>1, <1>2
    <2> HIDE DEF accepted, n
    <2>2. f \in [1 .. n -> accepted]
      BY <2>1
    <2> QED BY <1>2, <2>2 DEF Bijection, Injection, Surjection, IsInjective
  <1> HIDE DEF f, accepted, n
  <1>4. IsFiniteSet(1 .. n) /\ Cardinality(1 .. n) = n
    BY <1>1, FS_Interval
  <1>5. Cardinality(accepted) = n
    BY <1>3, <1>4, FS_Bijection DEF ExistsBijection
  <1>6. S!Cardinality(accepted) = Cardinality(accepted)
    BY DEF S!Cardinality, Cardinality, S!IsFiniteSet, IsFiniteSet
  <1> QED BY <1>1, <1>5, <1>6 DEF accepted

SocketsPart == part = "sockets" => SocketsInv

LEMMA SocketsShow ==
  ASSUME SocketsHypothesis, SocketsPart
  PROVE  SocketsAreOwned
  <1> SUFFICES ASSUME part = "sockets", SocketsInv
               PROVE  (socketsPort # "Esp" => S!OpenIsOwned) /\ S!UsesOwnUnlessAstray /\ S!ActiveAreOpen
    BY DEF SocketsPart, SocketsAreOwned
  <1>a. /\ S!TypeOK /\ EventsInv /\ ClientEvents /\ ServerEvents /\ ListenerInv /\ ConnectionsInv /\ ClientsInv
        /\ fds \in [S!Descriptors -> Owners] /\ cur \in S!Event /\ astray \in BOOLEAN
        /\ listener \in S!Descriptors \cup {S!NoSocket} /\ sock \in [Clients -> S!Descriptors \cup {S!NoSocket}]
        /\ listening \in {"no", "closing", "opening"}
    BY DEF SocketsInv, S!TypeOK, Owners
  <1>1. socketsPort # "Esp" => S!OpenIsOwned
    <2> SUFFICES ASSUME socketsPort # "Esp", NEW d \in S!Descriptors
                 PROVE  /\ fds[d] \in Clients => sock[fds[d]] = d
                        /\ fds[d] = "listener" => astray \/ listener = d
                        /\ fds[d] = "accepted" => \E i \in 1 .. Len(socketsConnected) : socketsConnected[i] = d
      BY DEF S!OpenIsOwned
    <2>1. fds[d] \in Clients => sock[fds[d]] = d
      BY <1>a DEF ClientsInv
    <2>2. fds[d] = "listener" => astray \/ listener = d
      BY <1>a DEF ListenerInv
    <2>3. fds[d] = "accepted" => \E i \in 1 .. Len(socketsConnected) : socketsConnected[i] = d
      BY <1>a DEF ConnectionsInv
    <2> QED BY <2>1, <2>2, <2>3
  <1>2. S!UsesOwnUnlessAstray
    <2> SUFFICES ASSUME ~astray, cur.held # S!NoSocket
                 PROVE  fds[cur.held] \in {"free"} \cup
                          (IF cur.who \in Clients THEN {cur.who} ELSE {"listener", "accepted"})
      BY DEF S!UsesOwnUnlessAstray, S!UsesOwn
    <2>1. cur.op # "none" /\ cur.who \in waiting /\ cur.who \notin leaving
      BY <1>a DEF EventsInv
    <2>2. cur.who \in Clients \cup {"server"} /\ cur.held \in S!Descriptors
      BY <1>a DEF S!Event
    <2>3. CASE cur.who \in Clients
      <3>1. cur.held = sock[cur.who]
        BY <1>a, <2>1, <2>3 DEF ClientEvents
      <3>2. fds[cur.held] = cur.who
        BY <1>a, <2>1, <2>3, <3>1 DEF ClientsInv
      <3> QED BY <2>3, <3>2
    <2>4. CASE cur.who = "server"
      <3>1. cur.who \notin Clients /\ ServerEvent(cur)
        BY <1>a, <2>1, <2>4, NamesDiffer DEF ServerEvents
      <3>2. CASE listening = "no"
        BY <3>1, <3>2 DEF ServerEvent
      <3>3. CASE listening = "closing"
        <4>1. cur.held = listener
          BY <3>1, <3>3 DEF ServerEvent
        <4>2. fds[listener] = "listener"
          BY <1>a, <2>1, <2>4, <3>3, <4>1 DEF ListenerInv
        <4> QED BY <3>1, <4>1, <4>2
      <3>4. CASE listening = "opening"
        BY <3>1, <3>4 DEF ServerEvent
      <3> QED BY <1>a, <3>2, <3>3, <3>4
    <2> QED BY <2>2, <2>3, <2>4
  <1>3. S!ActiveAreOpen
    BY ActiveAreCounted DEF S!ActiveAreOpen
  <1> QED BY <1>1, <1>2, <1>3

LEMMA SocketsAlways == Habits = {} /\ PartSpec => []SocketsPart
  <1> SUFFICES ASSUME Habits = {}
               PROVE  PartSpec => []SocketsPart
    OBVIOUS
  <1>0. SocketsHypothesis
    BY Parameters DEF SocketsHypothesis
  <1>1. PartInit => SocketsPart
    BY <1>0, SocketsStarts DEF PartInit, SocketsPart
  <1>2. SocketsPart /\ [PartNext]_allVars => SocketsPart'
    BY <1>0, PartSteps, SocketsKeep DEF SocketsPart
  <1> QED BY <1>1, <1>2, PTL DEF PartSpec

(***************************************************************************)
(* Where the callers of a client wait for their answers and do not share   *)
(* the client, however files come and go in the same table: except on Esp  *)
(* the descriptor of a client or of a connection is never lost, and as long*)
(* as every listenTo() has succeeded neither is the listener's, no event   *)
(* uses the descriptor of another owner, and activeConnections counts the  *)
(* connections that are open.                                              *)
(***************************************************************************)
THEOREM SocketsStayOwned == Habits = {} /\ PartSpec => []SocketsAreOwned
  <1> SUFFICES ASSUME Habits = {}
               PROVE  PartSpec => []SocketsAreOwned
    OBVIOUS
  <1>0. SocketsHypothesis
    BY Parameters DEF SocketsHypothesis
  <1>1. SocketsPart => SocketsAreOwned
    BY <1>0, SocketsShow
  <1> QED BY <1>1, SocketsAlways, PTL

-----------------------------------------------------------------------------
(* The transfer of a message.                                              *)

Segments == STRING \cup {X!Stale}

TransferTypes ==
  /\ X!TypeOK
  /\ buffer \in Seq(Segments) /\ received \in Seq(Segments)

LEMMA MessagesAre ==
  ASSUME NEW m \in Messages
  PROVE  m \in Seq(Segments) /\ X!IsMessage(m)
  <1>1. X!IsMessage(m)
    BY Parameters DEF X!HttpTransferAssumption
  <1>2. m \in Seq(STRING)
    BY <1>1 DEF X!IsMessage
  <1>3. \A i \in 1 .. Len(m) : m[i] \in Segments
    BY <1>2, ElementOfSeq DEF Segments
  <1> QED BY <1>1, <1>2, <1>3

LEMMA BufferIsNat == BufferSize \in Nat /\ BufferSize >= 1
  BY Parameters DEF X!HttpTransferAssumption

LEMMA ResizedIs ==
  ASSUME NEW b \in Seq(Segments)
  PROVE  /\ X!Resized(b, BufferSize) \in Seq(Segments)
         /\ Len(X!Resized(b, BufferSize)) = BufferSize
         /\ \A i \in 1 .. BufferSize :
              X!Resized(b, BufferSize)[i] = IF i <= Len(b) THEN b[i] ELSE X!Stale
  <1> DEFINE r == [i \in 1 .. BufferSize |-> IF i <= Len(b) THEN b[i] ELSE X!Stale]
  <1>1. \A i \in 1 .. BufferSize : (IF i <= Len(b) THEN b[i] ELSE X!Stale) \in Segments
    <2>1. X!Stale \in Segments
      BY DEF Segments
    <2>2. ASSUME NEW i \in 1 .. BufferSize, i <= Len(b)
          PROVE  b[i] \in Segments
      <3>1. i \in 1 .. Len(b)
        BY <2>2, BufferIsNat, LenProperties
      <3> QED BY <3>1, ElementOfSeq
    <2> QED BY <2>1, <2>2
  <1>2. r \in Seq(Segments) /\ Len(r) = BufferSize
    BY <1>1, BufferIsNat
  <1>3. ASSUME NEW j \in 1 .. BufferSize PROVE r[j] = IF j <= Len(b) THEN b[j] ELSE X!Stale
    OBVIOUS
  <1>4. X!Resized(b, BufferSize) = r
    BY DEF X!Resized
  <1> HIDE DEF r
  <1> QED BY <1>2, <1>3, <1>4

\* What a read gives.
LEMMA ChunkIs ==
  ASSUME message \in Messages, at \in 0 .. Len(message), NEW n \in X!Sizes(BufferSize)
  PROVE  /\ n \in 1 .. BufferSize /\ at + n \in 0 .. Len(message)
         /\ X!Chunk(n) \in Seq(Segments) /\ Len(X!Chunk(n)) = n
         /\ \A i \in 1 .. n : X!Chunk(n)[i] = message[at + i]
  <1>1. message \in Seq(Segments)
    BY MessagesAre
  <1>2. n \in 1 .. BufferSize /\ n <= Len(message) - at
    BY <1>1, BufferIsNat DEF X!Sizes, X!Least
  <1>3. n \in Nat /\ at + n \in 0 .. Len(message) /\ n >= 1
    BY <1>1, <1>2, BufferIsNat
  <1>4. /\ SubSeq(message, at + 1, at + n) \in Seq(Segments)
        /\ Len(SubSeq(message, at + 1, at + n)) = n
        /\ \A i \in 1 .. n : SubSeq(message, at + 1, at + n)[i] = message[at + i]
    <2>1. at + 1 \in 1 .. (Len(message) + 1) /\ at + n \in (at + 1) - 1 .. Len(message)
      BY <1>1, <1>3
    <2>2. \A i \in (at + 1) .. (at + n) : message[i] \in Segments
      BY <1>1, <1>3, ElementOfSeq
    <2> QED BY <1>1, <1>3, <2>1, <2>2
  <1> QED BY <1>2, <1>3, <1>4 DEF X!Chunk

\* What is left of a read when the headers end in it.
LEMMA WithoutHeadersIs ==
  ASSUME NEW b \in Seq(Segments), X!Has(b, "end1", "end2")
  PROVE  /\ X!EndOfHeaders(b) \in 2 .. Len(b)
         /\ b[X!EndOfHeaders(b) - 1] = "end1" /\ b[X!EndOfHeaders(b)] = "end2"
         /\ X!WithoutHeaders(b) \in Seq(Segments) /\ Len(X!WithoutHeaders(b)) = Len(b) - X!EndOfHeaders(b)
  <1>1. PICK j \in 1 .. Len(b) - 1 : b[j] = "end1" /\ b[j + 1] = "end2"
    BY DEF X!Has
  <1>2. PICK k : k = j + 1
    OBVIOUS
  <1>3. k \in 2 .. Len(b) /\ b[k - 1] = "end1" /\ b[k] = "end2"
    BY <1>1, <1>2
  <1>4. /\ X!EndOfHeaders(b) \in 2 .. Len(b)
        /\ b[X!EndOfHeaders(b) - 1] = "end1" /\ b[X!EndOfHeaders(b)] = "end2"
    BY <1>3, Zenon DEF X!EndOfHeaders
  <1> DEFINE e == X!EndOfHeaders(b)
  <1>5. e + 1 \in 1 .. (Len(b) + 1) /\ Len(b) \in (e + 1) - 1 .. Len(b)
    BY <1>4
  <1>6. \A i \in (e + 1) .. Len(b) : b[i] \in Segments
    BY <1>4, ElementOfSeq
  <1> QED BY <1>4, <1>5, <1>6, SubSeqProperties DEF X!WithoutHeaders

LEMMA HeadersRead ==
  ASSUME NEW b \in Seq(Segments), NEW r \in {X!readResponseHeaders(b), X!readRequestHeaders(b)}
  PROVE  /\ r.length \in {length, 1, X!LengthOf(message)}
         /\ r.body \in Seq(Segments) /\ Len(r.body) <= Len(b) /\ r.error \in {"Success", "Negative"}
  <1>1. r.body = IF X!Has(b, "end1", "end2") THEN X!WithoutHeaders(b) ELSE b
    BY DEF X!readResponseHeaders, X!readRequestHeaders
  <1>2. r.length \in {length, 1, X!LengthOf(message)} /\ r.error \in {"Success", "Negative"}
    BY DEF X!readResponseHeaders, X!readRequestHeaders
  <1>3. CASE X!Has(b, "end1", "end2")
    BY <1>1, <1>2, <1>3, WithoutHeadersIs
  <1> QED BY <1>1, <1>2, <1>3

TransferPcs == {"program", "headers", "body", "done", "failed"}

\* A call that returns, goes on reading headers, or fails.
LEMMA ReturnTypes ==
  ASSUME TransferTypes, NEW b \in Seq(Segments), Len(b) <= BufferSize, NEW len \in {0, 1, X!LengthOf(message)},
         \/ X!Return(b, len)
         \/ /\ buffer' = X!Resized(b, BufferSize) /\ length' = len /\ received' = received
            /\ transferPc' \in {transferPc, "body"}
         \/ X!ReturnError
         \/ UNCHANGED <<transferPc, length, buffer, received>>
  PROVE  /\ buffer' \in Seq(Segments) /\ Len(buffer') <= BufferSize /\ received' \in Seq(Segments)
         /\ length' \in {0, 1, X!LengthOf(message)} /\ transferPc' \in TransferPcs
  <1>1. CASE X!Return(b, len)
    BY <1>1, ConcatProperties DEF X!Return, TransferTypes, TransferPcs
  <1>2. CASE /\ buffer' = X!Resized(b, BufferSize) /\ length' = len /\ received' = received
             /\ transferPc' \in {transferPc, "body"}
    BY <1>2, ResizedIs, BufferIsNat DEF TransferTypes, TransferPcs, X!TypeOK
  <1>3. CASE X!ReturnError \/ UNCHANGED <<transferPc, length, buffer, received>>
    BY <1>3 DEF X!ReturnError, TransferTypes, TransferPcs, X!TypeOK
  <1> QED BY <1>1, <1>2, <1>3

LEMMA TypesFollow ==
  ASSUME TransferTypes, UNCHANGED <<receiver, message>>, at' \in 0 .. Len(message),
         buffer' \in Seq(Segments), Len(buffer') <= BufferSize, received' \in Seq(Segments),
         length' \in {0, 1, X!LengthOf(message)}, transferPc' \in TransferPcs
  PROVE  TransferTypes'
  BY DEF TransferTypes, TransferPcs, X!TypeOK, X!LengthOf, X!BodyOf

LEMMA TransferStarts ==
  ASSUME X!Init
  PROVE  TransferTypes
  <1>1. message \in Messages /\ message \in Seq(Segments)
    BY MessagesAre DEF X!Init
  <1>2. at \in 0 .. Len(message)
    BY <1>1 DEF X!Init
  <1>3. buffer = <<>> /\ received = <<>> /\ Len(<<>>) = 0 /\ <<>> \in Seq(Segments)
    BY EmptySeq DEF X!Init
  <1> QED BY <1>1, <1>2, <1>3, BufferIsNat DEF X!Init, TransferTypes, X!TypeOK

\* What the clients and the servers do with a read of the headers.
LEMMA HeadersReadTypes ==
  ASSUME TransferTypes, NEW b \in Seq(Segments), Len(b) <= BufferSize, X!HeadersRead(b)
  PROVE  /\ buffer' \in Seq(Segments) /\ Len(buffer') <= BufferSize /\ received' \in Seq(Segments)
         /\ length' \in {0, 1, X!LengthOf(message)} /\ transferPc' \in TransferPcs
  <1> DEFINE r == X!readResponseHeaders(b)
  <1>1. /\ r.length \in {0, 1, X!LengthOf(message)}
        /\ r.body \in Seq(Segments) /\ Len(r.body) <= BufferSize
    <2>1. length \in {0, 1, X!LengthOf(message)}
      BY DEF TransferTypes, X!TypeOK
    <2> QED BY <2>1, HeadersRead, BufferIsNat, LenProperties
  <1>2. <<>> \in Seq(Segments) /\ Len(<<>>) <= BufferSize
    BY EmptySeq, BufferIsNat
  <1>3. \/ X!Return(r.body, r.length)
        \/ \E c \in {b, <<>>} :
             /\ buffer' = X!Resized(c, BufferSize) /\ length' = r.length /\ received' = received
             /\ transferPc' \in {transferPc, "body"}
        \/ X!ReturnError
    BY DEF X!HeadersRead
  <1> HIDE DEF r
  <1>4. CASE X!Return(r.body, r.length)
    BY <1>1, <1>4, ReturnTypes
  <1>5. CASE \E c \in {b, <<>>} :
               /\ buffer' = X!Resized(c, BufferSize) /\ length' = r.length /\ received' = received
               /\ transferPc' \in {transferPc, "body"}
    <2>1. PICK c \in {b, <<>>} : /\ buffer' = X!Resized(c, BufferSize) /\ length' = r.length /\ received' = received
                                 /\ transferPc' \in {transferPc, "body"}
      BY <1>5
    <2>2. c \in Seq(Segments) /\ Len(c) <= BufferSize
      BY <1>2, <2>1
    <2> QED BY <1>1, <2>1, <2>2, ReturnTypes
  <1>6. CASE X!ReturnError
    BY <1>1, <1>6, ReturnTypes
  <1> QED BY <1>3, <1>4, <1>5, <1>6

LEMMA SocketReadTypes ==
  ASSUME TransferTypes, X!SocketRead
  PROVE  /\ at' \in 0 .. Len(message)
         /\ buffer' \in Seq(Segments) /\ Len(buffer') <= BufferSize /\ received' \in Seq(Segments)
         /\ length' \in {0, 1, X!LengthOf(message)} /\ transferPc' \in TransferPcs
  <1>1. message \in Messages /\ at \in 0 .. Len(message) /\ length \in {0, 1, X!LengthOf(message)}
    BY DEF TransferTypes, X!TypeOK
  <1>2. CASE X!ReturnError /\ UNCHANGED at
    <2>1. buffer \in Seq(Segments) /\ Len(buffer) <= BufferSize
      BY DEF TransferTypes, X!TypeOK
    <2> QED BY <1>1, <1>2, <2>1, ReturnTypes
  <1>3. ASSUME NEW n \in X!Sizes(BufferSize), NEW r \in {X!readResponseHeaders(X!Chunk(n)), X!readRequestHeaders(X!Chunk(n))},
               at' = at + n,
               \/ /\ buffer' = X!Resized(r.body, BufferSize) /\ length' = r.length /\ UNCHANGED <<transferPc, received>>
               \/ X!Return(r.body, r.length)
               \/ X!Return(X!Chunk(n), length)
        PROVE  /\ at' \in 0 .. Len(message)
               /\ buffer' \in Seq(Segments) /\ Len(buffer') <= BufferSize /\ received' \in Seq(Segments)
               /\ length' \in {0, 1, X!LengthOf(message)} /\ transferPc' \in TransferPcs
    <2>1. at' \in 0 .. Len(message) /\ X!Chunk(n) \in Seq(Segments) /\ Len(X!Chunk(n)) <= BufferSize
      BY <1>1, <1>3, ChunkIs, BufferIsNat
    <2>2. /\ r.length \in {0, 1, X!LengthOf(message)} /\ r.body \in Seq(Segments) /\ Len(r.body) <= BufferSize
      BY <1>1, <2>1, HeadersRead, BufferIsNat, LenProperties
    <2>3. CASE /\ buffer' = X!Resized(r.body, BufferSize) /\ length' = r.length /\ UNCHANGED <<transferPc, received>>
      BY <2>1, <2>2, <2>3, ReturnTypes
    <2>4. CASE X!Return(r.body, r.length)
      BY <2>1, <2>2, <2>4, ReturnTypes
    <2>5. CASE X!Return(X!Chunk(n), length)
      BY <1>1, <2>1, <2>5, ReturnTypes
    <2> QED BY <1>3, <2>3, <2>4, <2>5
  <1>4. CASE \E n \in X!Sizes(BufferSize) :
               LET r == IF X!IsServer THEN X!readRequestHeaders(X!Chunk(n)) ELSE X!readResponseHeaders(X!Chunk(n)) IN
               /\ at' = at + n
               /\ IF transferPc = "headers" /\ r.error = "Negative"
                  THEN buffer' = X!Resized(r.body, BufferSize) /\ length' = r.length /\ UNCHANGED <<transferPc, received>>
                  ELSE IF transferPc = "headers" THEN X!Return(r.body, r.length) ELSE X!Return(X!Chunk(n), length)
    <2>1. PICK n \in X!Sizes(BufferSize) :
            LET r == IF X!IsServer THEN X!readRequestHeaders(X!Chunk(n)) ELSE X!readResponseHeaders(X!Chunk(n)) IN
            /\ at' = at + n
            /\ IF transferPc = "headers" /\ r.error = "Negative"
               THEN buffer' = X!Resized(r.body, BufferSize) /\ length' = r.length /\ UNCHANGED <<transferPc, received>>
               ELSE IF transferPc = "headers" THEN X!Return(r.body, r.length) ELSE X!Return(X!Chunk(n), length)
      BY <1>4
    <2>2. CASE X!IsServer
      BY <1>3, <2>1, <2>2
    <2>3. CASE ~X!IsServer
      BY <1>3, <2>1, <2>3
    <2> QED BY <2>2, <2>3
  <1> QED BY <1>2, <1>4 DEF X!SocketRead

LEMMA TransferTypesKeep ==
  ASSUME TransferTypes, [X!Next]_transferVars
  PROVE  TransferTypes'
  <1>1. /\ message \in Messages /\ at \in 0 .. Len(message) /\ length \in {0, 1, X!LengthOf(message)}
        /\ buffer \in Seq(Segments) /\ Len(buffer) <= BufferSize /\ <<>> \in Seq(Segments) /\ Len(<<>>) <= BufferSize
    BY EmptySeq, BufferIsNat DEF TransferTypes, X!TypeOK
  <1>2. CASE X!Receive
    <2>1. /\ buffer' \in Seq(Segments) /\ Len(buffer') <= BufferSize
      BY <1>1, <1>2, ResizedIs, BufferIsNat DEF X!Receive
    <2> QED BY <1>1, <1>2, <2>1, TypesFollow DEF X!Receive, TransferTypes, TransferPcs
  <1>3. CASE X!HttpsHeaders
    <2>0. UNCHANGED <<receiver, message>>
      BY <1>3 DEF X!HttpsHeaders
    <2>1. CASE \E n \in X!Sizes(BufferSize) : X!HeadersRead(X!Chunk(n)) /\ at' = at + n
      <3>1. PICK n \in X!Sizes(BufferSize) : X!HeadersRead(X!Chunk(n)) /\ at' = at + n
        BY <2>1
      <3>2. at' \in 0 .. Len(message) /\ X!Chunk(n) \in Seq(Segments) /\ Len(X!Chunk(n)) <= BufferSize
        BY <1>1, <3>1, ChunkIs, BufferIsNat
      <3> QED BY <2>0, <3>1, <3>2, HeadersReadTypes, TypesFollow
    <2>2. CASE X!HeadersRead(IF receiver = "PosixHttps" THEN buffer ELSE <<>>) /\ UNCHANGED at
      <3>1. PICK b \in {buffer, <<>>} : X!HeadersRead(b)
        BY <2>2
      <3> QED BY <1>1, <2>0, <2>2, <3>1, HeadersReadTypes, TypesFollow
    <2>3. CASE X!ReturnError /\ UNCHANGED at
      BY <1>1, <2>0, <2>3, ReturnTypes, TypesFollow
    <2> QED BY <1>3, <2>1, <2>2, <2>3 DEF X!HttpsHeaders
  <1>4. CASE X!HttpsBody
    <2>0. UNCHANGED <<receiver, message>>
      BY <1>4 DEF X!HttpsBody
    <2>1. CASE \E n \in X!Sizes(BufferSize) : X!Return(X!Chunk(n), length) /\ at' = at + n
      <3>1. PICK n \in X!Sizes(BufferSize) : X!Return(X!Chunk(n), length) /\ at' = at + n
        BY <2>1
      <3>2. at' \in 0 .. Len(message) /\ X!Chunk(n) \in Seq(Segments) /\ Len(X!Chunk(n)) <= BufferSize
        BY <1>1, <3>1, ChunkIs, BufferIsNat
      <3> QED BY <1>1, <2>0, <3>1, <3>2, ReturnTypes, TypesFollow
    <2>2. CASE UNCHANGED at /\ (UNCHANGED <<transferPc, length, buffer, received>> \/ X!Return(buffer, length) \/ X!ReturnError)
      BY <1>1, <2>0, <2>2, ReturnTypes, TypesFollow
    <2> QED BY <1>4, <2>1, <2>2 DEF X!HttpsBody
  <1>5. CASE X!SocketRead /\ UNCHANGED <<receiver, message>>
    BY <1>5, SocketReadTypes, TypesFollow
  <1>6. CASE X!EspServerReceive
    BY <1>1, <1>5, <1>6, ReturnTypes, TypesFollow DEF X!EspServerReceive
  <1>7. CASE UNCHANGED transferVars
    BY <1>7 DEF transferVars, TransferTypes, X!TypeOK, X!LengthOf, X!BodyOf
  <1> QED BY <1>2, <1>3, <1>4, <1>5, <1>6, <1>7 DEF X!Next, X!PosixHttpsReceive, X!EspHttpsReceive,
          X!HttpClientReceive, X!PosixServerReceive

-----------------------------------------------------------------------------
(* The body.  The headers of the message end at End.                       *)

End == CHOOSE i \in 1 .. Len(message) : message[i] = "end2"
BodyPart(n) == SubSeq(message, End + 1, n)

LEMMA MessageIs ==
  ASSUME message \in Messages
  PROVE  /\ message \in Seq(Segments) /\ End \in 2 .. Len(message)
         /\ message[End - 1] = "end1" /\ message[End] = "end2"
         /\ \A i \in 1 .. Len(message) :
              /\ message[i] = "end1" => i = End - 1
              /\ message[i] = "end2" => i = End
              /\ message[i] = "length1" => i < End /\ message[i + 1] = "length2"
         /\ End < Len(message) => \E i \in 1 .. Len(message) : message[i] = "length1"
         /\ X!BodyOf(message) = BodyPart(Len(message))
  <1>1. PICK e \in 2 .. Len(message) :
          /\ message[e - 1] = "end1" /\ message[e] = "end2"
          /\ \A i \in 1 .. Len(message) :
               /\ message[i] = "end1" => i = e - 1
               /\ message[i] = "end2" => i = e
               /\ message[i] = "length1" => i < e /\ message[i + 1] = "length2"
          /\ e < Len(message) => \E i \in 1 .. Len(message) : message[i] = "length1"
    BY MessagesAre DEF X!IsMessage
  <1>2. message \in Seq(Segments)
    BY MessagesAre
  <1>3. e \in 1 .. Len(message)
    BY <1>1, <1>2
  <1>4. End = e
    BY <1>1, <1>3 DEF End
  <1>5. X!BodyOf(message) = BodyPart(Len(message))
    BY DEF X!BodyOf, BodyPart, End
  <1> QED BY <1>1, <1>2, <1>4, <1>5

LEMMA BodyPartIs ==
  ASSUME message \in Messages, NEW n \in End .. Len(message)
  PROVE  /\ BodyPart(n) \in Seq(Segments) /\ Len(BodyPart(n)) = n - End
         /\ \A i \in 1 .. n - End : BodyPart(n)[i] = message[End + i]
  <1>1. message \in Seq(Segments) /\ End \in 2 .. Len(message)
    BY MessageIs
  <1>2. End + 1 \in 1 .. (Len(message) + 1) /\ n \in (End + 1) - 1 .. Len(message)
    BY <1>1
  <1>3. \A i \in (End + 1) .. n : message[i] \in Segments
    BY <1>1, ElementOfSeq
  <1>4. /\ SubSeq(message, End + 1, n) \in Seq(Segments)
        /\ Len(SubSeq(message, End + 1, n)) = n - (End + 1) + 1
        /\ \A i \in 1 .. n - (End + 1) + 1 : SubSeq(message, End + 1, n)[i] = message[End + 1 + i - 1]
    BY <1>1, <1>2, <1>3, SubSeqProperties
  <1>5. n - (End + 1) + 1 = n - End /\ \A i \in 1 .. n - End : End + 1 + i - 1 = End + i
    BY <1>1
  <1> QED BY <1>4, <1>5 DEF BodyPart

LEMMA BodyIs ==
  ASSUME message \in Messages
  PROVE  /\ X!BodyOf(message) \in Seq(Segments) /\ Len(X!BodyOf(message)) = Len(message) - End
         /\ X!LengthOf(message) = Len(message) - End
  <1>1. message \in Seq(Segments) /\ End \in 2 .. Len(message) /\ X!BodyOf(message) = BodyPart(Len(message))
    BY MessageIs
  <1>2. Len(message) \in End .. Len(message)
    BY <1>1
  <1>3. X!BodyOf(message) \in Seq(Segments) /\ Len(X!BodyOf(message)) = Len(message) - End
    BY <1>1, <1>2, BodyPartIs
  <1>4. CASE \E i \in 1 .. Len(message) : message[i] = "length1"
    BY <1>3, <1>4 DEF X!LengthOf
  <1>5. CASE ~\E i \in 1 .. Len(message) : message[i] = "length1"
    <2>1. ~(End < Len(message))
      BY <1>5, MessageIs
    <2> QED BY <1>1, <1>3, <1>5, <2>1 DEF X!LengthOf
  <1> QED BY <1>3, <1>4, <1>5

\* What was put together is the beginning of the body.
LEMMA PartIsPrefix ==
  ASSUME message \in Messages, NEW n \in End .. Len(message)
  PROVE  X!IsPrefix(BodyPart(n), X!BodyOf(message))
  <1>1. message \in Seq(Segments) /\ End \in 2 .. Len(message) /\ X!BodyOf(message) = BodyPart(Len(message))
    BY MessageIs
  <1>2. PICK p \in Seq(Segments) : p = BodyPart(n) /\ Len(p) = n - End /\ \A i \in 1 .. n - End : p[i] = message[End + i]
    BY BodyPartIs
  <1>3. Len(message) \in End .. Len(message)
    BY <1>1
  <1>4. PICK b \in Seq(Segments) : /\ b = BodyPart(Len(message)) /\ Len(b) = Len(message) - End
                                   /\ \A i \in 1 .. Len(message) - End : b[i] = message[End + i]
    BY <1>3, BodyPartIs
  <1>5. Len(p) <= Len(b) /\ Len(p) \in Nat
    BY <1>1, <1>2, <1>4
  <1>6. SubSeq(p, 1, Len(p)) = p
    BY SubSeqFull
  <1>7. /\ SubSeq(b, 1, Len(p)) \in Seq(Segments) /\ Len(SubSeq(b, 1, Len(p))) = Len(p)
        /\ \A i \in 1 .. Len(p) : SubSeq(b, 1, Len(p))[i] = b[i]
    <2>1. 1 \in 1 .. (Len(b) + 1) /\ Len(p) \in 1 - 1 .. Len(b)
      BY <1>5, LenProperties
    <2>2. \A i \in 1 .. Len(p) : b[i] \in Segments
      BY <1>5, LenProperties, ElementOfSeq
    <2> QED BY <1>5, <2>1, <2>2, SubSeqProperties
  <1>8. \A i \in 1 .. Len(p) : SubSeq(b, 1, Len(p))[i] = p[i]
    BY <1>1, <1>2, <1>4, <1>7
  <1>9. SubSeq(b, 1, Len(p)) = p
    BY <1>7, <1>8, SeqEqual
  <1> QED BY <1>1, <1>2, <1>4, <1>5, <1>6, <1>9 DEF X!IsPrefix

\* A read continues what was read.
LEMMA BodyPartGrows ==
  ASSUME message \in Messages, at \in End .. Len(message), NEW n \in X!Sizes(BufferSize)
  PROVE  /\ BodyPart(at) \o X!Chunk(n) = BodyPart(at + n)
         /\ at + n \in End .. Len(message) /\ Len(X!Chunk(n)) = n /\ n \in Nat
  <1>1. message \in Seq(Segments) /\ End \in 2 .. Len(message)
    BY MessageIs
  <1>2. at \in 0 .. Len(message)
    BY <1>1
  <1>3. /\ n \in 1 .. BufferSize /\ at + n \in 0 .. Len(message)
        /\ X!Chunk(n) \in Seq(Segments) /\ Len(X!Chunk(n)) = n /\ \A i \in 1 .. n : X!Chunk(n)[i] = message[at + i]
    BY <1>2, ChunkIs
  <1>4. n \in Nat /\ at + n \in End .. Len(message)
    BY <1>1, <1>3, BufferIsNat
  <1>5. PICK p \in Seq(Segments) : p = BodyPart(at) /\ Len(p) = at - End /\ \A i \in 1 .. at - End : p[i] = message[End + i]
    BY BodyPartIs
  <1>6. PICK q \in Seq(Segments) : /\ q = BodyPart(at + n) /\ Len(q) = at + n - End
                                   /\ \A i \in 1 .. at + n - End : q[i] = message[End + i]
    <2>1. PICK m : m = at + n
      OBVIOUS
    <2>2. m \in End .. Len(message)
      BY <1>4, <2>1
    <2>3. /\ BodyPart(m) \in Seq(Segments) /\ Len(BodyPart(m)) = m - End
          /\ \A i \in 1 .. m - End : BodyPart(m)[i] = message[End + i]
      BY <2>2, BodyPartIs
    <2>4. /\ BodyPart(at + n) \in Seq(Segments) /\ Len(BodyPart(at + n)) = at + n - End
          /\ \A i \in 1 .. at + n - End : BodyPart(at + n)[i] = message[End + i]
      BY <1>1, <1>2, <1>4, <2>1, <2>3
    <2> QED BY <2>4, Zenon
  <1>7. PICK c \in Seq(Segments) : c = X!Chunk(n) /\ Len(c) = n /\ \A i \in 1 .. n : c[i] = message[at + i]
    BY <1>3
  <1>8. p \o c \in Seq(Segments) /\ Len(p \o c) = Len(p) + Len(c)
        /\ \A i \in 1 .. Len(p) + Len(c) : (p \o c)[i] = IF i <= Len(p) THEN p[i] ELSE c[i - Len(p)]
    BY ConcatProperties
  <1>9. ASSUME NEW i \in 1 .. Len(q)
        PROVE  (p \o c)[i] = q[i]
    <2>1. i \in 1 .. Len(p) + Len(c) /\ q[i] = message[End + i]
      BY <1>1, <1>4, <1>5, <1>6, <1>7, <1>9
    <2>2. CASE i <= Len(p)
      BY <1>1, <1>5, <1>8, <2>1, <2>2
    <2>3. CASE ~(i <= Len(p))
      <3>1. PICK j : j = i - Len(p)
        OBVIOUS
      <3>2. j \in 1 .. n /\ at + j = End + i
        BY <1>1, <1>4, <1>5, <1>7, <2>1, <2>3, <3>1
      <3> QED BY <1>7, <1>8, <2>1, <2>3, <3>1, <3>2
    <2> QED BY <2>2, <2>3
  <1>10. Len(p \o c) = Len(q)
    BY <1>1, <1>4, <1>5, <1>6, <1>7, <1>8
  <1>11. p \o c = q
    BY <1>8, <1>9, <1>10, SeqEqual
  <1> QED BY <1>3, <1>4, <1>5, <1>6, <1>7, <1>11

\* A read within the headers: it ends them, or it does not.
NotSplit(n) == n = 0 \/ n = Len(message) \/ message[n] \notin {"length1", "end1"}
LengthSeen(n) == \E i \in 1 .. n : message[i] = "length1"

LEMMA HeadersGoOn ==
  ASSUME "split" \notin Oddities, message \in Messages, at \in 0 .. End - 1, NotSplit(at),
         length \in {0, X!LengthOf(message)}, LengthSeen(at) => length = X!LengthOf(message),
         NEW n \in X!Sizes(BufferSize), NEW r, r = X!readResponseHeaders(X!Chunk(n))
  PROVE  /\ at + n \in 0 .. Len(message) /\ NotSplit(at + n)
         /\ r.length \in {0, X!LengthOf(message)}
         /\ LengthSeen(at + n) => r.length = X!LengthOf(message)
         /\ at + n < End => r.error = "Negative" /\ r.body = X!Chunk(n) /\ ~X!Has(X!Chunk(n), "end1", "end2")
         /\ at + n >= End => /\ r.error = "Success" /\ r.body = BodyPart(at + n)
                             /\ r.length = X!LengthOf(message)
  <1>1. /\ message \in Seq(Segments) /\ End \in 2 .. Len(message)
        /\ message[End - 1] = "end1" /\ message[End] = "end2"
        /\ \A i \in 1 .. Len(message) :
              /\ message[i] = "end1" => i = End - 1
              /\ message[i] = "end2" => i = End
              /\ message[i] = "length1" => i < End /\ message[i + 1] = "length2"
        /\ End < Len(message) => \E i \in 1 .. Len(message) : message[i] = "length1"
    BY MessageIs
  <1>2. at \in 0 .. Len(message)
    BY <1>1
  <1>3. PICK c \in Seq(Segments) : /\ c = X!Chunk(n) /\ Len(c) = n /\ n \in 1 .. BufferSize /\ at + n \in 0 .. Len(message)
                                   /\ \A i \in 1 .. n : c[i] = message[at + i]
    BY <1>2, ChunkIs
  <1>4. n \in Nat \ {0} /\ at \in Nat /\ Len(message) \in Nat /\ End \in Nat
    BY <1>1, <1>3, BufferIsNat
  <1>5. NotSplit(at + n)
    BY <1>1, <1>3, <1>4 DEF X!Sizes, X!Splits, NotSplit
  <1>6. /\ r.length = IF X!Has(c, "length1", "length2") THEN X!LengthOf(message) ELSE length
        /\ r.body = IF X!Has(c, "end1", "end2") THEN X!WithoutHeaders(c) ELSE c
        /\ r.error = IF X!Has(c, "end1", "end2") THEN "Success" ELSE "Negative"
    BY <1>3 DEF X!readResponseHeaders
  <1>7. r.length \in {0, X!LengthOf(message)}
    BY <1>6
  <1>8. ASSUME LengthSeen(at + n)
        PROVE  r.length = X!LengthOf(message)
    <2>1. PICK i \in 1 .. at + n : message[i] = "length1"
      BY <1>8 DEF LengthSeen
    <2>2. i \in 1 .. Len(message)
      BY <1>3, <1>4
    <2>3. i < End /\ message[i + 1] = "length2"
      BY <1>1, <2>1, <2>2
    <2>4. CASE i <= at
      <3>1. i \in 1 .. at
        BY <1>4, <2>4
      <3> QED BY <1>6, <2>1, <3>1 DEF LengthSeen
    <2>5. CASE ~(i <= at)
      <3>1. i # at + n
        BY <1>1, <1>4, <1>5, <2>1, <2>3 DEF NotSplit
      <3>2. PICK j : j = i - at
        OBVIOUS
      <3>3. j \in 1 .. n - 1 /\ at + j = i /\ j + 1 \in 1 .. n /\ at + (j + 1) = i + 1
        BY <1>4, <2>5, <3>1, <3>2
      <3>4. j \in 1 .. n
        BY <1>4, <3>3
      <3>5. c[j] = "length1" /\ c[j + 1] = "length2"
        BY <1>3, <2>1, <2>3, <3>3, <3>4
      <3>6. X!Has(c, "length1", "length2")
        BY <1>3, <3>3, <3>5 DEF X!Has
      <3> QED BY <1>6, <3>6
    <2> QED BY <2>4, <2>5
  <1>9. ASSUME at + n < End
        PROVE  ~X!Has(c, "end1", "end2")
    <2> SUFFICES ASSUME X!Has(c, "end1", "end2") PROVE FALSE
      OBVIOUS
    <2>1. PICK k : k = X!EndOfHeaders(c)
      OBVIOUS
    <2>2. k \in 2 .. n /\ c[k] = "end2"
      BY <1>3, <2>1, WithoutHeadersIs
    <2>3. k \in 1 .. n /\ at + k \in 1 .. Len(message) /\ at + k < End
      BY <1>3, <1>4, <1>9, <2>2
    <2>4. message[at + k] = "end2"
      BY <1>3, <2>2, <2>3
    <2>5. at + k = End
      BY <1>1, <2>3, <2>4
    <2> QED BY <1>4, <2>3, <2>5
  <1>10. ASSUME at + n >= End
         PROVE  X!Has(c, "end1", "end2") /\ X!WithoutHeaders(c) = BodyPart(at + n) /\ r.length = X!LengthOf(message)
    <2>1. at # End - 1
      BY <1>1, <1>4 DEF NotSplit
    <2>2. PICK j : j = End - 1 - at
      OBVIOUS
    <2>3. j \in 1 .. n - 1 /\ at + j = End - 1 /\ at + (j + 1) = End /\ j \in 1 .. n /\ j + 1 \in 1 .. n
      BY <1>4, <1>10, <2>1, <2>2
    <2>4. c[j] = "end1" /\ c[j + 1] = "end2"
      BY <1>1, <1>3, <2>3
    <2>5. X!Has(c, "end1", "end2")
      BY <1>3, <2>3, <2>4 DEF X!Has
    <2>6. PICK k : /\ k = X!EndOfHeaders(c) /\ k \in 2 .. n /\ c[k] = "end2"
                   /\ X!WithoutHeaders(c) \in Seq(Segments) /\ Len(X!WithoutHeaders(c)) = n - k
      BY <1>3, <2>5, WithoutHeadersIs
    <2>7. k \in 1 .. n /\ at + k \in 1 .. Len(message)
      BY <1>3, <1>4, <2>6
    <2>8. at + k = End
      BY <1>1, <1>3, <2>6, <2>7
    <2>9. PICK p \in Seq(Segments) : /\ p = BodyPart(at + n) /\ Len(p) = at + n - End
                                     /\ \A i \in 1 .. at + n - End : p[i] = message[End + i]
      <3>1. PICK m : m = at + n
        OBVIOUS
      <3>2. m \in End .. Len(message)
        BY <1>3, <1>4, <1>10, <3>1
      <3>3. /\ BodyPart(m) \in Seq(Segments) /\ Len(BodyPart(m)) = m - End
            /\ \A i \in 1 .. m - End : BodyPart(m)[i] = message[End + i]
        BY <3>2, BodyPartIs
      <3>4. /\ BodyPart(at + n) \in Seq(Segments) /\ Len(BodyPart(at + n)) = at + n - End
            /\ \A i \in 1 .. at + n - End : BodyPart(at + n)[i] = message[End + i]
        BY <1>4, <3>1, <3>3
      <3> QED BY <3>4, Zenon
    <2>10. PICK w \in Seq(Segments) : w = X!WithoutHeaders(c) /\ Len(w) = n - k
      BY <2>6
    <2>11. ASSUME NEW i \in 1 .. Len(w)
           PROVE  w[i] = p[i]
      <3>1. k + 1 \in Int /\ n \in Int /\ \A l \in k + 1 .. n : c[l] \in Segments
        <4>1. k + 1 \in Int /\ n \in Int /\ k + 1 >= 1
          BY <1>4, <2>6
        <4>2. ASSUME NEW l \in k + 1 .. n
              PROVE  c[l] \in Segments
          <5>1. l \in 1 .. Len(c)
            BY <1>3, <1>4, <4>1
          <5> QED BY <5>1, ElementOfSeq
        <4> QED BY <4>1, <4>2
      <3>2. \A l \in 1 .. n - (k + 1) + 1 : SubSeq(c, k + 1, n)[l] = c[(k + 1) + l - 1]
        BY <3>1, SubSeqProperties
      <3>3. w = SubSeq(c, k + 1, n)
        BY <1>3, <2>6, <2>10 DEF X!WithoutHeaders
      <3>4. PICK m : m = k + i
        OBVIOUS
      <3>5. /\ i \in 1 .. n - (k + 1) + 1 /\ (k + 1) + i - 1 = m /\ m \in 1 .. n
            /\ at + m = End + i /\ i \in 1 .. at + n - End
        <4>1. i \in 1 .. n - k /\ k \in Nat /\ i \in Nat
          BY <1>4, <2>6, <2>10
        <4>2. i \in 1 .. n - (k + 1) + 1 /\ (k + 1) + i - 1 = m /\ m \in 1 .. n
          BY <1>4, <3>4, <4>1
        <4>3. at + m = End + i /\ i \in 1 .. at + n - End
          BY <1>4, <2>8, <3>4, <4>1
        <4> QED BY <4>2, <4>3
      <3>6. w[i] = c[m]
        BY <3>2, <3>3, <3>5
      <3>7. c[m] = message[End + i]
        BY <1>3, <3>5
      <3> QED BY <2>9, <3>5, <3>6, <3>7
    <2>12. Len(w) = Len(p)
      BY <1>4, <2>6, <2>8, <2>9, <2>10, SMTT(30)
    <2>13. w = p
      BY <2>11, <2>12, SeqEqual
    <2>14. r.length = X!LengthOf(message)
      <3>1. CASE End < Len(message)
        <4>1. PICK i \in 1 .. Len(message) : message[i] = "length1"
          BY <1>1, <3>1
        <4>2. i \in 1 .. at + n
          BY <1>1, <1>3, <1>4, <1>10, <4>1
        <4> QED BY <1>8, <4>1, <4>2 DEF LengthSeen
      <3>2. CASE ~(End < Len(message))
        <4>1. X!LengthOf(message) = 0
          BY <1>1, <3>2, BodyIs
        <4> QED BY <1>7, <4>1
      <3> QED BY <3>1, <3>2
    <2> QED BY <2>5, <2>9, <2>10, <2>13, <2>14
  <1> QED BY <1>3, <1>5, <1>6, <1>7, <1>8, <1>9, <1>10, <1>4

-----------------------------------------------------------------------------
(* The clients, when no read splits a header and no ticket is handed over. *)

Exact == ~X!IsServer /\ (receiver = "PosixHttps" => X!BodyOf(message) # <<>>)

\* Nothing of the body was read.
Before ==
  /\ at \in 0 .. End - 1 /\ received = <<>> /\ NotSplit(at)
  /\ length \in {0, X!LengthOf(message)}
  /\ LengthSeen(at) => length = X!LengthOf(message)

\* A part of the body was read, and the program has all of it.
Goes ==
  /\ at \in End .. Len(message) /\ at < Len(message)
  /\ received = BodyPart(at) /\ length = X!LengthOf(message)

ClientInv ==
  /\ X!IsPrefix(received, X!BodyOf(message))
  /\ transferPc = "program" => Goes \/ (Before /\ length = 0 /\ buffer = <<>>)
  /\ transferPc = "headers" => Before /\ ~X!Has(buffer, "end1", "end2")
  /\ transferPc = "body" => Goes
  /\ transferPc = "done" => received = X!BodyOf(message)

LEMMA SameMessage ==
  ASSUME UNCHANGED message
  PROVE  End' = End /\ X!BodyOf(message)' = X!BodyOf(message) /\ X!LengthOf(message)' = X!LengthOf(message)
  BY DEF End, X!BodyOf, X!LengthOf

\* A resize makes no end of the headers.
LEMMA ResizeEndsNothing ==
  ASSUME NEW b \in Seq(Segments), ~X!Has(b, "end1", "end2")
  PROVE  ~X!Has(X!Resized(b, BufferSize), "end1", "end2")
  <1>1. PICK s \in Seq(Segments) :
          /\ s = X!Resized(b, BufferSize) /\ Len(s) = BufferSize
          /\ \A i \in 1 .. BufferSize : s[i] = IF i <= Len(b) THEN b[i] ELSE X!Stale
    BY ResizedIs
  <1> SUFFICES ASSUME NEW i \in 1 .. Len(s) - 1, s[i] = "end1" /\ s[i + 1] = "end2" PROVE FALSE
    BY <1>1 DEF X!Has
  <1>2. PICK j : j = i + 1
    OBVIOUS
  <1>3. i \in 1 .. BufferSize /\ j \in 1 .. BufferSize /\ Len(b) \in Nat
    BY <1>1, <1>2, BufferIsNat, LenProperties
  <1>4. i <= Len(b) /\ j <= Len(b)
    BY <1>1, <1>2, <1>3 DEF X!Stale
  <1>5. i \in 1 .. Len(b) - 1 /\ b[i] = "end1" /\ b[i + 1] = "end2"
    BY <1>1, <1>2, <1>3, <1>4
  <1> QED BY <1>5 DEF X!Has

LEMMA EmptyEndsNothing == ~X!Has(<<>>, "end1", "end2") /\ <<>> \in Seq(Segments) /\ Len(<<>>) = 0
  <1>1. <<>> \in Seq(Segments) /\ Len(<<>>) = 0
    BY EmptySeq
  <1>2. ~\E i \in 1 .. Len(<<>>) - 1 : TRUE
    BY <1>1
  <1> QED BY <1>1, <1>2 DEF X!Has

LEMMA NothingIsTheFirstPart ==
  ASSUME message \in Messages
  PROVE  BodyPart(End) = <<>> /\ X!IsPrefix(<<>>, X!BodyOf(message))
  <1>1. message \in Seq(Segments) /\ End \in 2 .. Len(message) /\ End \in End .. Len(message)
    BY MessageIs
  <1>2. PICK p \in Seq(Segments) : p = BodyPart(End) /\ Len(p) = End - End
    BY <1>1, BodyPartIs
  <1>3. Len(p) = 0
    BY <1>1, <1>2
  <1>4. p = <<>>
    BY <1>3, EmptySeq
  <1> QED BY <1>1, <1>2, <1>4, PartIsPrefix

\* A call that returns the next part of the body, and with it what there was.
LEMMA ReturnGoes ==
  ASSUME message \in Messages, UNCHANGED message, received \in Seq(Segments), NEW b \in Seq(Segments),
         NEW m \in End .. Len(message), received \o b = BodyPart(m), at' = m,
         X!Return(b, X!LengthOf(message))
  PROVE  ClientInv'
  <1>1. message \in Seq(Segments) /\ End \in 2 .. Len(message) /\ X!BodyOf(message) = BodyPart(Len(message))
    BY MessageIs
  <1>2. X!LengthOf(message) = Len(message) - End
    BY BodyIs
  <1>3. Len(BodyPart(m)) = m - End
    BY BodyPartIs
  <1>4. Len(received \o b) = Len(received) + Len(b)
    BY ConcatProperties
  <1>5. /\ received' = BodyPart(m) /\ length' = X!LengthOf(message)
        /\ transferPc' = IF Len(received) + Len(b) < X!LengthOf(message) THEN "program" ELSE "done"
    BY DEF X!Return
  <1>6. X!IsPrefix(received', X!BodyOf(message))
    BY <1>5, PartIsPrefix
  <1>7. CASE m < Len(message)
    <2>1. BodyPart(m) = BodyPart(at)'
      BY SameMessage DEF BodyPart
    <2>2. Goes'
      BY <1>5, <1>7, <2>1, SameMessage DEF Goes
    <2>3. transferPc' = "program"
      BY <1>1, <1>2, <1>3, <1>4, <1>5, <1>7
    <2> QED BY <1>6, <2>2, <2>3, SameMessage DEF ClientInv
  <1>8. CASE ~(m < Len(message))
    <2>1. m = Len(message)
      BY <1>1, <1>8
    <2>2. transferPc' = "done"
      BY <1>1, <1>2, <1>3, <1>4, <1>5, <2>1
    <2>3. received' = X!BodyOf(message)
      BY <1>1, <1>5, <2>1
    <2> QED BY <1>6, <2>2, <2>3, SameMessage DEF ClientInv
  <1> QED BY <1>7, <1>8

\* A read of the headers.
LEMMA HeadersGo ==
  ASSUME "split" \notin Oddities, message \in Messages, UNCHANGED message, Before, ClientInv, transferPc = "headers",
         NEW n \in X!Sizes(BufferSize), NEW r, r = X!readResponseHeaders(X!Chunk(n)), at' = at + n,
         \/ /\ r.error = "Negative"
            /\ buffer' = X!Resized(X!Chunk(n), BufferSize) /\ length' = r.length /\ UNCHANGED <<transferPc, received>>
         \/ r.error # "Negative" /\ (X!Return(r.body, r.length) \/ X!ReturnError)
         \/ /\ r.error # "Negative" /\ r.body = <<>> /\ X!BodyOf(message) # <<>>
            /\ length' = r.length /\ transferPc' = "body" /\ UNCHANGED received
  PROVE  ClientInv'
  <1>0. message \in Seq(Segments) /\ End \in 2 .. Len(message)
    BY MessageIs
  <1>1. /\ at + n \in 0 .. Len(message) /\ NotSplit(at + n)
        /\ r.length \in {0, X!LengthOf(message)}
        /\ LengthSeen(at + n) => r.length = X!LengthOf(message)
        /\ at + n < End => r.error = "Negative" /\ r.body = X!Chunk(n) /\ ~X!Has(X!Chunk(n), "end1", "end2")
        /\ at + n >= End => /\ r.error = "Success" /\ r.body = BodyPart(at + n)
                            /\ r.length = X!LengthOf(message)
    BY HeadersGoOn DEF Before
  <1>2. X!Chunk(n) \in Seq(Segments)
    <2>1. at \in 0 .. Len(message)
      BY <1>0 DEF Before
    <2> QED BY <2>1, ChunkIs
  <1>3. received = <<>> /\ X!IsPrefix(<<>>, X!BodyOf(message))
    BY NothingIsTheFirstPart DEF Before
  <1>4. CASE at + n < End
    <2>1. /\ buffer' = X!Resized(X!Chunk(n), BufferSize) /\ length' = r.length /\ transferPc' = "headers" /\ received' = <<>>
      BY <1>1, <1>3, <1>4
    <2>2. ~X!Has(buffer', "end1", "end2")
      BY <1>1, <1>2, <1>4, <2>1, ResizeEndsNothing
    <2>3. at' \in 0 .. End' - 1
      BY <1>0, <1>1, <1>4, SameMessage
    <2>4. NotSplit(at)' /\ (LengthSeen(at)' => LengthSeen(at + n))
      BY <1>1 DEF NotSplit, LengthSeen
    <2>5. Before'
      BY <1>1, <2>1, <2>3, <2>4, SameMessage DEF Before
    <2>6. ~X!Has(buffer, "end1", "end2")'
      BY <2>2 DEF X!Has
    <2> QED BY <1>3, <2>1, <2>5, <2>6, SameMessage DEF ClientInv
  <1>5. CASE ~(at + n < End)
    <2>0. PICK m : m = at + n
      OBVIOUS
    <2>1. m \in End .. Len(message) /\ at + n >= End
      BY <1>0, <1>1, <1>5, <2>0
    <2>2. r.error = "Success" /\ r.body = BodyPart(m) /\ r.length = X!LengthOf(message)
      BY <1>1, <2>0, <2>1
    <2>3. BodyPart(m) \in Seq(Segments) /\ Len(BodyPart(m)) = m - End
      BY <2>1, BodyPartIs
    <2>4. CASE X!Return(r.body, r.length)
      <3>1. <<>> \o BodyPart(m) = BodyPart(m)
        BY <2>3, ConcatEmptySeq
      <3>2. <<>> \in Seq(Segments)
        BY EmptySeq
      <3> QED BY <1>3, <2>0, <2>1, <2>2, <2>3, <2>4, <3>1, <3>2, ReturnGoes
    <2>5. CASE X!ReturnError
      BY <1>3, <2>5, SameMessage DEF ClientInv, X!ReturnError
    <2>6. CASE /\ r.body = <<>> /\ X!BodyOf(message) # <<>>
               /\ length' = r.length /\ transferPc' = "body" /\ UNCHANGED received
      <3>1. m - End = 0
        BY <2>2, <2>3, <2>6, EmptySeq
      <3>2. m = End
        BY <1>0, <2>1, <3>1
      <3>3. Len(message) # End
        <4>1. X!BodyOf(message) \in Seq(Segments) /\ Len(X!BodyOf(message)) = Len(message) - End
          BY BodyIs
        <4>2. Len(X!BodyOf(message)) # 0
          BY <2>6, <4>1, EmptySeq
        <4> QED BY <1>0, <4>1, <4>2
      <3>4. m < Len(message)
        BY <1>0, <3>2, <3>3
      <3>5. received' = BodyPart(m)
        BY <1>3, <2>2, <2>6
      <3>6. BodyPart(m) = BodyPart(at)'
        BY <2>0, SameMessage DEF BodyPart
      <3>7. Goes'
        BY <2>0, <2>1, <2>2, <2>6, <3>4, <3>5, <3>6, SameMessage DEF Goes
      <3> QED BY <1>3, <2>6, <3>7, SameMessage DEF ClientInv
    <2> QED BY <2>2, <2>4, <2>5, <2>6
  <1> QED BY <1>4, <1>5

\* No read ends between the halves of a header, and TLS hands over no session ticket.
ReadsAreWhole == "split" \notin Oddities /\ "ticket" \notin Oddities

LEMMA ClientStarts ==
  ASSUME X!Init
  PROVE  ClientInv
  <1>1. message \in Messages
    BY DEF X!Init
  <1>2. message \in Seq(Segments) /\ End \in 2 .. Len(message)
    BY <1>1, MessageIs
  <1>3. at \in 0 .. End - 1
    BY <1>2 DEF X!Init
  <1>4. ~LengthSeen(at)
    BY DEF LengthSeen, X!Init
  <1>5. Before
    BY <1>3, <1>4 DEF Before, NotSplit, X!Init
  <1> QED BY <1>1, <1>5, NothingIsTheFirstPart DEF ClientInv, X!Init

\* A read of the body.
LEMMA BodyGoes ==
  ASSUME message \in Messages, UNCHANGED message, received \in Seq(Segments), Goes, NEW n \in X!Sizes(BufferSize),
         at' = at + n, X!Return(X!Chunk(n), length)
  PROVE  ClientInv'
  <1>1. /\ at \in End .. Len(message) /\ received = BodyPart(at) /\ length = X!LengthOf(message)
    BY DEF Goes
  <1>2. at \in 0 .. Len(message)
    BY <1>1, MessageIs
  <1>3. X!Chunk(n) \in Seq(Segments)
    BY <1>2, ChunkIs
  <1>4. at + n \in End .. Len(message) /\ received \o X!Chunk(n) = BodyPart(at + n)
    BY <1>1, BodyPartGrows
  <1>5. PICK m \in End .. Len(message) : m = at + n
    BY <1>4
  <1>6. received \o X!Chunk(n) = BodyPart(m) /\ at' = m
    BY <1>4, <1>5
  <1> QED BY <1>1, <1>3, <1>6, ReturnGoes

LEMMA HttpsClientKeeps ==
  ASSUME ReadsAreWhole, TransferTypes, ClientInv, Exact, X!HttpsHeaders \/ X!HttpsBody
  PROVE  ClientInv'
  <1>0. /\ message \in Messages /\ UNCHANGED message /\ received \in Seq(Segments) /\ buffer \in Seq(Segments)
        /\ receiver \in {"PosixHttps", "EspHttps"}
    BY DEF TransferTypes, X!TypeOK, X!HttpsHeaders, X!HttpsBody
  <1>1. CASE X!ReturnError
    BY <1>0, <1>1, SameMessage DEF ClientInv, X!ReturnError
  <1>2. CASE X!HttpsHeaders
    <2>0. transferPc = "headers" /\ Before /\ ~X!Has(buffer, "end1", "end2")
      BY <1>2 DEF X!HttpsHeaders, ClientInv
    <2>1. CASE \E n \in X!Sizes(BufferSize) : X!HeadersRead(X!Chunk(n)) /\ at' = at + n
      <3>1. PICK n \in X!Sizes(BufferSize) : X!HeadersRead(X!Chunk(n)) /\ at' = at + n
        BY <2>1
      <3>2. PICK r : r = X!readResponseHeaders(X!Chunk(n))
        OBVIOUS
      <3>3. \/ /\ r.error = "Negative"
               /\ buffer' = X!Resized(X!Chunk(n), BufferSize) /\ length' = r.length /\ UNCHANGED <<transferPc, received>>
            \/ r.error # "Negative" /\ (X!Return(r.body, r.length) \/ X!ReturnError)
            \/ /\ r.error # "Negative" /\ r.body = <<>> /\ X!BodyOf(message) # <<>>
               /\ length' = r.length /\ transferPc' = "body" /\ UNCHANGED received
        BY <1>0, <3>1, <3>2 DEF X!HeadersRead, Exact
      <3> QED BY <1>0, <2>0, <3>1, <3>2, <3>3, HeadersGo DEF ReadsAreWhole
    <2>2. CASE X!HeadersRead(IF receiver = "PosixHttps" THEN buffer ELSE <<>>) /\ UNCHANGED at
      <3>1. PICK b \in Seq(Segments) : X!HeadersRead(b) /\ ~X!Has(b, "end1", "end2")
        BY <1>0, <2>0, <2>2, EmptyEndsNothing
      <3>2. PICK l : l \in {length, X!LengthOf(message)} /\ length' = l
        BY <3>1 DEF X!HeadersRead, X!readResponseHeaders
      <3>3. buffer' = X!Resized(b, BufferSize) /\ UNCHANGED <<transferPc, received>>
        BY <3>1 DEF X!HeadersRead, X!readResponseHeaders
      <3>4. ~X!Has(buffer, "end1", "end2")'
        <4>1. ~X!Has(buffer', "end1", "end2")
          BY <3>1, <3>3, ResizeEndsNothing
        <4> QED BY <4>1 DEF X!Has
      <3>5. Before'
        <4>1. NotSplit(at)' /\ (LengthSeen(at)' => LengthSeen(at))
          BY <1>0, <2>0, <2>2 DEF NotSplit, LengthSeen, Before
        <4> QED BY <1>0, <2>0, <2>2, <3>2, <3>3, <4>1, SameMessage DEF Before
      <3> QED BY <1>0, <2>0, <3>3, <3>4, <3>5, SameMessage DEF ClientInv
    <2> QED BY <1>1, <1>2, <2>1, <2>2 DEF X!HttpsHeaders
  <1>3. CASE X!HttpsBody
    <2>0. transferPc = "body" /\ Goes
      BY <1>3 DEF X!HttpsBody, ClientInv
    <2>1. CASE \E n \in X!Sizes(BufferSize) : X!Return(X!Chunk(n), length) /\ at' = at + n
      BY <1>0, <2>0, <2>1, BodyGoes
    <2>2. CASE UNCHANGED <<transferPc, length, buffer, received, at>>
      <3>1. Goes'
        <4>1. BodyPart(at)' = BodyPart(at)
          BY <1>0, <2>2 DEF BodyPart, End
        <4> QED BY <1>0, <2>0, <2>2, <4>1, SameMessage DEF Goes
      <3> QED BY <1>0, <2>0, <2>2, <3>1, SameMessage DEF ClientInv
    <2>3. at # Len(message)
      <3>1. Len(message) \in Nat
        BY <1>0, MessageIs, LenProperties
      <3> QED BY <2>0, <3>1 DEF Goes
    <2> QED BY <1>1, <1>3, <2>1, <2>2, <2>3 DEF X!HttpsBody, ReadsAreWhole
  <1> QED BY <1>2, <1>3

LEMMA HttpClientKeeps ==
  ASSUME ReadsAreWhole, TransferTypes, ClientInv, Exact, X!HttpClientReceive
  PROVE  ClientInv'
  <1>0. /\ message \in Messages /\ UNCHANGED message /\ received \in Seq(Segments)
        /\ ~X!IsServer /\ transferPc \in {"headers", "body"} /\ X!SocketRead
    BY DEF TransferTypes, X!TypeOK, X!HttpClientReceive, Exact
  <1>1. CASE X!ReturnError
    BY <1>0, <1>1, SameMessage DEF ClientInv, X!ReturnError
  <1>2. CASE ~X!ReturnError
    <2>1. PICK n \in X!Sizes(BufferSize) :
            LET r == X!readResponseHeaders(X!Chunk(n)) IN
            /\ at' = at + n
            /\ IF transferPc = "headers" /\ r.error = "Negative"
               THEN buffer' = X!Resized(r.body, BufferSize) /\ length' = r.length /\ UNCHANGED <<transferPc, received>>
               ELSE IF transferPc = "headers" THEN X!Return(r.body, r.length) ELSE X!Return(X!Chunk(n), length)
      BY <1>0, <1>2 DEF X!SocketRead
    <2>2. CASE transferPc = "headers"
      <3>1. PICK r : r = X!readResponseHeaders(X!Chunk(n))
        OBVIOUS
      <3>2. r.error = "Negative" => r.body = X!Chunk(n)
        BY <3>1 DEF X!readResponseHeaders
      <3>3. \/ /\ r.error = "Negative"
               /\ buffer' = X!Resized(X!Chunk(n), BufferSize) /\ length' = r.length /\ UNCHANGED <<transferPc, received>>
            \/ r.error # "Negative" /\ X!Return(r.body, r.length)
        BY <2>1, <2>2, <3>1, <3>2
      <3>4. Before /\ at' = at + n
        BY <2>1, <2>2 DEF ClientInv
      <3> QED BY <1>0, <2>2, <3>1, <3>3, <3>4, HeadersGo DEF ReadsAreWhole
    <2>3. CASE transferPc = "body"
      BY <1>0, <2>1, <2>3, BodyGoes DEF ClientInv
    <2> QED BY <1>0, <2>2, <2>3
  <1> QED BY <1>1, <1>2

LEMMA ClientKeeps ==
  ASSUME ReadsAreWhole, TransferTypes, Exact, ClientInv, [X!Next]_transferVars
  PROVE  ClientInv'
  <1>0. message \in Messages /\ ~X!IsServer
    BY DEF TransferTypes, X!TypeOK, Exact
  <1>1. CASE X!Receive
    <2>0. UNCHANGED <<message, at, length, received>> /\ transferPc = "program"
      BY <1>1 DEF X!Receive
    <2>1. CASE Goes
      <3>1. length # 0
        <4>1. X!LengthOf(message) = Len(message) - End /\ End \in 2 .. Len(message) /\ message \in Seq(Segments)
          BY <1>0, BodyIs, MessageIs
        <4> QED BY <2>1, <4>1 DEF Goes
      <3>2. transferPc' = "body"
        BY <1>1, <3>1 DEF X!Receive
      <3>3. Goes'
        <4>1. BodyPart(at)' = BodyPart(at)
          BY <2>0 DEF BodyPart, End
        <4> QED BY <2>0, <2>1, <4>1, SameMessage DEF Goes
      <3> QED BY <2>0, <3>2, <3>3, SameMessage DEF ClientInv
    <2>2. CASE Before /\ length = 0 /\ buffer = <<>>
      <3>1. transferPc' = "headers" /\ buffer' = X!Resized(<<>>, BufferSize)
        BY <1>1, <2>2 DEF X!Receive
      <3>2. ~X!Has(buffer', "end1", "end2")
        BY <3>1, EmptyEndsNothing, ResizeEndsNothing
      <3>3. ~X!Has(buffer, "end1", "end2")'
        BY <3>2 DEF X!Has
      <3>4. Before'
        <4>1. NotSplit(at)' /\ (LengthSeen(at)' => LengthSeen(at))
          BY <2>0, <2>2 DEF NotSplit, LengthSeen, Before
        <4> QED BY <2>0, <2>2, <4>1, SameMessage DEF Before
      <3> QED BY <2>0, <3>1, <3>3, <3>4, SameMessage DEF ClientInv
    <2> QED BY <2>0, <2>1, <2>2 DEF ClientInv
  <1>2. CASE X!PosixHttpsReceive \/ X!EspHttpsReceive
    BY <1>2, HttpsClientKeeps DEF X!PosixHttpsReceive, X!EspHttpsReceive
  <1>3. CASE X!HttpClientReceive
    BY <1>3, HttpClientKeeps
  <1>4. CASE X!PosixServerReceive \/ X!EspServerReceive
    BY <1>0, <1>4 DEF X!PosixServerReceive, X!EspServerReceive, X!IsServer
  <1>5. CASE UNCHANGED transferVars
    <2>1. UNCHANGED <<message, at, length, received, transferPc, buffer>>
      BY <1>5 DEF transferVars
    <2>2. (Goes <=> Goes') /\ (Before <=> Before') /\ (X!Has(buffer, "end1", "end2") <=> X!Has(buffer, "end1", "end2")')
      BY <2>1 DEF Goes, Before, BodyPart, End, NotSplit, LengthSeen, X!Has, X!LengthOf, X!BodyOf
    <2> QED BY <2>1, <2>2, SameMessage DEF ClientInv
  <1> QED BY <1>1, <1>2, <1>3, <1>4, <1>5 DEF X!Next

TransferInv == TransferTypes /\ (ReadsAreWhole /\ Exact => ClientInv)

LEMMA TransferKeeps ==
  ASSUME TransferInv, [X!Next]_transferVars
  PROVE  TransferInv'
  <1>1. TransferTypes'
    BY TransferTypesKeep DEF TransferInv
  <1>2. ASSUME ReadsAreWhole', Exact'
        PROVE  ClientInv'
    <2>1. UNCHANGED <<receiver, message>>
      BY DEF X!Next, X!Receive, X!PosixHttpsReceive, X!EspHttpsReceive, X!HttpsHeaders, X!HttpsBody,
             X!HttpClientReceive, X!PosixServerReceive, X!EspServerReceive, transferVars
    <2>2. ReadsAreWhole /\ Exact
      BY <1>2, <2>1 DEF ReadsAreWhole, Exact, X!IsServer, X!BodyOf
    <2> QED BY <2>2, ClientKeeps DEF TransferInv
  <1> QED BY <1>1, <1>2 DEF TransferInv

TransferPart == part = "transfer" => TransferInv

LEMMA TransferAlways == PartSpec => []TransferPart
  <1>1. PartInit => TransferPart
    BY TransferStarts, ClientStarts DEF PartInit, TransferPart, TransferInv
  <1>2. TransferPart /\ [PartNext]_allVars => TransferPart'
    <2> SUFFICES ASSUME part = "transfer", TransferInv, [X!Next]_transferVars
                 PROVE  TransferInv'
      BY PartSteps DEF TransferPart
    <2> QED BY TransferKeeps
  <1> QED BY <1>1, <1>2, PTL DEF PartSpec

\* When no read ends between the halves of a header and TLS hands over no session ticket,
\* what a client hands over is the beginning of the body, and the whole of it when it is done:
\* for every message, size of the buffer and way the message is cut into reads.
THEOREM ResponsesArrive == ReadsAreWhole /\ PartSpec => []BodyArrives
  <1> SUFFICES ASSUME ReadsAreWhole
               PROVE  PartSpec => []BodyArrives
    OBVIOUS
  <1>1. TransferPart => BodyArrives
    <2> SUFFICES ASSUME part = "transfer", TransferInv, Exact
                 PROVE  X!BodyIsExact
      BY DEF BodyArrives, TransferPart, X!ClientsGetTheBody, Exact
    <2> QED BY DEF TransferInv, ClientInv, X!BodyIsExact
  <1> QED BY <1>1, TransferAlways, PTL

-----------------------------------------------------------------------------
(* The HTTP server of the CC32xx.                                          *)

\* No request is queued twice.
AppInv ==
  /\ Z!TypeOK /\ Z!PendingIsServed
  /\ appQueue \in Seq(AppRequests) /\ appEvents \in Seq(AppRequests)
  /\ \A i, j \in 1 .. Len(appQueue) : appQueue[i] = appQueue[j] => i = j
  /\ servers \in Nat \ {0}

LEMMA MembersAre ==
  ASSUME NEW T, NEW s \in Seq(T)
  PROVE  Z!ToSet(s) = {s[i] : i \in 1 .. Len(s)} /\ Z!ToSet(s) \subseteq T
  BY DEF Z!ToSet

LEMMA MembersOfAppended ==
  ASSUME NEW T, NEW s \in Seq(T), NEW x \in T
  PROVE  Append(s, x) \in Seq(T) /\ Len(Append(s, x)) = Len(s) + 1 /\ Z!ToSet(Append(s, x)) = Z!ToSet(s) \cup {x}
  <1>1. PICK a \in Seq(T) : a = Append(s, x) /\ Len(a) = Len(s) + 1 /\ a[Len(s) + 1] = x /\ \A i \in 1 .. Len(s) : a[i] = s[i]
    <2>1. /\ Append(s, x) \in Seq(T) /\ Len(Append(s, x)) = Len(s) + 1 /\ Append(s, x)[Len(s) + 1] = x
          /\ \A i \in 1 .. Len(s) : Append(s, x)[i] = s[i]
      BY AppendProperties
    <2> QED BY <2>1, Zenon
  <1>2. Z!ToSet(a) = {a[i] : i \in 1 .. Len(s) + 1} /\ Z!ToSet(s) = {s[i] : i \in 1 .. Len(s)}
    <2>1. DOMAIN a = 1 .. Len(s) + 1 /\ DOMAIN s = 1 .. Len(s)
      BY <1>1
    <2> QED BY <2>1, Zenon DEF Z!ToSet
  <1>3. 1 .. Len(s) + 1 = (1 .. Len(s)) \cup {Len(s) + 1}
    OBVIOUS
  <1>4. {a[i] : i \in 1 .. Len(s) + 1} = {s[i] : i \in 1 .. Len(s)} \cup {x}
    BY <1>1, <1>3
  <1> QED BY <1>1, <1>2, <1>4

LEMMA MembersOfTail ==
  ASSUME NEW T, NEW s \in Seq(T), s # <<>>
  PROVE  /\ Tail(s) \in Seq(T) /\ Len(Tail(s)) = Len(s) - 1 /\ Len(s) \in Nat \ {0}
         /\ Head(s) = s[1] /\ Head(s) \in T
         /\ \A i \in 1 .. Len(s) - 1 : Tail(s)[i] = s[i + 1]
         /\ Z!ToSet(s) = Z!ToSet(Tail(s)) \cup {Head(s)}
  <1>1. PICK t \in Seq(T) : /\ t = Tail(s) /\ Len(t) = Len(s) - 1 /\ Len(s) \in Nat \ {0}
                            /\ \A i \in 1 .. Len(s) - 1 : t[i] = s[i + 1]
    <2>1. /\ Tail(s) \in Seq(T) /\ Len(Tail(s)) = Len(s) - 1 /\ Len(s) \in Nat \ {0}
          /\ \A i \in 1 .. Len(s) - 1 : Tail(s)[i] = s[i + 1]
      BY HeadTailProperties, EmptySeq, LenProperties
    <2> QED BY <2>1, Zenon
  <1>2. Head(s) = s[1] /\ Head(s) \in T
    BY <1>1
  <1>3. Z!ToSet(t) = {t[i] : i \in 1 .. Len(s) - 1} /\ Z!ToSet(s) = {s[i] : i \in 1 .. Len(s)}
    <2>1. DOMAIN t = 1 .. Len(s) - 1 /\ DOMAIN s = 1 .. Len(s)
      BY <1>1
    <2> QED BY <2>1, Zenon DEF Z!ToSet
  <1>4. ASSUME NEW i \in 1 .. Len(s)
        PROVE  s[i] \in {t[j] : j \in 1 .. Len(s) - 1} \cup {s[1]}
    <2>1. CASE i = 1
      BY <2>1
    <2>2. CASE i # 1
      <3>1. PICK j : j = i - 1
        OBVIOUS
      <3>2. j \in 1 .. Len(s) - 1 /\ j + 1 = i
        BY <1>1, <2>2, <3>1
      <3> QED BY <1>1, <3>2
    <2> QED BY <2>1, <2>2
  <1>5. ASSUME NEW j \in 1 .. Len(s) - 1
        PROVE  t[j] \in {s[i] : i \in 1 .. Len(s)}
    <2>1. j + 1 \in 1 .. Len(s) /\ t[j] = s[j + 1]
      BY <1>1
    <2> QED BY <2>1
  <1>6. s[1] \in {s[i] : i \in 1 .. Len(s)}
    BY <1>1
  <1>7. {s[i] : i \in 1 .. Len(s)} = {t[j] : j \in 1 .. Len(s) - 1} \cup {s[1]}
    BY <1>4, <1>5, <1>6
  <1> QED BY <1>1, <1>2, <1>3, <1>7

LEMMA AppStarts ==
  ASSUME Z!Init
  PROVE  AppInv
  <1>1. appQueue = <<>> /\ appEvents = <<>> /\ <<>> \in Seq(AppRequests) /\ Len(<<>>) = 0
    BY EmptySeq DEF Z!Init
  <1>2. Z!ToSet(<<>>) = {}
    BY <1>1 DEF Z!ToSet
  <1>3. QueueLength \in Nat
    BY Parameters DEF Z!NetAppAssumption
  <1>4. arrived = {} /\ DOMAIN appStatus = {} /\ copies = {} /\ receiving = Z!NoRequest /\ answered = {} /\ failed = {} /\ servers = 1
    BY DEF Z!Init
  <1>5. Z!TypeOK
    BY <1>1, <1>2, <1>3, <1>4 DEF Z!TypeOK
  <1>6. Z!PendingIsServed
    BY <1>1, <1>2, <1>4 DEF Z!PendingIsServed
  <1> QED BY <1>1, <1>4, <1>5, <1>6 DEF AppInv

\* A request comes.
LEMMA ArrivalKeeps ==
  ASSUME AppInv, NEW r \in AppRequests, Z!SimpleLinkNetAppRequestEventHandler(r)
  PROVE  AppInv'
  <1>1. /\ r \notin arrived /\ arrived' = arrived \cup {r}
        /\ UNCHANGED <<receiving, appEvents, answered, failed, servers>>
        /\ copies' = (IF r.method \in Z!Deferred THEN copies \cup {r} ELSE copies)
    BY DEF Z!SimpleLinkNetAppRequestEventHandler
  <1>2. /\ arrived \subseteq AppRequests /\ DOMAIN appStatus = arrived /\ Z!ToSet(appQueue) \subseteq arrived
        /\ copies \subseteq arrived /\ receiving \in arrived \cup {Z!NoRequest} /\ Z!ToSet(appEvents) \subseteq arrived
        /\ answered \subseteq arrived /\ failed \subseteq arrived /\ Len(appQueue) <= QueueLength
        /\ appQueue \in Seq(AppRequests) /\ appEvents \in Seq(AppRequests) /\ servers \in Nat \ {0}
        /\ \A i, j \in 1 .. Len(appQueue) : appQueue[i] = appQueue[j] => i = j
        /\ QueueLength \in Nat
    BY Parameters DEF AppInv, Z!TypeOK, Z!NetAppAssumption
  <1>3. /\ servers = 1 => \A s \in arrived : appStatus[s] = "pending" /\ s.app = "http" =>
             s \in Z!ToSet(appQueue) \cup {receiving} \cup Z!ToSet(appEvents) \cup answered \cup failed
        /\ Z!ToSet(appQueue) \subseteq copies
    BY DEF AppInv, Z!PendingIsServed
  <1>4. PICK word : appStatus' = Z!Status(r, word) /\ (Z!QueueRequest(r) \/ (word = "none" /\ UNCHANGED appQueue))
    BY DEF Z!SimpleLinkNetAppRequestEventHandler, Z!QueueRequest, Z!RefuseRequest
  <1>5. /\ DOMAIN appStatus' = arrived' /\ appStatus'[r] = word
        /\ \A s \in arrived : appStatus'[s] = appStatus[s]
    BY <1>1, <1>2, <1>4 DEF Z!Status
  <1>6. CASE Z!QueueRequest(r)
    <2>1. /\ appQueue' \in Seq(AppRequests) /\ Len(appQueue') = Len(appQueue) + 1
          /\ Z!ToSet(appQueue') = Z!ToSet(appQueue) \cup {r} /\ appQueue' = Append(appQueue, r)
      BY <1>2, <1>6, MembersOfAppended DEF Z!QueueRequest
    <2>2. Len(appQueue') <= QueueLength /\ r \in copies'
      BY <1>1, <1>2, <1>6, <2>1, LenProperties DEF Z!QueueRequest
    <2>3. ASSUME NEW i \in 1 .. Len(appQueue'), NEW j \in 1 .. Len(appQueue'), appQueue'[i] = appQueue'[j]
          PROVE  i = j
      <3>1. \A k \in 1 .. Len(appQueue) : appQueue'[k] = appQueue[k] /\ appQueue[k] # r
        <4>1. \A k \in 1 .. Len(appQueue) : appQueue[k] \in Z!ToSet(appQueue)
          BY <1>2, MembersAre
        <4> QED BY <1>1, <1>2, <2>1, <4>1
      <3>2. appQueue'[Len(appQueue) + 1] = r /\ Len(appQueue) \in Nat
        BY <1>2, <2>1
      <3> QED BY <1>2, <2>1, <2>3, <3>1, <3>2
    <2>4. Z!TypeOK'
      BY <1>1, <1>2, <1>5, <2>1, <2>2 DEF Z!TypeOK, Z!ToSet
    <2>5. Z!PendingIsServed'
      BY <1>1, <1>2, <1>3, <1>5, <2>1, <2>2, SMTT(30) DEF Z!PendingIsServed, Z!ToSet
    <2> QED BY <1>1, <1>2, <2>1, <2>3, <2>4, <2>5 DEF AppInv
  <1>7. CASE word = "none" /\ UNCHANGED appQueue
    <2>4. Z!TypeOK'
      BY <1>1, <1>2, <1>5, <1>7 DEF Z!TypeOK, Z!ToSet
    <2>5. Z!PendingIsServed'
      BY <1>1, <1>2, <1>3, <1>5, <1>7 DEF Z!PendingIsServed, Z!ToSet
    <2> QED BY <1>1, <1>2, <1>7, <2>4, <2>5 DEF AppInv
  <1> QED BY <1>4, <1>6, <1>7

LEMMA ReceptionKeeps ==
  ASSUME AppInv, Z!ReceiveRequest
  PROVE  AppInv'
  <1>1. /\ UNCHANGED <<arrived, appStatus, appEvents, answered, failed, servers>>
        /\ receiving = Z!NoRequest /\ appQueue # <<>> /\ appQueue' = Tail(appQueue)
        /\ IF Head(appQueue).app = "http" THEN receiving' = Head(appQueue) /\ copies' = copies \ {Head(appQueue)}
           ELSE UNCHANGED <<receiving, copies>>
    BY DEF Z!ReceiveRequest
  <1>2. /\ arrived \subseteq AppRequests /\ DOMAIN appStatus = arrived /\ Z!ToSet(appQueue) \subseteq arrived
        /\ copies \subseteq arrived /\ Z!ToSet(appEvents) \subseteq arrived
        /\ answered \subseteq arrived /\ failed \subseteq arrived /\ Len(appQueue) <= QueueLength
        /\ appQueue \in Seq(AppRequests) /\ appEvents \in Seq(AppRequests) /\ servers \in Nat \ {0}
        /\ \A i, j \in 1 .. Len(appQueue) : appQueue[i] = appQueue[j] => i = j
        /\ QueueLength \in Nat /\ Z!NoRequest \notin AppRequests
    BY Parameters DEF AppInv, Z!TypeOK, Z!NetAppAssumption
  <1>3. /\ servers = 1 => \A s \in arrived : appStatus[s] = "pending" /\ s.app = "http" =>
             s \in Z!ToSet(appQueue) \cup {receiving} \cup Z!ToSet(appEvents) \cup answered \cup failed
        /\ Z!ToSet(appQueue) \subseteq copies
    BY DEF AppInv, Z!PendingIsServed
  <1>4. PICK h : h = Head(appQueue)
    OBVIOUS
  <1>5. /\ appQueue' \in Seq(AppRequests) /\ Len(appQueue') = Len(appQueue) - 1 /\ Len(appQueue) \in Nat \ {0}
        /\ h = appQueue[1] /\ \A i \in 1 .. Len(appQueue) - 1 : appQueue'[i] = appQueue[i + 1]
        /\ Z!ToSet(appQueue) = Z!ToSet(appQueue') \cup {h}
    BY <1>1, <1>2, <1>4, MembersOfTail
  <1>6. h \notin Z!ToSet(appQueue')
    <2> SUFFICES ASSUME NEW i \in 1 .. Len(appQueue'), appQueue'[i] = h PROVE FALSE
      BY <1>5, MembersAre
    <2>1. i + 1 \in 1 .. Len(appQueue) /\ 1 \in 1 .. Len(appQueue) /\ i + 1 # 1 /\ appQueue[i + 1] = appQueue[1]
      BY <1>5
    <2> QED BY <1>2, <2>1
  <1>7. ASSUME NEW i \in 1 .. Len(appQueue'), NEW j \in 1 .. Len(appQueue'), appQueue'[i] = appQueue'[j]
        PROVE  i = j
    <2>1. i + 1 \in 1 .. Len(appQueue) /\ j + 1 \in 1 .. Len(appQueue) /\ appQueue[i + 1] = appQueue[j + 1]
      BY <1>5, <1>7
    <2>2. i + 1 = j + 1
      BY <1>2, <2>1
    <2> QED BY <2>2
  <1>8. h \in arrived /\ receiving' \in arrived \cup {Z!NoRequest} /\ copies' \subseteq arrived
        /\ Z!ToSet(appQueue') \subseteq copies' /\ Len(appQueue') <= QueueLength
    BY <1>1, <1>2, <1>3, <1>4, <1>5, <1>6
  <1>9. Z!TypeOK'
    BY <1>1, <1>2, <1>5, <1>8 DEF Z!TypeOK, Z!ToSet
  <1>10. ASSUME servers = 1, NEW s \in arrived, appStatus[s] = "pending", s.app = "http"
         PROVE  s \in Z!ToSet(appQueue') \cup {receiving'} \cup Z!ToSet(appEvents) \cup answered \cup failed
    <2>1. s # receiving
      BY <1>1, <1>2
    <2>2. s \in Z!ToSet(appQueue') \cup {h} \cup Z!ToSet(appEvents) \cup answered \cup failed
      BY <1>3, <1>5, <1>10, <2>1
    <2>3. s = h => s = receiving'
      BY <1>1, <1>4, <1>10
    <2> QED BY <2>2, <2>3
  <1>11. Z!PendingIsServed'
    BY <1>1, <1>8, <1>10 DEF Z!PendingIsServed, Z!ToSet
  <1> QED BY <1>1, <1>2, <1>5, <1>7, <1>9, <1>11 DEF AppInv

LEMMA AnswerKeeps ==
  ASSUME AppInv, Z!SendNonBlocking \/ Z!RunSend
  PROVE  AppInv'
  <1>1. /\ UNCHANGED <<arrived, appStatus, appQueue, copies, servers>>
    BY DEF Z!SendNonBlocking, Z!RunSend
  <1>2. /\ arrived \subseteq AppRequests /\ DOMAIN appStatus = arrived /\ Z!ToSet(appQueue) \subseteq arrived
        /\ copies \subseteq arrived /\ receiving \in arrived \cup {Z!NoRequest} /\ Z!ToSet(appEvents) \subseteq arrived
        /\ answered \subseteq arrived /\ failed \subseteq arrived /\ Len(appQueue) <= QueueLength
        /\ appQueue \in Seq(AppRequests) /\ appEvents \in Seq(AppRequests) /\ servers \in Nat \ {0}
        /\ \A i, j \in 1 .. Len(appQueue) : appQueue[i] = appQueue[j] => i = j
        /\ Z!NoRequest \notin AppRequests
    BY Parameters DEF AppInv, Z!TypeOK, Z!NetAppAssumption
  <1>3. /\ servers = 1 => \A s \in arrived : appStatus[s] = "pending" /\ s.app = "http" =>
             s \in Z!ToSet(appQueue) \cup {receiving} \cup Z!ToSet(appEvents) \cup answered \cup failed
        /\ Z!ToSet(appQueue) \subseteq copies
    BY DEF AppInv, Z!PendingIsServed
  <1>4. /\ appEvents' \in Seq(AppRequests) /\ Z!ToSet(appEvents') \subseteq arrived
        /\ receiving' \in arrived \cup {Z!NoRequest} /\ answered' \subseteq arrived /\ failed' \subseteq arrived
        /\ {receiving} \cup Z!ToSet(appEvents) \cup answered \cup failed
             \subseteq {Z!NoRequest} \cup {receiving'} \cup Z!ToSet(appEvents') \cup answered' \cup failed'
    <2>1. CASE Z!SendNonBlocking
      <3>1. receiving \in AppRequests /\ receiving \in arrived
        BY <1>2, <2>1 DEF Z!SendNonBlocking
      <3>2. appEvents' \in Seq(AppRequests) /\ Z!ToSet(appEvents') = Z!ToSet(appEvents) \cup {receiving}
        BY <1>2, <2>1, <3>1, MembersOfAppended DEF Z!SendNonBlocking
      <3>3. receiving' = Z!NoRequest /\ UNCHANGED <<answered, failed>>
        BY <2>1 DEF Z!SendNonBlocking
      <3> QED BY <1>2, <3>1, <3>2, <3>3
    <2>2. CASE Z!RunSend
      <3>1. PICK h : h = Head(appEvents)
        OBVIOUS
      <3>2. appEvents' \in Seq(AppRequests) /\ Z!ToSet(appEvents) = Z!ToSet(appEvents') \cup {h}
        BY <1>2, <2>2, <3>1, MembersOfTail DEF Z!RunSend
      <3>3. /\ receiving' = receiving
            /\ \/ answered' = answered \cup {h} /\ UNCHANGED failed
               \/ failed' = failed \cup {h} /\ UNCHANGED answered
        BY <2>2, <3>1 DEF Z!RunSend
      <3> QED BY <1>2, <3>2, <3>3
    <2> QED BY <2>1, <2>2
  <1>5. Z!TypeOK'
    BY <1>1, <1>2, <1>4 DEF Z!TypeOK, Z!ToSet
  <1>6. Z!PendingIsServed'
    <2>1. \A s \in arrived : s # Z!NoRequest
      BY <1>2
    <2> QED BY <1>1, <1>3, <1>4, <2>1 DEF Z!PendingIsServed, Z!ToSet
  <1> QED BY <1>1, <1>2, <1>4, <1>5, <1>6 DEF AppInv

LEMMA AppKeeps ==
  ASSUME AppInv, [Z!Next]_appVars
  PROVE  AppInv'
  <1>1. CASE \E r \in AppRequests : Z!SimpleLinkNetAppRequestEventHandler(r)
    BY <1>1, ArrivalKeeps
  <1>2. CASE Z!ReceiveRequest
    BY <1>2, ReceptionKeeps
  <1>3. CASE Z!SendNonBlocking \/ Z!RunSend
    BY <1>3, AnswerKeeps
  <1>4. CASE Z!ReceiveTimeout \/ UNCHANGED appVars
    BY <1>4 DEF AppInv, Z!TypeOK, Z!PendingIsServed, Z!ReceiveTimeout, appVars, Z!ToSet
  <1>5. CASE Z!ConstructServer
    <2>1. appQueue' = <<>> /\ servers' = servers + 1
          /\ UNCHANGED <<arrived, appStatus, copies, receiving, appEvents, answered, failed>>
      BY <1>5 DEF Z!ConstructServer
    <2>2. <<>> \in Seq(AppRequests) /\ Len(<<>>) = 0 /\ Z!ToSet(<<>>) = {} /\ servers' \in Nat \ {0} /\ servers' # 1
          /\ QueueLength \in Nat
      BY <2>1, EmptySeq, Parameters DEF AppInv, Z!ToSet, Z!NetAppAssumption
    <2>3. Z!TypeOK'
      BY <2>1, <2>2 DEF AppInv, Z!TypeOK, Z!ToSet
    <2>4. Z!PendingIsServed'
      BY <2>1, <2>2 DEF Z!PendingIsServed, Z!ToSet
    <2> QED BY <2>1, <2>2, <2>3, <2>4 DEF AppInv
  <1> QED BY <1>1, <1>2, <1>3, <1>4, <1>5 DEF Z!Next

AppPart == part = "app" => AppInv

LEMMA AppAlways == PartSpec => []AppPart
  <1>1. PartInit => AppPart
    BY AppStarts DEF PartInit, AppPart
  <1>2. AppPart /\ [PartNext]_allVars => AppPart'
    <2> SUFFICES ASSUME part = "app", AppInv, [Z!Next]_appVars
                 PROVE  AppInv'
      BY PartSteps DEF AppPart
    <2> QED BY AppKeeps
  <1> QED BY <1>1, <1>2, PTL DEF PartSpec

\* On CC32xx a request that the server in the ROM keeps pending is queued, served or answered as
\* long as there is one server, and its copy is kept while it is queued: for every set of
\* requests and length of the queue.
THEOREM KeptIsServed == PartSpec => []KeptRequestsAreServed
  <1>1. AppPart => KeptRequestsAreServed
    BY DEF AppPart, AppInv, KeptRequestsAreServed
  <1> QED BY <1>1, AppAlways, PTL

-----------------------------------------------------------------------------
(* The types.                                                              *)

Misuses == {"raw freed", "ssl used", "ready lost", "socket lost"}
MisusePart == part = "https" => misuse \subseteq Misuses

LEMMA MisuseIsNamed ==
  ASSUME misuse \subseteq Misuses, [H!Next]_httpsVars
  PROVE  misuse' \subseteq Misuses
  <1>1. H!FreesRaw \subseteq Misuses /\ H!UsesSsl \subseteq Misuses
    BY DEF H!FreesRaw, H!UsesSsl, Misuses
  <1>2. ASSUME NEW s, NEW i, H!Connect(s, i)
        PROVE  misuse' \subseteq Misuses
    BY <1>1, <1>2 DEF H!Connect, Misuses
  <1>3. CASE H!PosixConnect \/ H!EspConnect
    BY <1>2, <1>3 DEF H!PosixConnect, H!EspConnect
  <1>4. CASE H!PosixDisconnect \/ H!EspDisconnect
    BY <1>1, <1>4 DEF H!PosixDisconnect, H!EspDisconnect, H!Disconnect
  <1>5. CASE H!PosixSend \/ H!EspSend
    BY <1>5 DEF H!PosixSend, H!EspSend, H!Round, H!connection
  <1>6. CASE H!BeginSend \/ H!Receive
    BY <1>1, <1>6 DEF H!BeginSend, H!Receive
  <1>7. CASE H!Destroy
    BY <1>1, <1>7 DEF H!Destroy, Misuses
  <1>8. CASE (\E u \in Users : H!Call(u)) \/ UNCHANGED httpsVars
    BY <1>8 DEF H!Call, H!connection, httpsVars
  <1> QED BY <1>3, <1>4, <1>5, <1>6, <1>7, <1>8 DEF H!Next

LEMMA MisuseAlways == PartSpec => []MisusePart
  <1>1. PartInit => MisusePart
    BY DEF PartInit, MisusePart, H!Init
  <1>2. MisusePart /\ [PartNext]_allVars => MisusePart'
    <2> SUFFICES ASSUME part = "https", misuse \subseteq Misuses, [H!Next]_httpsVars
                 PROVE  misuse' \subseteq Misuses
      BY PartSteps DEF MisusePart
    <2> QED BY MisuseIsNamed
  <1> QED BY <1>1, <1>2, PTL DEF PartSpec

LEMMA HttpsTypes ==
  ASSUME OneUser, HttpsInv, misuse \subseteq Misuses
  PROVE  H!TypeOK
  <1>1. calls \in Seq(CallOf) /\ Len(calls) <= 1 /\ Len(calls) \in Nat
    BY LenProperties DEF HttpsInv, CallsInv
  <1>2. Len(calls) \in 0 .. Cardinality(Users)
    <2>1. CASE Users = {}
      <3>1. Cardinality(Users) = 0
        BY <2>1, FS_EmptySet
      <3>2. Len(calls) = 0
        <4> SUFFICES ASSUME Len(calls) # 0 PROVE FALSE
          OBVIOUS
        <4>1. 1 \in 1 .. Len(calls)
          BY <1>1
        <4>2. calls[1] \in CallOf
          BY <1>1, <4>1, ElementOfSeq
        <4>3. calls[1].user \in Users
          BY <4>2 DEF CallOf
        <4> QED BY <2>1, <4>3
      <3> QED BY <3>1, <3>2
    <2>2. CASE Users # {}
      <3>1. PICK u : Users = {u}
        BY <2>2 DEF OneUser
      <3>2. Cardinality(Users) = 1
        BY <3>1, FS_Singleton
      <3>3. Len(calls) \in 0 .. 1
        <4>1. PICK n : n = Len(calls)
          OBVIOUS
        <4>2. n \in Nat /\ n <= 1
          BY <1>1, <4>1
        <4>3. n \in 0 .. 1
          BY <4>2
        <4> QED BY <4>1, <4>3
      <3> QED BY <3>2, <3>3
    <2> QED BY <2>1, <2>2
  <1>3. writing.written \in 0 .. FrameSize /\ writing.size \in 0 .. FrameSize
    <2>1. writing \in [on : BOOLEAN, valid : BOOLEAN, size : 0 .. FrameSize, written : 0 .. FrameSize]
      BY DEF HttpsInv, CallsInv
    <2> QED BY <2>1
  <1>4. {httpsConnected, open, secure, trusted} \subseteq BOOLEAN
    BY DEF HttpsInv
  <1>5. https \in HttpsPorts /\ contexts \in [H!Contexts -> {"raw", "ready", "freed"}]
    BY DEF HttpsInv
  <1>6. misuse \subseteq {"raw freed", "ssl used", "ready lost", "socket lost"}
    BY DEF Misuses
  <1>7. H!Cardinality(Users) = Cardinality(Users)
    BY DEF H!Cardinality, Cardinality
  <1> QED BY <1>2, <1>3, <1>4, <1>5, <1>6, <1>7 DEF H!TypeOK

(***************************************************************************)
(* The variables of every component keep their types; for the sockets      *)
(* where the callers of a client do not share it, for the HTTPS client     *)
(* with one user.                                                          *)
(***************************************************************************)
THEOREM ComponentsKeepTheirTypes == Habits = {} /\ OneUser /\ PartSpec => []AllTypesOK
  <1> SUFFICES ASSUME Habits = {}, OneUser
               PROVE  PartSpec => []AllTypesOK
    OBVIOUS
  <1>1. SocketsPart /\ WifiPart /\ HttpsPart /\ MisusePart /\ TransferPart /\ AppPart => AllTypesOK
    <2> SUFFICES ASSUME SocketsPart, WifiPart, HttpsPart, MisusePart, TransferPart, AppPart
                 PROVE  AllTypesOK
      OBVIOUS
    <2>1. part = "sockets" => S!TypeOK
      BY DEF SocketsPart, SocketsInv
    <2>2. part = "wifi" => W!TypeOK
      BY DEF WifiPart, WifiInv
    <2>3. part = "https" => H!TypeOK
      BY HttpsTypes DEF HttpsPart, MisusePart
    <2>4. part = "transfer" => X!TypeOK
      BY DEF TransferPart, TransferInv, TransferTypes
    <2>5. part = "app" => Z!TypeOK
      BY DEF AppPart, AppInv
    <2> QED BY <2>1, <2>2, <2>3, <2>4, <2>5 DEF AllTypesOK
  <1> QED BY <1>1, SocketsAlways, WifiAlways, HttpsAlways, MisuseAlways, TransferAlways, AppAlways, PTL
=============================================================================
