-------------------------------- MODULE Uart --------------------------------
(***************************************************************************)
(* The serial port drivers.  On Posix a port is a file: a number of the    *)
(* process's descriptor table, which other parts of the program fill and   *)
(* free at the same time, and a device found by its place in the sorted    *)
(* list of those plugged in.  On Esp it is a driver that is installed and  *)
(* then configured; on Tm4c it is a set of registers.  What is not the     *)
(* driver's (the descriptor table, the devices, the platform's calls) is   *)
(* the environment and may fail.                                           *)
(***************************************************************************)
EXTENDS Integers, FiniteSets, FiniteSetsExt

CONSTANTS
    Ports,    \* the ports of the abstraction layer: a subset of AllPorts
    Devices,  \* the devices that may be plugged in, in the order of their names
    Files,    \* the numbers of the descriptor table
    Size,     \* bound: bytes of a transfer
    MaxCalls, \* bound: calls of the driver, and changes made by others
    Careful   \* TRUE: a port is not used between deinit and the next init that succeeds

AllPorts == {"Posix", "Esp", "Tm4c"}
Settings == {"baud", "data", "parity", "stop", "flow"}
None == -1

UartAssumption ==
    /\ Ports \subseteq AllPorts
    /\ Devices \subseteq Nat /\ Files \subseteq Nat
    /\ IsFiniteSet(Devices) /\ IsFiniteSet(Files)
    /\ Size \in Nat /\ MaxCalls \in Nat
    /\ Careful \in BOOLEAN

VARIABLES
    port,
    number,          \* hardwareConfig.peripheralNumber
    bad,             \* the parameters that no conversion knows: of Settings, or "number"
    plugged,         \* the devices plugged in
    holder,          \* the descriptor table: whose file each number is
    _fileDescriptor,
    _devicePath,     \* the device that was found, or None
    installed,       \* Esp: the driver is installed; Tm4c: the peripheral is enabled
    line,            \* how each setting of the line was programmed
    closed,          \* deinit was called, and no init has succeeded since
    ready,           \* the last init answered Success
    last,            \* the last transfer: what it reached, what was asked, done and answered
    calls

parameters == <<port, number, bad>>
posix == <<holder, _fileDescriptor, _devicePath>>
vars == <<parameters, plugged, posix, installed, line, closed, ready, last, calls>>

Unprogrammed == [s \in Settings |-> "reset"]
NoTransfer == [does |-> "rx", reached |-> "line", asked |-> 0, done |-> 0, answer |-> "None"]

TypeOK ==
    /\ port \in Ports
    /\ number \in 0..1
    /\ bad \subseteq Settings \cup {"number"}
    /\ plugged \subseteq Devices
    /\ holder \in [Files -> {"free", "other", "uart"}]
    /\ _fileDescriptor \in Files \cup {None}
    /\ _devicePath \in Devices \cup {None}
    /\ installed \in BOOLEAN
    /\ line \in [Settings -> {"reset", "asked", "replaced"}]
    /\ closed \in BOOLEAN /\ ready \in BOOLEAN
    /\ last \in [does : {"tx", "rx"}, reached : {"line", "stranger", "nothing"}, asked : 0..Size, done : 0..Size,
                 answer : {"None", "Success", "Failure", "PrerequisitesNotMet", "LimitReached",
                           "Timeout", "NoData", "NotImplemented", "InvalidParameter"}]
    /\ calls \in 0..MaxCalls

Init ==
    /\ port \in Ports
    /\ number \in 0..1
    /\ bad \in {b \in SUBSET (Settings \cup {"number"}) : Cardinality(b) <= 2}
    /\ plugged \in SUBSET Devices
    /\ holder = [d \in Files |-> "free"]
    /\ _fileDescriptor = None /\ _devicePath = None
    /\ installed = FALSE /\ line = Unprogrammed
    /\ closed = FALSE /\ ready = FALSE
    /\ last = NoTransfer /\ calls = 0

Called == calls < MaxCalls /\ calls' = calls + 1
Inited(success) == ready' = success /\ closed' = (closed /\ ~success)
Usable == Careful => ~closed
Transferred(does, reached, asked, done, answer) ==
    last' = [does |-> does, reached |-> reached, asked |-> asked, done |-> done, answer |-> answer]

---------------------------------------------------------------------------
(* Posix *)

\* The devices are sorted by name, the peripheral number is a place in that list.
toDevicePath == LET at == {d \in plugged : Cardinality({e \in plugged : e < d}) = number}
                IN IF at = {} THEN None ELSE CHOOSE d \in at : TRUE

toPosixBaudRate == IF "baud" \in bad THEN "InvalidParameter" ELSE "Success"
toPosixDataBits == IF "data" \in bad THEN "InvalidParameter" ELSE "Success"
toPosixParity == IF "parity" \in bad THEN "InvalidParameter" ELSE "Success"
toPosixStopBits == IF "stop" \in bad THEN "InvalidParameter" ELSE "Success"
\* The lines RTS and CTS become XON and XOFF characters.
toPosixFlowControl == IF "flow" \in bad THEN "InvalidParameter" ELSE "Success"
posixConversions == <<toPosixBaudRate, toPosixDataBits, toPosixParity, toPosixStopBits, toPosixFlowControl>>
Programmed == [s \in Settings |-> IF s = "flow" THEN "replaced" ELSE "asked"]

\* Mutated: the error of the stop bits is overwritten by the next conversion.
setTermiosConfigOverwrites(fd) ==
    IF \E i \in {1, 2, 3, 5} : posixConversions[i] # "Success"
    THEN /\ _fileDescriptor' = fd /\ holder' = [holder EXCEPT ![fd] = "uart"]
         /\ line' = Unprogrammed /\ Inited(FALSE)
    ELSE /\ _fileDescriptor' = fd /\ holder' = [holder EXCEPT ![fd] = "uart"]
         /\ line' = [Programmed EXCEPT !["stop"] = IF "stop" \in bad THEN "reset" ELSE "asked"]
         /\ Inited(TRUE)

\* Mutated: the number is kept when the file is closed.
setTermiosConfigKeeps(fd) ==
    IF \E i \in 1..5 : posixConversions[i] # "Success"
    THEN /\ _fileDescriptor' = fd /\ holder' = [holder EXCEPT ![fd] = "uart"]
         /\ line' = Unprogrammed /\ Inited(FALSE)
    ELSE \/ /\ _fileDescriptor' = fd /\ holder' = [holder EXCEPT ![fd] = "uart"]
            /\ line' = Programmed /\ Inited(TRUE)
         \/ /\ _fileDescriptor' = fd /\ UNCHANGED holder
            /\ line' = Unprogrammed /\ Inited(FALSE)

\* One conversion after the other, the first failure ends it with the file open;
\* when the settings are refused by tcsetattr the file is closed again.
setTermiosConfig(fd) ==
    IF \E i \in 1..5 : posixConversions[i] # "Success"
    THEN /\ _fileDescriptor' = fd /\ holder' = [holder EXCEPT ![fd] = "uart"]
         /\ line' = Unprogrammed /\ Inited(FALSE)
    ELSE \/ /\ _fileDescriptor' = fd /\ holder' = [holder EXCEPT ![fd] = "uart"]
            /\ line' = Programmed /\ Inited(TRUE)
         \/ /\ _fileDescriptor' = None /\ UNCHANGED holder
            /\ line' = Unprogrammed /\ Inited(FALSE)

FreeFiles == {d \in Files : holder[d] = "free"}

\* The old file, if there is one, is neither used again nor closed.
PosixInit ==
    /\ port = "Posix" /\ Called
    /\ _devicePath' = toDevicePath
    /\ \/ toDevicePath # None /\ FreeFiles # {} /\ setTermiosConfig(Min(FreeFiles))
       \/ /\ toDevicePath # None                   \* open fails
          /\ _fileDescriptor' = None /\ Inited(FALSE) /\ UNCHANGED <<holder, line>>
       \/ /\ toDevicePath = None
          /\ Inited(FALSE) /\ UNCHANGED <<_fileDescriptor, holder, line>>
    /\ UNCHANGED <<parameters, plugged, installed, last>>

\* The number is kept.
PosixDeinit ==
    /\ port = "Posix" /\ Usable /\ Called
    /\ holder' = IF _fileDescriptor = None THEN holder ELSE [holder EXCEPT ![_fileDescriptor] = "free"]
    /\ closed' = TRUE
    /\ UNCHANGED <<parameters, plugged, _fileDescriptor, _devicePath, installed, line, ready, last>>

Reached == CASE holder[_fileDescriptor] = "uart" -> "line"
             [] holder[_fileDescriptor] = "other" -> "stranger"
             [] holder[_fileDescriptor] = "free" -> "nothing"

\* Mutated: a partial write is a success.
PosixTxPartly(size) ==
    IF _fileDescriptor = None THEN Transferred("tx", "line", size, 0, "PrerequisitesNotMet")
    ELSE \/ Transferred("tx", Reached, size, 0, "Failure")
         \/ /\ Reached # "nothing"
            /\ \E n \in 1..size : Transferred("tx", Reached, size, n, "Success")

PosixTx(size) ==
    IF _fileDescriptor = None THEN Transferred("tx", "line", size, 0, "PrerequisitesNotMet")
    ELSE \/ Transferred("tx", Reached, size, 0, "Failure")
         \/ /\ Reached # "nothing"
            /\ \E n \in 1..size :
                  Transferred("tx", Reached, size, n, IF n < size THEN "LimitReached" ELSE "Success")

PosixRx(size) ==
    IF _fileDescriptor = None THEN Transferred("rx", "line", size, 0, "PrerequisitesNotMet")
    ELSE \/ Transferred("rx", Reached, size, 0, "Failure")
         \/ /\ Reached # "nothing"
            /\ \/ \E answer \in {"Timeout", "NoData"} : Transferred("rx", Reached, size, 0, answer)
               \/ \E n \in 1..size : Transferred("rx", Reached, size, n, "Success")

PosixFlush ==
    IF _fileDescriptor = None THEN Transferred("rx", "line", 0, 0, "PrerequisitesNotMet")
    ELSE \/ Transferred("rx", Reached, 0, 0, "Failure")
         \/ Reached # "nothing" /\ Transferred("rx", Reached, 0, 0, "Success")

---------------------------------------------------------------------------
(* Esp *)

toEspPeripheralNumber == IF "number" \in bad THEN "InvalidParameter" ELSE "Success"
toEspWordLength == IF "data" \in bad THEN "replaced" ELSE "asked"
toEspUartParity == IF "parity" \in bad THEN "InvalidParameter" ELSE "Success"
toEspStopBits == IF "stop" \in bad THEN "InvalidParameter" ELSE "Success"
toEspFlowControl == IF "flow" \in bad THEN "InvalidParameter" ELSE "Success"

EspLine == [s \in Settings |-> CASE s = "data" -> toEspWordLength
                                 [] s = "flow" /\ toEspFlowControl # "Success" -> "replaced"
                                 [] OTHER -> "asked"]

\* An installed driver is left as it is.  The error of the word length is lost to
\* that of the parity, the error of the flow control to the success of the pins,
\* and the platform's refusals are not answered at all.
EspInit ==
    /\ port = "Esp" /\ Called
    /\ IF installed \/ toEspPeripheralNumber # "Success"
       THEN Inited(toEspPeripheralNumber = "Success") /\ UNCHANGED <<installed, line>>
       ELSE \/ Inited(TRUE) /\ UNCHANGED <<installed, line>>       \* uart_driver_install fails
            \/ /\ installed' = TRUE
               /\ IF toEspUartParity = "Success" /\ toEspStopBits = "Success"
                  THEN \/ line' = EspLine /\ Inited(TRUE)
                       \/ /\ line' \in {line, EspLine}     \* uart_param_config or uart_set_pin fails
                          /\ Inited(toEspFlowControl = "Success")
                  ELSE Inited(FALSE) /\ UNCHANGED line
    /\ UNCHANGED <<parameters, plugged, posix, last>>

EspDeinit ==
    /\ port = "Esp" /\ Usable /\ Called
    /\ IF toEspPeripheralNumber = "Success"
       THEN \/ installed' = FALSE /\ line' = Unprogrammed
            \/ UNCHANGED <<installed, line>>
       ELSE UNCHANGED <<installed, line>>
    /\ closed' = TRUE
    /\ UNCHANGED <<parameters, plugged, posix, ready, last>>

EspReached == IF installed THEN "line" ELSE "nothing"

\* The conversion's Success is what is answered when nothing could be written.
EspTx(size) ==
    IF toEspPeripheralNumber # "Success" THEN Transferred("tx", "line", size, 0, toEspPeripheralNumber)
    ELSE \/ installed /\ Transferred("tx", EspReached, size, size, "Success")
         \/ Transferred("tx", EspReached, size, 0, "Success")

\* ... and when nothing could be read.
EspRx(size) ==
    IF toEspPeripheralNumber # "Success" THEN Transferred("rx", "line", size, 0, toEspPeripheralNumber)
    ELSE \/ /\ installed
            /\ \/ \E n \in 1..size : Transferred("rx", EspReached, size, n, "Success")
               \/ Transferred("rx", EspReached, size, 0, "Timeout")
         \/ Transferred("rx", EspReached, size, 0, "Success")

EspFlush ==
    IF toEspPeripheralNumber # "Success" THEN Transferred("rx", "line", 0, 0, toEspPeripheralNumber)
    ELSE \/ Transferred("rx", EspReached, 0, 0, "Failure")
         \/ installed /\ Transferred("rx", EspReached, 0, 0, "Success")

---------------------------------------------------------------------------
(* Tm4c *)

toTm4cSysCtlPeripheralNumber == IF "number" \in bad THEN "InvalidParameter" ELSE "Success"
toTm4cPeripheralBaseRegister == toTm4cSysCtlPeripheralNumber
toTm4cUartConfigBits == IF bad \cap {"data", "stop", "parity"} # {} THEN "InvalidParameter" ELSE "Success"
toTm4cUartFlowControl == IF "flow" \in bad THEN "InvalidParameter" ELSE "Success"

\* The registers are written whether or not the conversion knew the values.
Tm4cInit ==
    /\ port = "Tm4c" /\ Called
    /\ IF toTm4cSysCtlPeripheralNumber = "Success"
       THEN /\ installed' = TRUE
            /\ line' = [s \in Settings |->
                   CASE s = "flow" -> IF toTm4cUartConfigBits # "Success" THEN line[s]
                                      ELSE IF toTm4cUartFlowControl = "Success" THEN "asked" ELSE "replaced"
                     [] s = "baud" -> "asked"
                     [] OTHER -> IF toTm4cUartConfigBits = "Success" THEN "asked" ELSE "replaced"]
            /\ Inited(toTm4cUartConfigBits = "Success" /\ toTm4cUartFlowControl = "Success")
       ELSE Inited(FALSE) /\ UNCHANGED <<installed, line>>
    /\ UNCHANGED <<parameters, plugged, posix, last>>

\* Character after character; nothing to send is told from success.
Tm4cTx(size) ==
    IF size = 0 THEN Transferred("tx", "line", 0, 0, "NoData")
    ELSE IF toTm4cPeripheralBaseRegister # "Success"
    THEN Transferred("tx", "line", size, 0, toTm4cPeripheralBaseRegister)
    ELSE installed /\ Transferred("tx", "line", size, size, "Success")

Tm4cRx(size) == Transferred("rx", "line", size, 0, "NotImplemented")
Tm4cFlush == Transferred("rx", "line", 0, 0, "NotImplemented")
Tm4cDeinit ==
    /\ port = "Tm4c" /\ Usable /\ Called
    /\ UNCHANGED <<parameters, plugged, posix, installed, line, closed, ready, last>>

---------------------------------------------------------------------------
init == PosixInit \/ EspInit \/ Tm4cInit
deinit == PosixDeinit \/ EspDeinit \/ Tm4cDeinit

Using == Usable /\ Called
         /\ UNCHANGED <<parameters, plugged, posix, installed, line, closed, ready>>
txBlocking(size) ==
    /\ Using
    /\ \/ port = "Posix" /\ PosixTx(size)
       \/ port = "Esp" /\ EspTx(size)
       \/ port = "Tm4c" /\ Tm4cTx(size)
rxBlocking(size) ==
    /\ Using
    /\ \/ port = "Posix" /\ PosixRx(size)
       \/ port = "Esp" /\ EspRx(size)
       \/ port = "Tm4c" /\ Tm4cRx(size)
flushRxBuffer ==
    /\ Using
    /\ \/ port = "Posix" /\ PosixFlush
       \/ port = "Esp" /\ EspFlush
       \/ port = "Tm4c" /\ Tm4cFlush

\* Another part of the program opens a file, which gets the lowest number, or
\* closes one of its own; a device is plugged in or out.
Others ==
    /\ port = "Posix" /\ Called
    /\ \/ FreeFiles # {} /\ holder' = [holder EXCEPT ![Min(FreeFiles)] = "other"] /\ UNCHANGED plugged
       \/ \E d \in Files : holder[d] = "other" /\ holder' = [holder EXCEPT ![d] = "free"]
                           /\ UNCHANGED plugged
       \/ \E e \in Devices : /\ plugged' = IF e \in plugged THEN plugged \ {e} ELSE plugged \cup {e}
                             /\ UNCHANGED holder
    /\ UNCHANGED <<parameters, _fileDescriptor, _devicePath, installed, line, closed, ready, last>>

Next ==
    \/ init
    \/ deinit
    \/ \E size \in 0..Size : txBlocking(size) \/ rxBlocking(size)
    \/ flushRxBuffer
    \/ Others

Spec == Init /\ [][Next]_vars

---------------------------------------------------------------------------
\* Whatever init answered, the number the Posix driver holds is that of its own
\* file or none: a transfer never lands in a file that another part of the
\* program has opened since under the same number.
TransfersReachTheLine == port = "Posix" => last.reached = "line"

\* An init that answers Success has programmed every setting of the line, and the
\* line stays so while the port is in use (Posix, Tm4c).
ReadyIsProgrammed ==
    (port # "Esp" /\ ready /\ ~closed) => \A s \in Settings : line[s] # "reset"

\* Success of a transmission means that every byte was taken (Posix, Tm4c).
SentIsWhole == (port # "Esp" /\ last.does = "tx" /\ last.answer = "Success") => last.done = last.asked

---------------------------------------------------------------------------
(* What does not hold of the code. *)

\* The same of every port: Esp answers Success for a driver that could not be
\* installed, or that an earlier init left half configured.
EveryReadyIsProgrammed == (ready /\ ~closed) => \A s \in Settings : line[s] # "reset"

\* A line that init accepted works with the settings that were asked for.
ReadyIsAsAsked == (ready /\ ~closed) => \A s \in Settings : line[s] = "asked"

\* Success means that something was transferred, on every port.
SuccessIsTransferred == (last.answer = "Success" /\ last.asked > 0) => last.done > 0

\* Every file the driver has opened and not closed is the one it uses.
NoFileIsLost == \A d \in Files : holder[d] = "uart" => d = _fileDescriptor

\* The peripheral number names the device it named before, as long as that one
\* is plugged in.
SameNumberSameDevice == [][(_devicePath # None /\ _devicePath \in plugged) => _devicePath' = _devicePath]_vars
=============================================================================
