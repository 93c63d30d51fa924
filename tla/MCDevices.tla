----------------------------- MODULE MCDevices ------------------------------
(***************************************************************************)
(* The drivers of peripherals and integrated circuits: clocks, a display,  *)
(* serial lines and a motor. They do not share state: a behaviour is one   *)
(* of one driver; a run explores those of all of them. The constants are   *)
(* the drivers' own.                                                       *)
(***************************************************************************)
EXTENDS Integers, Sequences, TLC

CONSTANTS
  InputTimes, Criteria, MaxDays,                                             \* RtcManager
  Callers, Values, MaxFailures,                                              \* Nxppcf8506a
  Capacity, TextWords, LabelWords, FifoWords, MaxRetries, MaxLcdCalls, MaxPresses, Oddities,    \* Lcd
  Ports, Devices, Files, Careful,                                            \* Uart
  Depth, MaxSpiCalls,                                                        \* Spi
  Hardwares, PwmTypes, Places, Stiction, Hysteresis, BackOff, AdcMultiSamples, Speeds, MaxTime,
  MaxFaults,                                                                 \* SlideMotor
  MaxSize,                                                                      \* Uart, Spi
  MaxCalls                                           \* Nxppcf8506a, Uart, SlideMotor

\* Midnight of the first day, and times of day in other months and another year.
MCInputTimes == {0, 14 * 86400 + 3599, 33 * 86400 + 86399, 366 * 86400 + 7325}
MCCriteria == [input : {0, 86400 * 40}, external : {0, 86400 * 40}]

VARIABLE part   \* the component whose behaviour this is; the others stand still

VARIABLES managed, criteria, device, cache, submitted, rtcResult, wrote
R == INSTANCE RtcManager WITH result <- rtcResult
rtcVars == <<managed, criteria, device, cache, submitted, rtcResult, wrote>>
rtcIdle == managed = 0 /\ criteria = 0 /\ device = 0 /\ cache = 0 /\ submitted = 0 /\
    rtcResult = 0 /\ wrote = 0

VARIABLES control, date, todo, copy, value, error, chipCalls, failures
N == INSTANCE Nxppcf8506a WITH calls <- chipCalls
chipVars == <<control, date, todo, copy, value, error, chipCalls, failures>>
chipIdle == control = 0 /\ date = 0 /\ todo = 0 /\ copy = 0 /\ value = 0 /\ error = 0 /\
    chipCalls = 0 /\ failures = 0

VARIABLES step, chip, buffer, pc, after, lcdFifo, design, sketch, lcdResult, register,
    touched, presses, counted, lcdCalls
L == INSTANCE Lcd WITH fifo <- lcdFifo, result <- lcdResult, calls <- lcdCalls,
    MaxCalls <- MaxLcdCalls
lcdVars == <<step, chip, buffer, pc, after, lcdFifo, design, sketch, lcdResult,
    register, touched, presses, counted, lcdCalls>>
lcdIdle == step = 0 /\ chip = 0 /\ buffer = 0 /\ pc = 0 /\ after = 0 /\ lcdFifo = 0 /\
    design = 0 /\ sketch = 0 /\ lcdResult = 0 /\ register = 0 /\ touched = 0 /\
    presses = 0 /\ counted = 0 /\ lcdCalls = 0

VARIABLES port, number, uartBad, plugged, holder, _fileDescriptor, _devicePath,
    installed, line, closed, uartReady, last, uartCalls
U == INSTANCE Uart WITH bad <- uartBad, ready <- uartReady, calls <- uartCalls, Size <- MaxSize
uartVars == <<port, number, uartBad, plugged, holder, _fileDescriptor, _devicePath,
    installed, line, closed, uartReady, last, uartCalls>>
uartIdle == port = 0 /\ number = 0 /\ uartBad = 0 /\ plugged = 0 /\ holder = 0 /\
    _fileDescriptor = 0 /\ _devicePath = 0 /\ installed = 0 /\ line = 0 /\ closed = 0 /\
    uartReady = 0 /\ last = 0 /\ uartCalls = 0

VARIABLES spiBad, slow, controller, enabled, spiReady, spiFifo, need, got, flushed,
    spiCalls
B == INSTANCE Spi WITH bad <- spiBad, ready <- spiReady, fifo <- spiFifo,
    calls <- spiCalls, MaxCalls <- MaxSpiCalls, Size <- MaxSize
spiVars == <<spiBad, slow, controller, enabled, spiReady, spiFifo, need, got, flushed,
    spiCalls>>
spiIdle == spiBad = 0 /\ slow = 0 /\ controller = 0 /\ enabled = 0 /\ spiReady = 0 /\
    spiFifo = 0 /\ need = 0 /\ got = 0 /\ flushed = 0 /\ spiCalls = 0

VARIABLES pwmType, hardware, bridge, wiper, _speed, minimumForward, minimumBackward,
    effect, doing, target, reading, previous, difference, answer, faults, motorCalls
M == INSTANCE SlideMotor WITH calls <- motorCalls
motorVars == <<pwmType, hardware, bridge, wiper, _speed, minimumForward,
    minimumBackward, effect, doing, target, reading, previous, difference, answer,
    faults, motorCalls>>
motorIdle == pwmType = 0 /\ hardware = 0 /\ bridge = 0 /\ wiper = 0 /\ _speed = 0 /\
    minimumForward = 0 /\ minimumBackward = 0 /\ effect = 0 /\ doing = 0 /\
    target = 0 /\ reading = 0 /\ previous = 0 /\ difference = 0 /\ answer = 0 /\
    faults = 0 /\ motorCalls = 0

ASSUME Parameters == R!RtcAssumption /\ N!NxpAssumption /\ L!LcdAssumption /\
    U!UartAssumption /\ B!SpiAssumption /\ M!SlideMotorAssumption

PartInit ==
    /\ part \in {"rtc", "chip", "lcd", "uart", "spi", "motor"}
    /\ IF part = "rtc" THEN R!Init ELSE rtcIdle
    /\ IF part = "chip" THEN N!Init ELSE chipIdle
    /\ IF part = "lcd" THEN L!Init ELSE lcdIdle
    /\ IF part = "uart" THEN U!Init ELSE uartIdle
    /\ IF part = "spi" THEN B!Init ELSE spiIdle
    /\ IF part = "motor" THEN M!Init ELSE motorIdle

RtcStep == part = "rtc" /\ R!Next
    /\ UNCHANGED <<part, chipVars, lcdVars, uartVars, spiVars, motorVars>>
ChipStep == part = "chip" /\ N!Next
    /\ UNCHANGED <<part, rtcVars, lcdVars, uartVars, spiVars, motorVars>>
LcdStep == part = "lcd" /\ L!Next
    /\ UNCHANGED <<part, rtcVars, chipVars, uartVars, spiVars, motorVars>>
UartStep == part = "uart" /\ U!Next
    /\ UNCHANGED <<part, rtcVars, chipVars, lcdVars, spiVars, motorVars>>
SpiStep == part = "spi" /\ B!Next
    /\ UNCHANGED <<part, rtcVars, chipVars, lcdVars, uartVars, motorVars>>
MotorStep == part = "motor" /\ M!Next
    /\ UNCHANGED <<part, rtcVars, chipVars, lcdVars, uartVars, spiVars>>

PartNext ==
    \/ RtcStep
    \/ ChipStep
    \/ LcdStep
    \/ UartStep
    \/ SpiStep
    \/ MotorStep
allVars == <<part, rtcVars, chipVars, lcdVars, uartVars, spiVars, motorVars>>
PartSpec == PartInit /\ [][PartNext]_allVars

-----------------------------------------------------------------------------
\* Every driver's variables keep their types.
AllTypesOK ==
    /\ part = "rtc" => R!TypeOK
    /\ part = "chip" => N!TypeOK
    /\ part = "lcd" => L!TypeOK
    /\ part = "uart" => U!TypeOK
    /\ part = "spi" => B!TypeOK
    /\ part = "motor" => M!TypeOK

\* What was written to the clock has the time of day that was submitted, and when the
\* external clock was asked its correction is what the manager remembers.
ClockIsSetRight == part = "rtc" => R!TimeOfDaySurvives /\ R!CorrectionIsCached

\* When no transfer failed and no call goes on, the clock chip runs, and its date is
\* one that was written as a whole.
ChipClockRuns == part = "chip" => N!ClockRuns /\ N!DateIsOneWritten

\* The display's bus goes to full speed only after the chip has answered and been
\* configured, no touch is counted twice, a register write that was verified is
\* stored, and the words of a design reach the display in their order without a gap.
DisplayIsKept ==
    part = "lcd" => L!FullSpeedIsLate /\ L!TouchesAreCountedOnce /\ L!VerifiedWriteIsStored /\ L!NothingIsLost

\* A serial port never uses a file of somebody else, works with every setting
\* programmed once init succeeded, and reports success only of a whole transmission;
\* an SPI reception returns nothing older than the last flush.
BytesAreOwn ==
    /\ part = "uart" => U!TransfersReachTheLine /\ U!ReadyIsProgrammed /\ U!SentIsWhole
    /\ part = "spi" => B!NothingOldIsReceived

\* The speed remembered is that of the bridge, and a slide to a voltage that answers
\* Success has taken the wiper there.
MotorIsWhereItSays == part = "motor" => M!SpeedIsSet /\ M!TargetIsReached

\* A forward slide that answers Success leaves the motor braked: no failure of the two
\* calls of a brake is hidden by the loop around it.
ForwardSlidesAreBraked ==
    [][part = "motor" =>
         \A time \in 1..MaxTime :
             (M!slideForward(time) /\ answer'.error = "Success") => M!Braked(bridge')]_motorVars
=============================================================================
