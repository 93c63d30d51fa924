CONSTANTS
  InputTimes <- MCInputTimes
  Criteria <- MCCriteria
  MaxDays = 4
  Callers = {"c1"}
  Values = {7, 59}
  MaxFailures = 2
  Capacity = 22
  TextWords = 3
  LabelWords = 1
  FifoWords = 24
  MaxRetries = 2
  MaxLcdCalls = 5
  MaxPresses = 3
  Oddities = {}
  Ports = {"Posix", "Esp", "Tm4c"}
  Devices = {1, 2}
  Files = {0, 1}
  Careful = TRUE
  Depth = 3
  MaxSpiCalls = 7
  Hardwares = {"Raises", "Drops"}
  PwmTypes = {"Standalone", "Gpio"}
  Places = 3
  Stiction = 2
  Hysteresis = 20
  BackOff = 32
  AdcMultiSamples = 30
  Speeds = {50, 75}
  MaxTime = 4
  MaxFaults = 1
  MaxSize = 2
  MaxCalls = 4
SPECIFICATION PartSpec
CHECK_DEADLOCK FALSE
INVARIANT AllTypesOK
INVARIANT ClockIsSetRight
INVARIANT ChipClockRuns
INVARIANT DisplayIsKept
INVARIANT BytesAreOwn
INVARIANT MotorIsWhereItSays
PROPERTY ForwardSlidesAreBraked
