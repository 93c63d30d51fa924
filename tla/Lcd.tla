-------------------------------- MODULE Lcd --------------------------------
(***************************************************************************)
(* The display: RiverdiEve3Tft35Inch on top of the graphics controller     *)
(* Bridgetek81x.  The commands of a design are gathered in a buffer of the *)
(* driver and written to the controller's FIFO by the command that flushes *)
(* it; registers are written with a read-back and retries; the calibration *)
(* counts touches.  Sizes are counted in words of four bytes.  What the    *)
(* controller does on its own - how much of the FIFO is free, a fault of   *)
(* its coprocessor, what a register reads back - is nondeterministic.      *)
(***************************************************************************)
EXTENDS Integers, Sequences, FiniteSetsExt

CONSTANTS Capacity,    \* words of _commandBuffer
          TextWords,   \* words of the text of a text element (its maximum, whatever the text)
          LabelWords,  \* words of the label of a button
          FifoWords,   \* words of the controller's FIFO
          MaxRetries,  \* maxRetries of hostMemoryWrite
          MaxCalls,    \* bound on the calls and the faults of the coprocessor
          MaxPresses,  \* bound on the touches of the user
          Oddities     \* "equal": the FIFO may have exactly the words of the buffer free;
                       \* "spi": the read of a register may fail

LcdAssumption ==
  /\ {Capacity, TextWords, LabelWords, FifoWords, MaxRetries, MaxCalls, MaxPresses} \subseteq Nat
  /\ Oddities \subseteq {"equal", "spi"}

VARIABLES step,      \* how far init() has come
          chip,      \* the controller: [active, engines, speed]
          buffer,    \* _commandBuffer, a sequence of commands
          pc, after, \* what the driver is doing, and what it does when the buffer is flushed
          fifo,      \* the commands the controller has received since the last start of a list
          design,    \* the commands accepted since the last start of a list
          sketch,    \* _periodicOperationStarted
          result,    \* the last result of a call
          register,  \* the register being written: [value, stored, retries, done: the result]
          touched, presses, counted,  \* the user's finger, its touches, those calibrate() counted
          calls

vars == <<step, chip, buffer, pc, after, fifo, design, sketch, result, register, touched, presses, counted, calls>>

designing == <<buffer, after, fifo, design, sketch, calls>>
touching == <<touched, presses, counted>>
-----------------------------------------------------------------------------
(* The start: the pin of the power-down is set up and pulsed, and then the *)
(* steps of init() in order; every one of them may fail and ends it.       *)

Steps == <<"reset", "initSpi", "chipSelect", "clock", "resetPulse", "activate", "readRegId", "readChipId",
           "readResetStatus", "frequency", "setScreenParameters", "fullSpeed",
           "toggleBacklight", "toggleDisplay", "setTouchThreshold">>

Past(name) == \E i \in 1..(step - 1) : i <= Len(Steps) /\ Steps[i] = name

Init ==
  /\ step = 1 /\ chip = [active |-> FALSE, engines |-> "reset", speed |-> "none"]
  /\ buffer = <<>> /\ pc = "init" /\ after = "idle" /\ fifo = <<>> /\ design = <<>> /\ sketch = FALSE
  /\ result = "none" /\ register = [value |-> 0, stored |-> 0, retries |-> 0, done |-> "none"]
  /\ touched = FALSE /\ presses = 0 /\ counted = 0 /\ calls = 0

(* The controller comes up some time after it was made active; the SPI bus *)
(* runs at 10 MHz at most until it has.                                    *)
\* Mutant: the clock of the parameters is used from the start.
SpeedAtOnce(name) == IF name \in {"initSpi", "fullSpeed"} THEN "full" ELSE chip.speed

SpeedAfter(name) == CASE name = "initSpi" -> "slow" [] name = "fullSpeed" -> "full" [] OTHER -> chip.speed

InitStep ==
  /\ pc = "init" /\ step <= Len(Steps)
  /\ LET name == Steps[step]
     IN chip' = [active |-> name = "activate" \/ (chip.active /\ name # "reset"),
                 engines |-> CASE name = "reset" -> "reset" [] name = "readRegId" -> "starting" [] OTHER -> chip.engines,
                 speed |-> SpeedAfter(name)]
  /\ step' = step + 1
  /\ result' = "Success"
  /\ pc' = IF step = Len(Steps) THEN "calibrating" ELSE "init"
  /\ UNCHANGED <<designing, register, touching>>

(* A step that fails may have done its work or the first half of it.       *)
Halfway(name) ==
  {chip} \cup
  CASE name = "reset" -> {[chip EXCEPT !.active = FALSE, !.engines = "reset"]}
    [] name = "activate" -> {[chip EXCEPT !.active = TRUE]}
    [] name \in {"initSpi", "fullSpeed"} -> {[chip EXCEPT !.speed = "none"]}
    [] OTHER -> {}

(* It ends init(), which undoes nothing; the application may call it again. *)
InitFails ==
  /\ pc = "init" /\ step <= Len(Steps) /\ Steps[step] # "clock"
  /\ step' = 1
  /\ chip' \in Halfway(Steps[step])
  /\ result' = "Failure"
  /\ UNCHANGED <<pc, designing, register, touching>>

(* The engines leave their reset some time after the identifier can be     *)
(* read; readResetStatus stops asking after 500 reads and answers Success. *)
EnginesStart ==
  /\ chip.engines = "starting"
  /\ chip' = [chip EXCEPT !.engines = "running"]
  /\ UNCHANGED <<step, pc, result, designing, register, touching>>
-----------------------------------------------------------------------------
(* The calibration: three touches, each to be released before the next. A  *)
(* failed read counts as a release.                                        *)

Press == /\ ~touched /\ presses < MaxPresses /\ pc \in {"calibrating", "released"}
         /\ touched' = TRUE /\ presses' = presses + 1
         /\ UNCHANGED <<step, chip, pc, result, designing, register, counted>>

Release == /\ touched
           /\ touched' = FALSE
           /\ UNCHANGED <<step, chip, pc, result, designing, register, presses, counted>>

CountTouch ==
  /\ pc = "calibrating" /\ touched
  /\ counted' = counted + 1 /\ pc' = "released"
  /\ UNCHANGED <<step, chip, result, designing, register, touched, presses>>

\* Mutant: the release is not waited for.
ReleaseNotAwaited == TRUE

ReleaseSeen == ~touched \/ "spi" \in Oddities

AwaitRelease ==
  /\ pc = "released" /\ ReleaseSeen
  /\ pc' = IF counted = 3 THEN "idle" ELSE "calibrating"
  /\ UNCHANGED <<step, chip, result, designing, register, touching>>
-----------------------------------------------------------------------------
(* hostMemoryWrite of a register whose read-back is checked.  Only the     *)
(* bits up to the highest one written are compared, none when the value is *)
(* zero; a transfer that fails is tried again without being counted.       *)

(* One more than the mask: all the bits up to the highest one written.     *)
Mask(value) == CASE value = 0 -> 4 [] value = 1 -> 2 [] OTHER -> 4

BeginWrite ==
  /\ pc = "idle" /\ calls < MaxCalls
  /\ calls' = calls + 1
  /\ \E value \in 0..3 : register' = [register EXCEPT !.value = value, !.retries = 0, !.done = "none"]
  /\ pc' = "writing"
  /\ UNCHANGED <<step, chip, buffer, after, fifo, design, sketch, result, touching>>

\* Mutant: any value that has the ones of the value written.
AgreeOnOnes(value, readBack) == readBack >= value

Agree(value, readBack) == value = 0 \/ readBack % Mask(value) = value % Mask(value)

\* Mutant of TryWrite: one retry too many.
TryWriteOnceMore ==
  /\ pc = "writing"
  /\ \E stored \in {register.value, register.stored} :
       LET retry == register.retries <= MaxRetries /\ ~Agree(register.value, stored)
       IN  /\ register' = [register EXCEPT !.stored = stored,
                             !.retries = IF retry THEN @ + 1 ELSE @,
                             !.done = IF retry THEN "none" ELSE "Success"]
           /\ pc' = IF retry THEN "writing" ELSE "idle"
  /\ UNCHANGED <<step, chip, result, designing, touching>>

(* The write takes or does not; the last of the retries is not read back.  *)
TryWrite ==
  /\ pc = "writing"
  /\ \E stored \in {register.value, register.stored} :
       \E readBack \in {stored} \cup (IF "spi" \in Oddities THEN 0..3 ELSE {}) :
         LET retry == register.retries < MaxRetries /\ ~Agree(register.value, readBack)
         IN  /\ register' = [register EXCEPT !.stored = stored,
                               !.retries = IF retry THEN @ + 1 ELSE @,
                               !.done = IF retry THEN "none" ELSE IF register.retries < MaxRetries THEN "Success" ELSE "LimitReached"]
             /\ pc' = IF retry THEN "writing" ELSE "idle"
  /\ UNCHANGED <<step, chip, result, designing, touching>>
-----------------------------------------------------------------------------
(* The command buffer.                                                     *)

Word(name) == [name |-> name, words |-> 1]
Text == [name |-> "Text", words |-> 3 + TextWords]
ButtonCommand == [name |-> "Button", words |-> 4 + LabelWords]

Size(commands) ==
  LET upTo[n \in 0..Len(commands)] == IF n = 0 THEN 0 ELSE upTo[n - 1] + commands[n].words
  IN  upTo[Len(commands)]

(* The commands of an operation, added one after the other up to the first *)
(* that does not fit: LimitReached.                                        *)
Fits(held, commands) == {i \in 0..Len(commands) : Size(held) + Size(SubSeq(commands, 1, i)) <= Capacity}
Added(held, commands) == SubSeq(commands, 1, Max(Fits(held, commands)))
AllFit(held, commands) == Size(held) + Size(commands) <= Capacity

StartList == <<Word("DisplayListStart"), Word("Clear")>>
EndList == <<Word("Display"), Word("Swap")>>
Sketch == <<Word("ColorRgb"), [name |-> "Sketch", words |-> 5], [name |-> "Memzero", words |-> 3],
            Word("BitmapHandle"), Word("BitmapSource"), Word("BitmapLayout"), Word("BitmapSize"), Word("LineWidth"),
            Word("Begin"), Word("Vertex2F"), Word("Vertex2F"), Word("ColorRgb"), Word("Begin"), Word("Vertex2II"), Word("End")>>

(* What a list is made of, from its last start on.                         *)
SinceStart(commands) ==
  LET starts == {i \in DOMAIN commands : commands[i].name = "DisplayListStart"}
  IN  IF starts = {} THEN commands ELSE SubSeq(commands, Max(starts), Len(commands))

Add(commands) ==
  /\ buffer' = buffer \o Added(buffer, commands)
  /\ design' = SinceStart(design \o Added(buffer, commands))

Call ==
  /\ pc = "idle" /\ calls < MaxCalls
  /\ calls' = calls + 1
  /\ UNCHANGED <<step, chip, fifo, register, touching>>

(* An operation whose last command flushes the buffer, when it fits.       *)
AddAndFlush(commands, next) ==
  /\ Add(commands)
  /\ IF AllFit(buffer, commands)
     THEN pc' = "flushing" /\ after' = next /\ result' = "none"
     ELSE pc' = "idle" /\ result' = "LimitReached" /\ UNCHANGED after

AddOnly(commands) ==
  /\ Add(commands)
  /\ result' = IF AllFit(buffer, commands) THEN "Success" ELSE "LimitReached"
  /\ UNCHANGED <<pc, after>>

(* A periodic operation is stopped first, whether or not that succeeds.    *)
startDesign ==
  /\ Call /\ sketch' = FALSE
  /\ IF ~sketch THEN AddOnly(StartList)
     ELSE IF AllFit(buffer, <<Word("Stop")>>) THEN AddAndFlush(<<Word("Stop")>>, "start") ELSE AddOnly(StartList)

addText == Call /\ AddOnly(<<Word("ColorRgb"), Text>>) /\ UNCHANGED sketch

(* The tag is disabled again when the button did not fit, if there is room *)
(* for that.                                                               *)
addButton ==
  LET tag == <<Word("TagMask"), Word("Tag")>>
      whole == tag \o <<ButtonCommand>>
      held == buffer \o Added(buffer, whole)
  IN  /\ Call /\ UNCHANGED <<sketch, pc, after>>
      /\ IF AllFit(buffer, tag)
         THEN /\ buffer' = held \o Added(held, <<Word("TagMask")>>)
              /\ design' = SinceStart(design \o Added(buffer, whole) \o Added(held, <<Word("TagMask")>>))
         ELSE Add(tag)
      /\ result' = IF AllFit(buffer, whole) THEN "Success" ELSE "LimitReached"

addSketch == Call /\ AddOnly(Sketch) /\ sketch' = (sketch \/ AllFit(buffer, Sketch))

(* The element clears the screen with a list of its own and shows it.      *)
clearScreen == Call /\ AddAndFlush(StartList \o <<Word("ClearColor"), Word("Clear")>> \o EndList, "idle") /\ UNCHANGED sketch

endDesign == Call /\ AddAndFlush(EndList, "idle") /\ UNCHANGED sketch

(* The picture is taken to the controller's memory and read from there; in *)
(* greyscale what is there already is read.                                *)
copyScreen ==
  /\ Call /\ UNCHANGED sketch
  /\ \/ AddAndFlush(<<[name |-> "Snapshot2", words |-> 5]>>, "copy")
     \/ pc' = "copy" /\ UNCHANGED <<buffer, design, after, result>>

\* Mutant: the buffer is written whatever is free.
MayWriteAnyway(free, size) == TRUE

(* One pass of the flush: the buffer is written when MORE than its size is *)
(* free, and the loop ends as soon as no LESS is free.                     *)
MayWrite(free, size) == size < free

Flush ==
  /\ pc = "flushing"
  /\ \E free \in 0..FifoWords :
       /\ free # Size(buffer) \/ "equal" \in Oddities
       /\ IF MayWrite(free, Size(buffer)) /\ Size(buffer) <= free
          THEN fifo' = SinceStart(fifo \o buffer) ELSE UNCHANGED fifo  \* what does not fit is not received
       /\ IF MayWrite(free, Size(buffer)) \/ free >= Size(buffer)
          THEN buffer' = <<>> /\ pc' = after /\ result' = "Success"
          ELSE UNCHANGED <<buffer, pc, result>>
  /\ UNCHANGED <<step, chip, after, design, sketch, register, touching, calls>>

(* The free space reads as the fault code: the coprocessor is reset and    *)
(* what it had received is gone, from the design as well; the flash is     *)
(* attached again by commands that are flushed behind those in the buffer, *)
(* and the flush that met the fault then finds the buffer empty.  Without  *)
(* room for them nothing is written.  Faults are bounded with the calls.   *)
Flash == <<Word("Flashattach"), Word("Flashfast")>>

Recover ==
  /\ pc = "flushing" /\ calls < MaxCalls
  /\ calls' = calls + 1
  /\ IF AllFit(buffer, <<Head(Flash)>>)
     THEN fifo' = SinceStart(buffer \o Flash) /\ buffer' = <<>>
     ELSE fifo' = <<>> /\ UNCHANGED buffer
  /\ design' = SinceStart(fifo' \o buffer')
  /\ UNCHANGED <<step, chip, pc, after, sketch, result, register, touching>>

StartAfterStop ==
  /\ pc = "start"
  /\ Add(StartList) /\ pc' = "idle"
  /\ result' = IF AllFit(buffer, StartList) THEN "Success" ELSE "LimitReached"
  /\ UNCHANGED <<step, chip, after, fifo, sketch, register, touching, calls>>

(* The picture is read word by word; a read that fails ends the copy.      *)
CopyWords ==
  /\ pc = "copy"
  /\ pc' = "idle" /\ result' \in {"Success", "Failure"}
  /\ UNCHANGED <<step, chip, designing, register, touching>>

Next ==
  \/ InitStep \/ InitFails \/ EnginesStart
  \/ Press \/ Release \/ CountTouch \/ AwaitRelease
  \/ BeginWrite \/ TryWrite
  \/ startDesign \/ addText \/ addButton \/ addSketch \/ clearScreen \/ endDesign \/ copyScreen
  \/ Flush \/ Recover \/ StartAfterStop \/ CopyWords

Spec == Init /\ [][Next]_vars
-----------------------------------------------------------------------------
TypeOK ==
  /\ step \in 1..(Len(Steps) + 1) /\ calls \in 0..MaxCalls /\ sketch \in BOOLEAN
  /\ pc \in {"init", "calibrating", "released", "idle", "writing", "flushing", "start", "copy"}
  /\ after \in {"idle", "start", "copy"} /\ Size(buffer) <= Capacity
  /\ presses \in 0..MaxPresses /\ counted \in 0..3 /\ register.retries \in 0..MaxRetries

(* init() uses the bus at full speed only once the controller is known to  *)
(* be there, out of its reset and set up, also when it is called again.    *)
FullSpeedIsLate == chip.speed = "full" /\ Past("initSpi") => Past("readRegId") /\ Past("readChipId") /\ Past("setScreenParameters")

(* init() succeeds with engines that run: violated, they are asked 500     *)
(* times and the last answer counts as a success.                          *)
InitMeansRunning == pc = "idle" => chip.engines = "running"

(* The calibration counts a touch of the user once.                        *)
TouchesAreCountedOnce == counted <= presses

(* A register write that reports success after a read-back has stored the  *)
(* value, as far as its highest bit; a value of zero is not compared.      *)
VerifiedWriteIsStored ==
  register.done = "Success" /\ register.value # 0 =>
    register.stored % Mask(register.value) = register.value % Mask(register.value)

(* The same for every value: violated for zero, which is what switches the *)
(* display and its light off.                                              *)
WriteIsStored == register.done = "Success" => register.stored % Mask(register.value) = register.value % Mask(register.value)

(* Of the commands accepted since the last start of a list or the last     *)
(* reset of the coprocessor none is lost and none comes twice or out of    *)
(* order: the controller has received the first of them and the buffer     *)
(* holds the others.                                                       *)
NothingIsLost == SinceStart(fifo \o buffer) = design

(* A design can be ended: violated, elements may leave the buffer so full  *)
(* that neither the end of a list nor its start fits, and nothing else     *)
(* empties it.                                                             *)
DesignCanEnd == AllFit(buffer, EndList)
=============================================================================
