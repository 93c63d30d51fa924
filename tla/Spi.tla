-------------------------------- MODULE Spi ---------------------------------
(***************************************************************************)
(* The driver of the Tm4c's synchronous serial interface.  The bus is an   *)
(* exchange: for every word the controller sends, one arrives in a short   *)
(* queue of the peripheral, and is lost when the queue is full.  The       *)
(* driver offers sending and receiving as separate operations; receiving   *)
(* waits without end for words that only a transmission brings.  The       *)
(* peripheral itself is not part of the repository.                        *)
(***************************************************************************)
EXTENDS Integers, Sequences

CONSTANTS
    Depth,    \* words the receive queue of the peripheral holds
    Size,     \* bound: words of an operation
    MaxCalls  \* bound: calls

SpiAssumption == Depth \in Nat /\ Size \in Nat /\ MaxCalls \in Nat

VARIABLES
    bad,        \* a parameter that no conversion knows, or "none"
    slow,       \* the system clock is less than twice the frequency that is asked for
    controller, \* driverConfig.isController
    enabled,    \* the peripheral runs
    ready,      \* the last init answered Success
    fifo,       \* the receive queue: the number of the call during which each word arrived
    need,       \* the words the call of rxBlocking has yet to get
    got,        \* the words the last rxBlocking got
    flushed,    \* the number of the last call that emptied the queue
    calls

parameters == <<bad, slow, controller>>
device == <<enabled, fifo>>
vars == <<parameters, device, ready, need, got, flushed, calls>>

TypeOK ==
    /\ bad \in {"none", "peripheral", "format", "dataSize"}
    /\ slow \in BOOLEAN /\ controller \in BOOLEAN /\ enabled \in BOOLEAN /\ ready \in BOOLEAN
    /\ fifo \in Seq(0..MaxCalls) /\ Len(fifo) <= Depth
    /\ need \in 0..Size
    /\ got \in Seq(0..MaxCalls) /\ Len(got) <= Size
    /\ flushed \in 0..MaxCalls /\ calls \in 0..MaxCalls

Init ==
    /\ bad \in {"none", "peripheral", "format", "dataSize"}
    /\ slow \in BOOLEAN /\ controller \in BOOLEAN
    /\ enabled = FALSE /\ ready = FALSE
    /\ fifo = <<>> /\ need = 0 /\ got = <<>>
    /\ flushed = 0 /\ calls = 0

Called == need = 0 /\ calls < MaxCalls /\ calls' = calls + 1

toTm4cSysCtlPeripheralNumber == IF bad = "peripheral" THEN "InvalidParameter" ELSE "Success"
toTm4cPeripheralBaseRegister == toTm4cSysCtlPeripheralNumber
toTm4cFrameFormat == IF bad = "format" THEN "InvalidParameter" ELSE "Success"
toTm4cDataSize == IF bad = "dataSize" THEN "InvalidParameter" ELSE "Success"

\* Nothing is enabled when the clock is too slow, and Success is answered.
init ==
    /\ Called
    /\ ready' = \A e \in {toTm4cSysCtlPeripheralNumber, toTm4cFrameFormat, toTm4cDataSize} : e = "Success"
    /\ enabled' = (enabled \/ (ready' /\ ~slow))
    /\ UNCHANGED <<parameters, fifo, need, got, flushed>>

deinit ==
    /\ Called
    /\ enabled' = (enabled /\ toTm4cPeripheralBaseRegister # "Success")
    /\ UNCHANGED <<parameters, ready, fifo, need, got, flushed>>

\* What is left of the words that arrive during this call.
Arrived(n) == LET room == Depth - Len(fifo)
              IN fifo \o [i \in 1..(IF n < room THEN n ELSE room) |-> calls + 1]

\* An enabled peripheral exchanges every word before the call returns: it waits
\* while the interface is busy.
txBlocking(size) ==
    /\ Called /\ enabled /\ toTm4cPeripheralBaseRegister = "Success"
    /\ fifo' = IF controller THEN Arrived(size) ELSE fifo
    /\ UNCHANGED <<parameters, enabled, ready, need, got, flushed>>

rxBlocking(size) ==
    /\ Called /\ enabled /\ toTm4cPeripheralBaseRegister = "Success"
    /\ need' = size /\ got' = <<>>
    /\ UNCHANGED <<parameters, device, ready, flushed>>

\* One turn of its loop: SSIDataGet waits until there is a word.
RxWord ==
    /\ need > 0 /\ fifo # <<>>
    /\ got' = Append(got, Head(fifo)) /\ fifo' = Tail(fifo) /\ need' = need - 1
    /\ UNCHANGED <<parameters, enabled, ready, flushed, calls>>

\* Mutated: one word is taken, not all.
flushRxBufferOnce ==
    /\ Called /\ enabled /\ toTm4cPeripheralBaseRegister = "Success"
    /\ fifo' = IF fifo = <<>> THEN fifo ELSE Tail(fifo)
    /\ flushed' = calls' /\ got' = <<>>
    /\ UNCHANGED <<parameters, enabled, ready, need>>

flushRxBuffer ==
    /\ Called /\ enabled /\ toTm4cPeripheralBaseRegister = "Success"
    /\ fifo' = <<>> /\ flushed' = calls' /\ got' = <<>>
    /\ UNCHANGED <<parameters, enabled, ready, need>>

\* The controller at the other end sends a word to a peripheral that is not one.
Arrive ==
    /\ enabled /\ ~controller /\ calls < MaxCalls /\ calls' = calls + 1
    /\ fifo' = Arrived(1)
    /\ UNCHANGED <<parameters, enabled, ready, need, got, flushed>>

Next ==
    \/ init \/ deinit \/ RxWord \/ flushRxBuffer \/ Arrive
    \/ \E size \in 0..Size : txBlocking(size) \/ rxBlocking(size)

Spec == Init /\ [][Next]_vars

---------------------------------------------------------------------------
\* No reception returns words older than the last flush: what flushRxBuffer left
\* behind would be taken for the answer to the command sent after it.
NothingOldIsReceived == \A i \in 1..Len(got) : got[i] > flushed

---------------------------------------------------------------------------
(* What does not hold of the code. *)

\* An init that answers Success leaves the interface running.
ReadyIsEnabled == [][init => (ready' => enabled')]_vars

\* Words of one reception arrived during one transmission.
AnswerIsOfOneCall == \A i, j \in 1..Len(got) : controller => got[i] = got[j]

\* A reception does not wait for words that nobody is going to send.
NobodyWaitsForEver == controller => need <= Len(fifo)
=============================================================================
