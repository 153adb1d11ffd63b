--------------------------------- MODULE Dma ---------------------------------
(***************************************************************************)
(* The DMA controller of soc/stm32f4x/dma.cxx with the two peripherals that *)
(* share streams of it in projects/con2: the console USART, which sends     *)
(* with it (soc/stm32f4x/usart.h), and the SPI bus of the touch panel       *)
(* (soc/stm32f4x/spi.cxx, devices/tsc2046.cxx).                             *)
(*                                                                          *)
(* A handler is one step.  Thread code is not under ScopedNoInt but where   *)
(* it says so, and Thread::IPL masks no interrupt, so interrupts come       *)
(* between any two of its steps.  Assertions are compiled out, as dma.h     *)
(* says of the production build.                                            *)
(***************************************************************************)
EXTENDS Integers, FiniteSets, Sequences

CONSTANTS
    NULL,           \* no peripheral
    RingSize,       \* SEND_BUF_SIZE
    MaxWrite        \* bound: characters in a call of Write

VARIABLES
    assignment,     \* _assignment
    is_tx,          \* _is_tx
    stream,         \* the _stream of each _tx and _rx
    active,         \* those whose _active is set
    enabled,        \* streams with EN set
    tcif,           \* streams that have completed: their TCIF
    head, tail,     \* of _sendq
    tx_size,        \* _tx_size
    left,           \* the characters that Write has still to queue
    read,           \* the _tail that PushBack has read
    wpc,            \* where the writer is
    spc             \* where the touch panel's thread is

dmaVars == <<assignment, is_tx, stream, active, enabled, tcif>>
queueVars == <<head, tail, tx_size>>
writerVars == <<left, read, wpc>>
vars == <<dmaVars, queueVars, writerVars, spc>>

(* _target_sch, of which the channel numbers are left out.  A request line  *)
(* is a peripheral's _tx or _rx.                                            *)
Lines == {"usart_tx", "spi_tx", "spi_rx"}
_target_sch == [usart_tx |-> <<3, 4>>, spi_tx |-> <<4>>, spi_rx |-> <<3>>]
Peripheral(l) == IF l = "usart_tx" THEN "usart" ELSE "spi"
IsTx(l) == l # "spi_rx"
Line(p, tx) == IF p = "usart" THEN "usart_tx" ELSE IF tx THEN "spi_tx" ELSE "spi_rx"
Streams == {0, 3, 4}

TypeOK ==
    /\ assignment \in [Streams -> {"usart", "spi", NULL}]
    /\ is_tx \in [Streams -> BOOLEAN]
    /\ stream \in [Lines -> Streams]
    /\ active \subseteq Lines
    /\ enabled \subseteq Streams /\ tcif \subseteq Streams
    /\ head \in 0..(RingSize - 1) /\ tail \in 0..(RingSize - 1)
    /\ tx_size \in 0..RingSize
    /\ left \in 0..MaxWrite /\ read \in 0..(RingSize - 1)
    /\ wpc \in {"idle", "fill", "more", "push", "test", "assign", "assignWait", "start", "full", "wait"}
    /\ spc \in {"idle", "tx", "txWait", "rx", "rxWait", "receive", "transmit", "sent", "wait"}

Init ==
    /\ assignment = [s \in Streams |-> NULL]
    /\ is_tx = [s \in Streams |-> FALSE]
    /\ stream = [l \in Lines |-> 0]
    /\ active = {} /\ enabled = {} /\ tcif = {}
    /\ head = 0 /\ tail = 0 /\ tx_size = 0
    /\ left = 0 /\ read = 0 /\ wpc = "idle"
    /\ spc = "idle"

-----------------------------------------------------------------------------
(* TryAssign takes the first free stream of the line's; AssignTx and        *)
(* AssignRx wait for a release under ScopedNoInt if there is none.          *)
FreeFor(l) == {i \in DOMAIN _target_sch[l] : assignment[_target_sch[l][i]] = NULL}

TryAssign(l) ==
    /\ FreeFor(l) # {}
    /\ LET first == CHOOSE i \in FreeFor(l) : \A j \in FreeFor(l) : i <= j
           s == _target_sch[l][first]
       IN  /\ assignment' = [assignment EXCEPT ![s] = Peripheral(l)]
           /\ is_tx' = [is_tx EXCEPT ![s] = IsTx(l)]
           /\ stream' = [stream EXCEPT ![l] = s]
    /\ UNCHANGED <<active, enabled, tcif>>

MustWait(l) == FreeFor(l) = {} /\ UNCHANGED dmaVars

(* ClearTCIF takes stream 4 for one of the lower half, whose register has   *)
(* the bit of stream 0 where that of stream 4 is in the upper one.          *)
FlagCleared(s) == IF s = 4 THEN 0 ELSE s

(* Transmit and Receive *)
Transfer(l) ==
    LET s == stream[l]
    IN  /\ active' = active \cup {l}
        /\ enabled' = enabled \cup {s}
        /\ tcif' = tcif \ {FlagCleared(s)}
        /\ UNCHANGED <<assignment, is_tx, stream>>

(* ReleaseTx and ReleaseRx wake everyone that waits for a stream. *)
Released(l) == [assignment EXCEPT ![stream[l]] = NULL]
(* Mutant of WokenWriter: only the bus is woken. *)
WokenWriterNot == wpc

WokenWriter == IF wpc = "assignWait" THEN "assign" ELSE wpc
WokenPanel == CASE spc = "txWait" -> "tx" [] spc = "rxWait" -> "rx" [] OTHER -> spc

-----------------------------------------------------------------------------
(* The send queue, a Ring. *)
Size == IF tail >= head THEN tail - head ELSE RingSize - head + tail
Headroom == RingSize - Size - 1
Continuous(h) ==
    CASE h <= tail -> tail - h
      [] h > tail /\ h = RingSize - 1 -> tail + 1
      [] OTHER -> RingSize - h - 1

(* Stm32Usart::StartTx with DMA, from a queue whose head is at h; on is     *)
(* what of active, enabled and tcif the handler that calls it has left.     *)
(* The next run of the queue is sent unless one is being sent; with nothing *)
(* to send the stream is released, whether or not it is held.               *)
SendRun(h, on) ==
    /\ h # tail
    /\ head' = h
    /\ IF "usart_tx" \in on.active
       THEN /\ active' = on.active /\ enabled' = on.enabled /\ tcif' = on.tcif
            /\ tx_size' = on.size
       ELSE /\ active' = on.active \cup {"usart_tx"}
            /\ enabled' = on.enabled \cup {stream["usart_tx"]}
            /\ tcif' = on.tcif \ {FlagCleared(stream["usart_tx"])}
            /\ tx_size' = Continuous(h)
    /\ UNCHANGED <<assignment, is_tx, stream, tail, spc>>

GiveUp(h, on) ==
    /\ h = tail
    /\ head' = 0 /\ tail' = 0
    /\ active' = on.active /\ enabled' = on.enabled /\ tcif' = on.tcif
    /\ tx_size' = on.size
    /\ assignment' = Released("usart_tx")
    /\ spc' = WokenPanel
    /\ UNCHANGED <<is_tx, stream>>

StartTx(h, on) == SendRun(h, on) \/ GiveUp(h, on)
Now == [active |-> active, enabled |-> enabled, tcif |-> tcif, size |-> tx_size]

(* Stm32Usart::Write.  PushBack reads _tail and then writes it. *)
Write ==
    /\ wpc = "idle"
    /\ left' \in 1..MaxWrite
    /\ wpc' = "fill"
    /\ UNCHANGED <<dmaVars, queueVars, read, spc>>

Fill ==
    /\ wpc \in {"fill", "more"}
    /\ wpc' = CASE Headroom > 0 /\ left > 0 -> "push"
                [] wpc = "fill" /\ Headroom = 0 -> "full"
                [] OTHER -> "test"
    /\ read' = tail
    /\ UNCHANGED <<dmaVars, queueVars, left, spc>>

(* Mutant of PushBack: the tail does not wrap. *)
PushBackOn ==
    /\ wpc = "push"
    /\ tail' = read + 1
    /\ left' = left - 1
    /\ wpc' = "more"
    /\ UNCHANGED <<dmaVars, head, tx_size, read, spc>>

PushBack ==
    /\ wpc = "push"
    /\ tail' = (read + 1) % RingSize
    /\ left' = left - 1
    /\ wpc' = "more"
    /\ UNCHANGED <<dmaVars, head, tx_size, read, spc>>

TestActive ==
    /\ wpc = "test"
    /\ wpc' = IF "usart_tx" \in active THEN "start" ELSE "assign"
    /\ UNCHANGED <<dmaVars, queueVars, left, read, spc>>

AssignTx ==
    /\ wpc = "assign"
    /\ \/ TryAssign("usart_tx") /\ wpc' = "start"
       \/ MustWait("usart_tx") /\ wpc' = "assignWait"
    /\ UNCHANGED <<queueVars, left, read, spc>>

WriteStart ==
    /\ wpc = "start"
    /\ StartTx(head, Now)
    /\ wpc' = IF left > 0 THEN "full" ELSE "idle"
    /\ UNCHANGED <<left, read>>

WaitForRoom ==
    /\ wpc = "full"
    /\ wpc' = "wait"
    /\ UNCHANGED <<dmaVars, queueVars, left, read, spc>>

Writer ==
    Write \/ Fill \/ PushBack \/ TestActive \/ AssignTx \/ WriteStart \/ WaitForRoom

-----------------------------------------------------------------------------
(* The touch panel: Transact, which takes the streams by AssignRxTx, the    *)
(* one of the larger target first, and then the wait for the completion.    *)
(* It is the bus's only device, so Acquire never waits.                     *)
AssignRxTx ==
    /\ \/ /\ spc \in {"idle", "tx"}
          /\ \/ TryAssign("spi_tx") /\ spc' = "rx"
             \/ MustWait("spi_tx") /\ spc' = "txWait"
       \/ /\ spc = "rx"
          /\ \/ TryAssign("spi_rx") /\ spc' = "receive"
             \/ MustWait("spi_rx") /\ spc' = "rxWait"
    /\ UNCHANGED <<queueVars, writerVars>>

Transact ==
    /\ \/ spc = "receive" /\ Transfer("spi_rx") /\ spc' = "transmit"
       \/ spc = "transmit" /\ Transfer("spi_tx") /\ spc' = "sent"
    /\ UNCHANGED <<queueVars, writerVars>>

ReadPosition ==
    /\ spc = "sent"
    /\ spc' = "wait"
    /\ UNCHANGED <<dmaVars, queueVars, writerVars>>

Panel == AssignRxTx \/ Transact \/ ReadPosition

-----------------------------------------------------------------------------
(* A stream that is enabled completes; what the bus receives, once it has   *)
(* sent what clocks it in.                                                  *)
Completes(s) ==
    /\ s \in enabled
    /\ s = stream["spi_rx"] /\ "spi_rx" \in active =>
        /\ spc \in {"sent", "wait"}
        /\ "spi_tx" \in active => stream["spi_tx"] \in tcif
    /\ tcif' = tcif \cup {s}
    /\ UNCHANGED <<assignment, is_tx, stream, active, enabled, queueVars, writerVars, spc>>

(* Stm32Dma::Interrupt, with the completion handler of the holder. *)
Quiet(s, gone) ==
    [active |-> active \ gone, enabled |-> enabled \ {s}, tcif |-> tcif \ {s}, size |-> 0]

NobodyHolds(s) ==
    /\ assignment[s] = NULL
    /\ enabled' = enabled \ {s} /\ tcif' = tcif \ {s}
    /\ UNCHANGED <<assignment, is_tx, stream, active, queueVars, writerVars, spc>>

UsartComplete(s) ==
    /\ assignment[s] = "usart"
    /\ StartTx((head + tx_size) % RingSize, Quiet(s, {"usart_tx"}))
    /\ wpc' = CASE wpc = "wait" -> "fill"
                [] wpc = "assignWait" /\ head' = tail' -> "assign"
                [] OTHER -> wpc
    /\ UNCHANGED <<left, read>>

SpiComplete(s) ==
    LET l == Line("spi", is_tx[s])
        other == Line("spi", ~is_tx[s])
    IN  /\ assignment[s] = "spi"
        /\ active' = active \ {l}
        /\ enabled' = enabled \ {s} /\ tcif' = tcif \ {s}
        /\ assignment' = Released(l)
        /\ wpc' = WokenWriter
        /\ spc' = IF spc = "wait" /\ other \notin active THEN "idle" ELSE WokenPanel
        /\ UNCHANGED <<is_tx, stream, queueVars, left, read>>

Interrupt(s) ==
    /\ s \in tcif
    /\ NobodyHolds(s) \/ UsartComplete(s) \/ SpiComplete(s)

(* Stm32Usart::HandleInterrupt for a character that arrives while the       *)
(* transmit register is empty.                                              *)
HandleInterrupt ==
    /\ StartTx(head, Now)
    /\ wpc' = CASE head' = tail' /\ wpc = "wait" -> "fill"
                [] head' = tail' /\ wpc = "assignWait" -> "assign"
                [] OTHER -> wpc
    /\ UNCHANGED <<left, read>>

Next ==
    \/ Writer \/ Panel \/ HandleInterrupt
    \/ \E s \in Streams : Completes(s) \/ Interrupt(s)

Spec == Init /\ [][Next]_vars

-----------------------------------------------------------------------------
(* A thread waits for a stream only while another holds every stream it     *)
(* could take: no release, by a completion, by a character that arrives or  *)
(* by the writer itself, passes it by (AssignTx, AssignRx, ReleaseTx,       *)
(* ReleaseRx).                                                              *)
ClaimsHeard ==
    /\ wpc = "assignWait" => FreeFor("usart_tx") = {}
    /\ spc = "txWait" => FreeFor("spi_tx") = {}
    /\ spc = "rxWait" => FreeFor("spi_rx") = {}

(* soc/stm32f4x/dma.cxx: "assert(p == _assignment[p->_tx._stream]);" and    *)
(* the same of Transmit and Receive: a transfer under way is its            *)
(* peripheral's, which has not lost the stream to another.                  *)
StreamOwned ==
    \A l \in active : assignment[stream[l]] = Peripheral(l) /\ is_tx[stream[l]] = IsTx(l)
==============================================================================
