---------------------------------- MODULE Usb ----------------------------------
(***************************************************************************)
(* The LPC's USB device, soc/lpc/lpc_usb_dev.cxx, with USBTMC's control      *)
(* requests, core/usbtmc.cxx: the interrupt takes SETUPs in and fills the    *)
(* control endpoint's IN side, the service thread answers the last SETUP.    *)
(* The thread serves an endpoint with the interrupt masked, in one step.  The *)
(* handler is two, as the host may send a SETUP while it takes one out.      *)
(*                                                                          *)
(* Setup deletes every endpoint, also those that the class defined before,   *)
(* so that only the control endpoint is left.  Its OUT side carries SETUPs   *)
(* and the empty packets of status stages.  Bytes are counted in units and   *)
(* named by the SETUP they answer.                                           *)
(*                                                                          *)
(* Of the controller is assumed: it takes every SETUP, over what its OUT     *)
(* side has, and then drops the IN packet and the stall; it lets no IN       *)
(* packet out while a SETUP is in it; CLEAR_BUF leaves a SETUP that came     *)
(* over the packet read and says so.  The host leaves time after a reset.    *)
(***************************************************************************)
EXTENDS Integers, Sequences

CONSTANTS
    MaxPkt,         \* maxpkt of EP0_IN
    MaxSetups,      \* bound on the SETUPs of the host
    MaxStatus       \* bound on the changes of the device status

(* What the proofs assume. *)
UsbAssumption == MaxPkt \in Nat \ {0} /\ MaxSetups \in Nat

VARIABLES
    pc, prev,       \* the service thread; prev_connected, prev_suspended
    request,        \* _setup: which SETUP it is of and what it asks
    have_setup, have_addr, configured, wake,
    status,         \* _reset, _connected and _suspended, those that are set
    service,        \* the endpoints with service set
    in,             \* _ep[EP0_IN]
    chip,           \* the controller
    hand,           \* the interrupt: latched bits and the packet it has read
    host            \* the host's SETUP, what it got, changes it has made

vars == <<pc, prev, request, have_setup, have_addr, configured, wake, status,
          service, in, chip, hand, host>>

(* What SETUPs ask, by what becomes of them.                                *)
(* Data: one Write for each length.  short are the replies of one Write that *)
(* do not fill a packet, such as GET_STATUS, GET_CONF, GET_CAPABILITIES and  *)
(* the INITIATE requests.                                                   *)
(* refused: whatever ends in StallControl, SET_CONF but 1 for one.          *)
(* ignored: no answer and no stall: SET_FEATURE and CLEAR_FEATURE of an      *)
(* endpoint, INDICATOR_PULSE, a device request with an unknown number.      *)
Data == [device |-> <<2>>, string |-> <<1, 2>>, config |-> <<1, 1, 1>>, short |-> <<1>>]
Acked == {"setaddress", "setconfig"}
Requests == DOMAIN Data \cup Acked \cup {"refused", "ignored", "statusbyte"}
Ids == 0..MaxSetups
None == <<0>>           \* no IN packet: no SETUP is number 0
NoSetup == [id |-> 0, asks |-> "none"]          \* nothing in the OUT side
EmptyOut == [id |-> 0, asks |-> "status"]       \* the packet without data

EP0_OUT == 0
EP0_IN == 1

TypeOK ==
    /\ pc \in {"loop", "out", "in", "wait", "go sleep", "asleep", "woken", "down"}
    /\ prev \in SUBSET {"connected", "suspended"}
    /\ status \in SUBSET {"reset", "connected", "suspended"}
    /\ request.id \in Ids /\ request.asks \in Requests
    /\ {have_setup, have_addr, wake, in.filled, in.done, in.zlp, in.hold} \subseteq BOOLEAN
    /\ configured \in {0, 1}
    /\ service \subseteq {EP0_OUT, EP0_IN}
    /\ in.buf \in Seq(Ids)
    /\ chip.bits \subseteq {EP0_OUT, EP0_IN}
    /\ Len(chip.packet) <= MaxPkt

(* Setup. *)
Init ==
    /\ pc = "loop" /\ prev = {} /\ status = {}
    /\ request = [id |-> 0, asks |-> "device"]
    /\ have_setup = FALSE /\ have_addr = FALSE /\ configured = 0 /\ wake = FALSE
    /\ service = {}
    /\ in = [buf |-> <<>>, filled |-> FALSE, done |-> FALSE, zlp |-> FALSE, hold |-> FALSE]
    /\ chip = [out |-> NoSetup, packet |-> None, bits |-> {}, stall |-> FALSE, changed |-> {}, now |-> {}]
    /\ hand = [busy |-> FALSE, bits |-> {}, read |-> NoSetup]
    /\ host = [id |-> 0, asks |-> "device", got |-> <<>>, ended |-> TRUE, changes |-> 0]

-----------------------------------------------------------------------------
(* The endpoint's operations map the IN side and the controller's packet    *)
(* together, s.                                                             *)
EmitZLP(s) ==
    [s EXCEPT !.packet = <<>>, !.filled = TRUE, !.zlp = FALSE]

FillINEP(s) ==
    LET count == IF Len(s.buf) < MaxPkt THEN Len(s.buf) ELSE MaxPkt
    IN  IF ~s.hold /\ ~s.filled /\ (s.done \/ Len(s.buf) >= MaxPkt)
        THEN [s EXCEPT !.packet = SubSeq(s.buf, 1, count),
                       !.buf = SubSeq(s.buf, count + 1, Len(s.buf)),
                       !.zlp = @ \/ (count = MaxPkt /\ Len(s.buf) = count),
                       !.filled = TRUE]
        ELSE s

Write(s, id, len) ==
    FillINEP([s EXCEPT !.done = FALSE, !.zlp = FALSE,
                       !.buf = @ \o [i \in 1..len |-> id]])

WriteHold(s, state) ==
    IF state THEN [s EXCEPT !.hold = TRUE] ELSE FillINEP([s EXCEPT !.hold = FALSE])

WriteDone(s, zlp) ==
    LET t == [FillINEP([s EXCEPT !.done = TRUE]) EXCEPT !.zlp = zlp]
    IN  IF ~t.filled /\ zlp THEN EmitZLP(t) ELSE t

(* The IN interrupt: the packet is gone.  done is never taken back, so that *)
(* the end of a reply is followed by empty packets without end.             *)
Sent(s) ==
    LET t == FillINEP([s EXCEPT !.filled = FALSE])
    IN  IF ~t.filled /\ t.done /\ t.buf = <<>> /\ t.zlp THEN EmitZLP(t) ELSE t

Side == [packet |-> chip.packet, buf |-> in.buf, filled |-> in.filled,
         done |-> in.done, zlp |-> in.zlp, hold |-> in.hold]
Kept(s) == [buf |-> s.buf, filled |-> s.filled, done |-> s.done, zlp |-> s.zlp,
            hold |-> s.hold]

(* The controller lets no packet out while a SETUP waits in it. *)
IsSetup(p) == p.id > 0
SideBecomes(s, out) ==
    /\ in' = Kept(s)
    /\ chip' = [chip EXCEPT !.packet = IF IsSetup(out) THEN None ELSE s.packet]

-----------------------------------------------------------------------------
(* HandleInterrupt *)

(* The pending bits are read once, and the OUT packet is read. *)
DrainOUTEP ==
    /\ ~hand.busy /\ pc # "down"
    /\ chip.bits # {} \/ chip.changed # {}
    /\ hand' = [busy |-> TRUE, bits |-> chip.bits,
                read |-> IF EP0_OUT \in chip.bits THEN chip.out ELSE NoSetup]
    /\ UNCHANGED <<pc, prev, request, have_setup, have_addr, configured, wake,
                   status, service, in, chip, host>>

(* A change of the device status.  A reset hides the other changes. *)
StatusChange ==
    /\ status' = IF chip.changed = {} THEN status
                 ELSE IF "reset" \in chip.changed THEN status \cup {"reset"}
                 ELSE {s \in {"connected", "suspended"} :
                           s \in IF s \in chip.changed THEN chip.now ELSE status}
    /\ have_addr' = (have_addr /\ "reset" \notin chip.changed)

WakeSingle == pc' = IF pc = "asleep" THEN "woken" ELSE pc

(* The SETUP is kept, with the bytes that were read even if another came    *)
(* over them.  The controller still has that one then, but its bit is       *)
(* cleared; if what was read is empty, that makes a SETUP of no bytes.      *)
HandleInterrupt ==
    LET over == chip.out # hand.read
        out == IF EP0_OUT \in hand.bits /\ ~over THEN NoSetup ELSE chip.out
        s == IF EP0_IN \in hand.bits THEN Sent(Side) ELSE Side
    IN  /\ hand.busy /\ pc # "down"
        /\ hand' = [busy |-> FALSE, bits |-> {}, read |-> NoSetup]
        /\ request' = IF IsSetup(hand.read) THEN hand.read ELSE request
        /\ have_setup' = ((have_setup \/ IsSetup(hand.read)) /\ "reset" \notin chip.changed)
        /\ service' = service \cup hand.bits
        /\ in' = Kept(s)
        /\ chip' = [chip EXCEPT !.out = out, !.bits = @ \ hand.bits, !.changed = {},
                                !.packet = IF IsSetup(out) THEN None ELSE s.packet,
                                !.stall = @ \/ (over /\ hand.read = EmptyOut)]
        /\ StatusChange
        /\ wake' = TRUE
        /\ WakeSingle
        /\ UNCHANGED <<prev, configured, host>>

-----------------------------------------------------------------------------
(* The service thread *)

Flushed(s) ==
    [s EXCEPT !.buf = <<>>, !.filled = FALSE, !.done = FALSE, !.zlp = FALSE,
              !.hold = FALSE]

(* What the requests do with the flushed IN side: no reply is written in    *)
(* more than three pieces.                                                  *)
WritePieces(s, id, lens) ==
    LET first == Write(s, id, lens[1])
        second == Write(first, id, lens[2])
    IN  IF Len(lens) = 1 THEN first
        ELSE IF Len(lens) = 2 THEN second ELSE Write(second, id, lens[3])

Reply(s, id, lens) == WriteDone(WritePieces(s, id, lens), FALSE)

ReplyHeld(s, id, lens) ==
    WriteDone(WriteHold(WritePieces(WriteHold(s, TRUE), id, lens), FALSE), FALSE)

ProcessSetup(s) ==
    IF request.asks = "config" THEN ReplyHeld(s, request.id, Data.config)
    ELSE IF request.asks \in DOMAIN Data THEN Reply(s, request.id, Data[request.asks])
    ELSE IF request.asks \in Acked THEN WriteDone([s EXCEPT !.filled = FALSE], TRUE)
    ELSE s

(* ServiceEPs, EP0_OUT.  The class's answer to READ_STATUS_BYTE is written  *)
(* to an endpoint that Setup deleted.                                       *)
Serve(s) ==
    /\ SideBecomes(s, chip.out)
    /\ configured' = IF request.asks = "setconfig" THEN 1 ELSE configured
    /\ have_addr' = (have_addr \/ request.asks = "setaddress")
    /\ have_setup' = FALSE

(* Mutant of ServiceSetup: what is left of the last reply is not flushed. *)
ServiceOver ==
    /\ pc = "out" /\ ~hand.busy
    /\ EP0_OUT \in service /\ have_setup
    /\ request.asks # "refused"
    /\ pc' = IF request.asks = "statusbyte" THEN "down" ELSE "in"
    /\ service' = service \ {EP0_OUT}
    /\ Serve(ProcessSetup([Flushed(Side) EXCEPT !.buf = in.buf]))
    /\ UNCHANGED <<prev, request, wake, status, hand, host>>

ServiceSetup ==
    /\ pc = "out" /\ ~hand.busy
    /\ EP0_OUT \in service /\ have_setup
    /\ request.asks # "refused"
    /\ pc' = IF request.asks = "statusbyte" THEN "down" ELSE "in"
    /\ service' = service \ {EP0_OUT}
    /\ Serve(ProcessSetup(Flushed(Side)))
    /\ UNCHANGED <<prev, request, wake, status, hand, host>>

StallControl ==
    /\ pc = "out" /\ ~hand.busy
    /\ EP0_OUT \in service /\ have_setup
    /\ request.asks = "refused"
    /\ pc' = "in"
    /\ service' = service \ {EP0_OUT}
    /\ in' = Kept(Flushed(Side))
    /\ chip' = [chip EXCEPT !.stall = TRUE]
    /\ have_setup' = FALSE
    /\ UNCHANGED <<prev, request, have_addr, configured, wake, status, hand, host>>

ServiceNothing ==
    /\ pc = "out" /\ ~hand.busy
    /\ EP0_OUT \notin service \/ ~have_setup
    /\ pc' = "in"
    /\ service' = service \ {EP0_OUT}
    /\ UNCHANGED <<prev, request, have_setup, have_addr, configured, wake, status, in, chip,
                   hand, host>>

ServiceIN ==
    /\ pc = "in" /\ ~hand.busy
    /\ pc' = "wait"
    /\ service' = service \ {EP0_IN}
    /\ UNCHANGED <<prev, request, have_setup, have_addr, configured, wake, status, in, chip,
                   hand, host>>

(* The class is told of changes; a change of suspended starts over. *)
CheckStatus ==
    /\ pc = "loop" /\ ~hand.busy
    /\ prev' = status \ {"reset"}
    /\ pc' = IF "suspended" \in prev <=> "suspended" \in status THEN "out" ELSE "loop"
    /\ UNCHANGED <<request, have_setup, have_addr, configured, wake, status, service, in, chip,
                   hand, host>>

others == <<prev, request, have_setup, have_addr, configured, status, service, in,
            chip, hand, host>>

(* Mutant of TestWake: what came while the endpoints were served is         *)
(* forgotten before the test.                                               *)
TestWakeCleared ==
    /\ pc = "wait" /\ ~hand.busy
    /\ pc' = "go sleep" /\ wake' = FALSE
    /\ UNCHANGED others

(* The IPL that is held here masks nothing (Thread.tla): an interrupt can   *)
(* come after the test, set _wake and find nobody to wake.                  *)
TestWake ==
    /\ pc = "wait" /\ ~hand.busy
    /\ pc' = IF wake THEN "loop" ELSE "go sleep"
    /\ wake' = FALSE
    /\ UNCHANGED others

WaitFor ==
    /\ pc = "go sleep" /\ ~hand.busy /\ pc' = "asleep"
    /\ UNCHANGED <<wake, others>>

TimedOut ==
    /\ pc = "asleep" /\ ~hand.busy /\ pc' = "woken"
    /\ UNCHANGED <<wake, others>>

Resume ==
    /\ pc = "woken" /\ ~hand.busy
    /\ pc' = "loop" /\ wake' = FALSE
    /\ UNCHANGED others

-----------------------------------------------------------------------------
(* The host *)
device == <<pc, prev, request, have_setup, have_addr, configured, wake, status,
            service, in, hand>>

SendSetup(asks) ==
    /\ host.id < MaxSetups /\ "reset" \notin chip.changed
    /\ host' = [host EXCEPT !.id = @ + 1, !.asks = asks, !.got = <<>>, !.ended = FALSE]
    /\ chip' = [chip EXCEPT !.out = [id |-> host.id + 1, asks |-> asks], !.packet = None,
                            !.stall = FALSE, !.bits = @ \cup {EP0_OUT}]
    /\ UNCHANGED device

(* A packet that is not full ends the data. *)
TakeIn ==
    /\ ~host.ended /\ ~chip.stall /\ chip.packet # None
    /\ host' = [host EXCEPT !.got = Append(@, chip.packet), !.ended = Len(chip.packet) < MaxPkt]
    /\ chip' = [chip EXCEPT !.packet = None, !.bits = @ \cup {EP0_IN}]
    /\ UNCHANGED device

SendStatus ==
    /\ host.ended /\ host.got # <<>> /\ host.asks \notin Acked /\ chip.out = NoSetup
    /\ host' = [host EXCEPT !.got = <<>>]
    /\ chip' = [chip EXCEPT !.out = EmptyOut, !.bits = @ \cup {EP0_OUT}]
    /\ UNCHANGED device

(* The cable, the bus's power and its reset, which ends what was going on. *)
ChangeStatus(s) ==
    /\ host.changes < MaxStatus
    /\ host' = [host EXCEPT !.changes = @ + 1, !.ended = @ \/ s = "reset"]
    /\ chip' = [chip EXCEPT !.changed = @ \cup {s},
                            !.now = IF s \in @ THEN @ \ {s} ELSE @ \cup ({s} \ {"reset"})]
    /\ UNCHANGED device

Next ==
    \/ DrainOUTEP \/ HandleInterrupt
    \/ CheckStatus \/ ServiceSetup \/ StallControl \/ ServiceNothing \/ ServiceIN
    \/ TestWake \/ WaitFor \/ TimedOut \/ Resume
    \/ \E asks \in Requests : SendSetup(asks)
    \/ TakeIn \/ SendStatus
    \/ \E s \in {"reset", "connected", "suspended"} : ChangeStatus(s)

Spec == Init /\ [][Next]_vars

-----------------------------------------------------------------------------
(* The host's last SETUP has been taken from the controller. *)
Taken == ~host.ended /\ ~hand.busy /\ chip.out = NoSetup

(* Once no SETUP waits, what is still to be sent is of the reply to the     *)
(* host's last SETUP, and so is the packet in the controller if there is    *)
(* such a reply: nothing of a reply that the host gave up is left in the    *)
(* buffer, and what the controller may have of it is written over           *)
(* (ServiceEPs, FillINEP, HandleInterrupt).                                 *)
ReplyIsCurrent ==
    Taken /\ ~have_setup =>
        /\ \A i \in DOMAIN in.buf : in.buf[i] = host.id
        /\ host.asks \in DOMAIN Data \cup Acked /\ chip.packet # None =>
               \A i \in DOMAIN chip.packet : chip.packet[i] = host.id

(* The thread does not sleep on a SETUP, unless the interrupt came between  *)
(* its test and its wait, and then _wake is set for when the second is over: *)
(* if nothing else is going on, there is an answer to take, or there was,   *)
(* or a stall, to every request but those that the code never answers       *)
(* (Service, ServiceEPs, HandleInterrupt).                                  *)
Answered ==
    Taken /\ pc = "asleep" /\ ~wake /\ chip.bits = {} /\ chip.changed = {} =>
        \/ chip.packet # None \/ chip.stall \/ host.got # <<>>
        \/ host.asks = "ignored"
=============================================================================
