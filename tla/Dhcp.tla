-------------------------------- MODULE Dhcp --------------------------------
(***************************************************************************)
(* The DHCP client of core/dhcp.cxx, with the service time that NetThread   *)
(* keeps for it (core/network.cxx).  Times are kept as the seconds left to  *)
(* them, 0 once they have passed.                                           *)
(*                                                                          *)
(* The client keeps one transaction id for ever, so an answer to any of its *)
(* messages is still good later: Receive takes every answer at any time, as *)
(* a network may lose, delay, repeat and reorder them.                      *)
(***************************************************************************)
EXTENDS Integers

CONSTANTS
    MaxBackoff,     \* 128, where the backoff ends; the counter is a byte
    Leases          \* the lease times that servers give

(* What the proofs assume: the backoff doubles up to a power of two, as the *)
(* code's 128 is.                                                           *)
PowersOfTwo == {1, 2, 4, 8, 16, 32, 64, 128}
DhcpAssumption == MaxBackoff \in PowersOfTwo \ {1} /\ Leases \subseteq Nat

VARIABLES
    state,      \* _state
    backoff,    \* _backoff
    rexmit,     \* seconds to _rexmit
    renew,      \* seconds to _renew
    asked,      \* seconds since _first_request
    next        \* seconds to NetThread's dhcp_next

vars == <<state, backoff, rexmit, renew, asked, next>>

TypeOK ==
    /\ state \in {"reset", "discover", "request", "configured"}
    /\ backoff \in 0..(2 * MaxBackoff - 1)
    /\ rexmit \in Nat /\ renew \in Nat /\ asked \in Nat /\ next \in Nat

Longest == CHOOSE l \in Leases \cup {0} : \A m \in Leases : m <= l

(* Backoff: the byte wraps at twice the end of the backoff. *)
Backoff(b) ==
    /\ backoff' = (2 * b) % (2 * MaxBackoff)
    /\ rexmit' = backoff'

(* SendDiscover and SendRequest: the client moves on once it has a buffer   *)
(* for the message, and otherwise tries again in a second.                  *)
Send(to, s, b) ==
    \/ state' = to /\ Backoff(b)
    \/ state' = s /\ backoff' = b /\ rexmit' = 1

SendDiscover(s, b) == Send("discover", s, b)
SendRequest(s, b) == Send("request", s, b)

Reset == SendDiscover("reset", 1)

(* Mutant of ServiceTime: the whole lease, not what is left of it. *)
ServiceTimeWhole == IF state' = "configured" THEN Longest ELSE rexmit'

(* GetServiceTime, after a step. *)
ServiceTime == IF state' = "configured" THEN renew' ELSE rexmit'

(* NetThread resets the client and takes its service time. *)
Init ==
    /\ \/ state = "discover" /\ backoff = 2 % (2 * MaxBackoff) /\ rexmit = backoff
       \/ state = "reset" /\ backoff = 1 /\ rexmit = 1
    /\ next = rexmit
    /\ renew = 0 /\ asked = 0

-----------------------------------------------------------------------------
Offer ==
    /\ state = "discover"
    /\ asked' = 0
    /\ SendRequest("discover", 1)
    /\ UNCHANGED <<renew, next>>

(* Extract sets _renew, from the time of the first request, only if the     *)
(* answer gives a lease time.                                               *)
Extract ==
    \/ \E l \in Leases : renew' = IF asked < l THEN l - asked ELSE 0
    \/ UNCHANGED renew

Ack ==
    /\ state = "request"
    /\ state' = "configured"
    /\ backoff' = 0
    /\ Extract
    /\ UNCHANGED <<rexmit, asked, next>>

Nack ==
    /\ state = "request"
    /\ Reset
    /\ UNCHANGED <<renew, asked, next>>

Receive == Offer \/ Ack \/ Nack

-----------------------------------------------------------------------------
(* Service, when it is due. *)
LinkDown ==
    /\ Backoff(1)
    /\ UNCHANGED state

Configured ==
    /\ state = "configured"
    /\ IF renew > 0
       THEN UNCHANGED <<state, backoff, rexmit>>
       ELSE SendRequest("request", 1)

Requesting ==
    /\ state = "request"
    /\ IF backoff < MaxBackoff
       THEN SendRequest("request", backoff)
       ELSE SendDiscover("discover", 1)

(* Mutant of Discovering: the backoff does not start over. *)
DiscoveringOn ==
    /\ state \in {"reset", "discover"}
    /\ IF state = "reset" /\ rexmit > 0
       THEN UNCHANGED <<state, backoff, rexmit>>
       ELSE SendDiscover(state, backoff)

(* In state reset, before _rexmit, it would do nothing: Service is not      *)
(* called then.                                                             *)
Discovering ==
    /\ state \in {"reset", "discover"}
    /\ IF state = "reset" /\ rexmit > 0
       THEN UNCHANGED <<state, backoff, rexmit>>
       ELSE SendDiscover(state, IF backoff = MaxBackoff THEN 1 ELSE backoff)

Service ==
    /\ next = 0
    /\ LinkDown \/ Configured \/ Requesting \/ Discovering
    /\ UNCHANGED <<renew, asked>>
    /\ next' = ServiceTime

LessOne(t) == IF t > 0 THEN t - 1 ELSE 0

Second ==
    /\ rexmit' = LessOne(rexmit)
    /\ renew' = LessOne(renew)
    /\ next' = LessOne(next)
    /\ asked' = IF asked < Longest THEN asked + 1 ELSE asked
    /\ UNCHANGED <<state, backoff>>

Next == Receive \/ Service \/ Second

Spec == Init /\ [][Next]_vars

-----------------------------------------------------------------------------
(* NetThread asks for the service time only after a Service, while answers  *)
(* change the client's state and its times: still it never leaves a client  *)
(* that has no lease alone for longer than the longest backoff, nor one     *)
(* that has a lease beyond the lease's end, unless the backoff that ran     *)
(* when it was acknowledged is longer (Service, Backoff, GetServiceTime).   *)
ServiceTimely ==
    next <= MaxBackoff \/ (state = "configured" /\ next <= renew)

(* A client without a lease waits for something, and the byte that counts   *)
(* the backoff never wraps to 0, which would send without a pause (Service, *)
(* Backoff).                                                                *)
BackoffCounts ==
    /\ backoff <= MaxBackoff
    /\ backoff = 0 => state = "configured"
=============================================================================
