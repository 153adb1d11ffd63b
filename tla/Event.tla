--------------------------------- MODULE Event ---------------------------------
(***************************************************************************)
(* What an event object promises: a value that Set changes, that waiting   *)
(* threads return on when it is not zero, and that the return of one of    *)
(* them clears if the event resets itself.  Only a wait with a limit may   *)
(* return on zero.                                                          *)
(***************************************************************************)
EXTENDS Naturals

CONSTANTS
    Threads,
    MaxValue        \* values are 0..MaxValue

VARIABLES
    selfReset,      \* the event resets itself
    value,
    waiting,        \* the threads in a wait
    timed           \* those whose wait has a limit

Init == selfReset \in BOOLEAN /\ value = 0 /\ waiting = {} /\ timed = {}

Set(v) == value' = v /\ UNCHANGED <<waiting, timed>>

Wait(t) ==
    /\ t \notin waiting
    /\ value = 0
    /\ waiting' = waiting \cup {t}
    /\ timed' \in {timed, timed \cup {t}}
    /\ UNCHANGED value

Cleared == value' = IF selfReset THEN 0 ELSE value

(* A thread returns from its wait on a value, or never had to wait. *)
Return(t) ==
    /\ value # 0
    /\ waiting' = waiting \ {t}
    /\ timed' = timed \ {t}
    /\ Cleared

TimeOut(t) ==
    /\ t \in timed
    /\ value = 0
    /\ waiting' = waiting \ {t}
    /\ timed' = timed \ {t}
    /\ UNCHANGED value

Next ==
    /\ \/ \E v \in 0..MaxValue : Set(v)
       \/ \E t \in Threads : Wait(t) \/ Return(t) \/ TimeOut(t)
    /\ UNCHANGED selfReset

Spec == Init /\ [][Next]_<<selfReset, value, waiting, timed>>
================================================================================
