-------------------------------- MODULE Tags --------------------------------
(***************************************************************************)
(* Tags of the runtime (core/tag.c, include/core/tag.h): a time and a      *)
(* microstep, ordered lexicographically, and the delay of a connection.    *)
(* NEVER is both "no time" and, as a delay, "no delay"; FOREVER saturates. *)
(***************************************************************************)
EXTENDS Integers

CONSTANTS
    NEVER,      \* LLONG_MIN
    FOREVER,    \* LLONG_MAX
    UINT_MAX    \* the largest microstep

ASSUME TagsAssumption ==
    /\ NEVER \in Int /\ FOREVER \in Int /\ UINT_MAX \in Nat
    /\ NEVER < 0 /\ 0 < FOREVER

Tag == Int \X (0 .. UINT_MAX)
NEVER_TAG == <<NEVER, 0>>
FOREVER_TAG == <<FOREVER, UINT_MAX>>

\* lf_tag_compare(a, b) < 0, and <= 0.
Before(a, b) == a[1] < b[1] \/ (a[1] = b[1] /\ a[2] < b[2])
UpTo(a, b) == a = b \/ Before(a, b)

Earlier(a, b) == IF Before(a, b) THEN a ELSE b
Later(a, b) == IF Before(a, b) THEN b ELSE a

\* microstep++ of an unsigned number.
NextMicrostep(g) == <<g[1], (g[2] + 1) % (UINT_MAX + 1)>>

\* _lf_delay_tag: a delay of 0 is one microstep, a longer one drops the
\* microstep, and the sum saturates at FOREVER.
Delayed(g, interval) ==
    IF g[1] = NEVER \/ interval = NEVER THEN g
    ELSE IF interval = 0 THEN NextMicrostep(g)
    ELSE <<IF FOREVER - interval < g[1] THEN FOREVER ELSE g[1] + interval, 0>>
=============================================================================
