------------------------------- MODULE RedisKeys -------------------------------
(***************************************************************************)
(* Redis counters with a lifetime, as the server's Lua scripts and         *)
(* pipelines use them.  A counter is a key: absent when its value is 0.    *)
(* Its lifetime is kept as what is left of it, so time needs no origin.    *)
(***************************************************************************)
EXTENDS Integers

Absent == [n |-> 0, left |-> 0]

\* A counter of at most max, with a lifetime of at most ttl.
Counters(max, ttl) == [n : 0 .. max, left : 0 .. ttl]

IncrWithin_Renewed(c, ttl) == [n |-> c.n + 1, left |-> ttl]

\* INCR, and EXPIRE only when INCR created the key: a fixed window that
\* begins with the first event counted.
IncrWithin(c, ttl) ==
    [n |-> c.n + 1, left |-> IF c.n = 0 THEN ttl ELSE c.left]

\* The counter a tick later: a key whose lifetime ends is gone.
Aged(c) == IF c.left <= 1 THEN Absent ELSE [c EXCEPT !.left = @ - 1]

\* A value that only ever meets ">= cap" need not be counted beyond it.
Capped(c, cap) == IF c.n > cap THEN [c EXCEPT !.n = cap] ELSE c
=============================================================================
