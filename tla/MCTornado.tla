----------------------------- MODULE MCTornado -----------------------------
(* Instances of Tornado.                                                   *)
EXTENDS Tornado

CONSTANTS b1, b2

Bound(notices, queues, requests, hb, st, browsers) ==
    [notices |-> notices, queues |-> queues, requests |-> requests,
     heartbeats |-> hb, starts |-> st, browsers |-> browsers]

\* A restart with one queue; a restart and a second registration; two windows
\* of one user and the collection of both; a poll that supplants another; and
\* two changes of a flag with a message between them
BoundsAll ==
    { Bound(1, 1, 1, 1, 2, {b1}),
      Bound(1, 2, 1, 0, 2, {b1}),
      Bound(1, 2, 2, 0, 1, {b1, b2}),
      Bound(1, 1, 2, 1, 1, {b1}),
      Bound(3, 1, 1, 0, 1, {b1}) }

BoundsRestart == { Bound(1, 1, 1, 0, 2, {b1}) }
=============================================================================
