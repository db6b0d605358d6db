--------------------------- MODULE MCGattSessions ---------------------------
(***************************************************************************)
(* Instances of GattSessions for TLC: what the session ids ask for, and    *)
(* what the peripherals offer.  Of the two sessions, the first has init    *)
(* writes and a timer that writes, and asks for one with too short an      *)
(* interval, and the second has a subscription; their peripherals offer    *)
(* the same.  The lone session has all of them, and its timer reads.       *)
(***************************************************************************)
EXTENDS GattSessions, TLC

CONSTANTS s1, s2, p1, p2, c1

TwoPeers == p1 :> {c1} @@ p2 :> {c1}

Asked(p, init, notify, some) ==
    [peer |-> p, init |-> init, notify |-> notify, timers |-> some]

Timed(kind, ch) == {[kind |-> kind, char |-> ch, interval |-> MinInterval],
                     [kind |-> kind, char |-> ch, interval |-> MinInterval - 1]}

TwoPlans ==
    s1 :> Asked(p1, <<c1, c1>>, <<>>, Timed("write", c1))
    @@ s2 :> Asked(p2, <<>>, <<c1>>, {})

OnePeer == p1 :> {c1}

OnePlan == s1 :> Asked(p1, <<c1>>, <<c1>>, Timed("read", c1))
=============================================================================
