---------------------------- MODULE GatewayClock ----------------------------
(***************************************************************************)
(* GatewayClockScheduler (tti.py): the clock of the virtual gateway.  Each  *)
(* uplink is published with the current value of a counter, which then      *)
(* grows by Interval, modulo Timer; the network server answers an uplink at *)
(* its timestamp plus the delay it wants, modulo Timer.                     *)
(*                                                                          *)
(* In the code, in microseconds: Timer = 2^32, Interval = 15 s, Second =    *)
(* 10^6, and the RAN takes delays below MaxSeconds = 16 s.                  *)
(***************************************************************************)
EXTENDS Integers

CONSTANTS Timer, Interval, Second, MaxSeconds

ASSUME ClockAssumption ==
    /\ Timer \in Nat /\ Interval \in Nat \ {0}
    /\ Second \in Nat \ {0} /\ MaxSeconds \in Nat \ {0}

\* The windows of two uplinks in a row overlap by a second at most (16 s, 15 s),
\* and the clock is much longer than a window.
ASSUME WindowAssumption ==
    /\ MaxSeconds * Second - Interval <= Second
    /\ Interval + MaxSeconds * Second <= Timer

Tmst == 0 .. Timer - 1

\* Seeded bug: the clock does not overflow.
NextTmstUnbounded(clock) == clock + Interval

\* _next_tmst
NextTmst(clock) == (clock + Interval) % Timer

\* calculate_downlink_tmst: a downlink not after its uplink is after the overflow.
RealTmst(uplinkTmst, downlinkTmst) ==
    IF downlinkTmst - uplinkTmst <= 0
    THEN (Timer - uplinkTmst) + downlinkTmst
    ELSE downlinkTmst - uplinkTmst

\* DownlinkTiming.Delay(seconds=int(real_tmst / 1e6))
Seconds(realTmst) == realTmst \div Second

\* Seeded bug: no lower bound.
InBoundsFromAbove(seconds) == seconds < MaxSeconds

\* The bound the RAN sets on a delay.
InBounds(seconds) == 0 < seconds /\ seconds < MaxSeconds

\* What the network server asks for: a delay after an uplink's timestamp.
AnswerTmst(uplinkTmst, delay) == (uplinkTmst + delay) % Timer

\* How far the clock is ahead of a timestamp of its.
Ahead(tmst, clock) == IF clock >= tmst THEN clock - tmst ELSE (Timer - tmst) + clock
=============================================================================
