------------------------- MODULE GatewayClock_proofs -------------------------
(* The delays of class A downlinks come out right across the clock's overflow. *)
EXTENDS GatewayClock, TLAPS

\* Adding less than a turn and wrapping is one conditional subtraction.
LEMMA Wrap ==
    ASSUME NEW a \in Tmst, NEW x \in Tmst
    PROVE  (a + x) % Timer = IF a + x < Timer THEN a + x ELSE a + x - Timer
<1>1. Timer \in Nat \ {0} /\ a \in Nat /\ x \in Nat /\ a < Timer /\ x < Timer
  BY ClockAssumption DEF Tmst
<1>2. CASE a + x < Timer
  BY <1>1, <1>2
<1>3. CASE a + x >= Timer
  BY <1>1, <1>3
<1> QED BY <1>1, <1>2, <1>3

\* Dividing by the second.
LEMMA SecondsBounds ==
    ASSUME NEW r \in Nat
    PROVE  /\ Seconds(r) \in Nat
           /\ r < Second => Seconds(r) = 0
           /\ r >= MaxSeconds * Second => Seconds(r) >= MaxSeconds
<1>1. Second \in Nat \ {0} /\ MaxSeconds \in Nat \ {0}
  BY ClockAssumption
<1>2. Seconds(r) \in Nat
  BY <1>1 DEF Seconds
<1>3. r < Second => Seconds(r) = 0
  BY <1>1 DEF Seconds
<1>4. r >= MaxSeconds * Second => Seconds(r) >= MaxSeconds
  BY <1>1 DEF Seconds
<1> QED BY <1>2, <1>3, <1>4

LEMMA ClockNumbers ==
    /\ Timer \in Nat \ {0} /\ Interval \in Tmst /\ Second \in Nat \ {0}
    /\ MaxSeconds * Second \in Nat \ {0}
    /\ MaxSeconds * Second - Interval <= Second
    /\ Interval + MaxSeconds * Second <= Timer
<1>1. /\ Timer \in Nat /\ Interval \in Nat \ {0}
      /\ Second \in Nat \ {0} /\ MaxSeconds \in Nat \ {0}
  BY ClockAssumption
<1>2. MaxSeconds * Second \in Nat \ {0}
  BY <1>1
<1> QED BY <1>1, <1>2, WindowAssumption DEF Tmst

(***************************************************************************)
(* Whatever the clock showed at the uplink, the bridge finds the delay the  *)
(* server meant, also when the counter overflowed in between.  No delay at  *)
(* all comes out as a whole turn (and is refused).                          *)
(***************************************************************************)
THEOREM DelayAcrossOverflow ==
    ASSUME NEW u \in Tmst, NEW delay \in Tmst
    PROVE  RealTmst(u, AnswerTmst(u, delay)) = IF delay = 0 THEN Timer ELSE delay
<1>1. AnswerTmst(u, delay) = IF u + delay < Timer THEN u + delay ELSE u + delay - Timer
  BY Wrap DEF AnswerTmst
<1> QED BY <1>1, ClockNumbers DEF Tmst, RealTmst

(***************************************************************************)
(* An answer to an earlier uplink is never taken for one to the uplink at   *)
(* v: if the clock made at least one step between them and has not gone     *)
(* round, the delay computed from v is out of bounds.  This is why the      *)
(* clock advances by the length of a window.                                *)
(***************************************************************************)
THEOREM OtherWindowRefused ==
    ASSUME NEW u \in Tmst, NEW v \in Tmst, NEW delay \in Nat,
           delay < MaxSeconds * Second,
           Interval <= Ahead(u, v), Ahead(u, v) <= Timer - MaxSeconds * Second
    PROVE  ~InBounds(Seconds(RealTmst(v, AnswerTmst(u, delay))))
<1> DEFINE r == RealTmst(v, AnswerTmst(u, delay))
           g == Ahead(u, v)
<1>1. delay \in Tmst
  BY ClockNumbers DEF Tmst
<1>2. AnswerTmst(u, delay) = IF u + delay < Timer THEN u + delay ELSE u + delay - Timer
  BY <1>1, Wrap DEF AnswerTmst
<1>3. g \in Nat /\ r \in Nat /\ r = IF delay > g THEN delay - g ELSE (Timer - g) + delay
  BY <1>1, <1>2, ClockNumbers DEF Tmst, RealTmst, Ahead
<1> HIDE DEF r, g
<1>4. CASE delay > g
  <2>1. r < Second
    BY <1>3, <1>4, ClockNumbers DEF g, Tmst
  <2> QED BY <1>3, <2>1, SecondsBounds DEF InBounds, r
<1>5. CASE ~(delay > g)
  <2>1. r >= MaxSeconds * Second
    BY <1>3, <1>5, ClockNumbers DEF g, Tmst
  <2>2. Seconds(r) \in Nat /\ Seconds(r) >= MaxSeconds
    BY <1>3, <2>1, SecondsBounds
  <2> QED BY <2>2, ClockAssumption DEF InBounds, r
<1> QED BY <1>4, <1>5

\* A step of the clock takes it further from every timestamp it gave out.
LEMMA AheadGrows ==
    ASSUME NEW u \in Tmst, NEW clock \in Tmst, Ahead(u, clock) + Interval < Timer
    PROVE  /\ NextTmst(clock) \in Tmst
           /\ Ahead(u, NextTmst(clock)) = Ahead(u, clock) + Interval
<1>1. NextTmst(clock) = IF clock + Interval < Timer
                        THEN clock + Interval ELSE clock + Interval - Timer
  BY Wrap, ClockNumbers DEF NextTmst
<1> QED BY <1>1, ClockNumbers DEF Tmst, Ahead
=============================================================================
