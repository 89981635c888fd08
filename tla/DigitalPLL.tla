------------------------------ MODULE DigitalPLL ------------------------------
(***************************************************************************)
(* The clock recovery of comm/digital_pll.h: a local oscillator, which is  *)
(* a signed counter of CounterBits bits (32 in the code) that overflows    *)
(* once per bit, and whose value is drawn towards zero at every transition *)
(* of the signal.  The counter is zero at the edge of a bit, so it         *)
(* overflows in the middle of one: that is when the bit is sampled.        *)
(***************************************************************************)
EXTENDS Integers

CONSTANT CounterBits

ASSUME CounterBitsAssumption == CounterBits \in Nat \ {0}

Half == 2 ^ (CounterBits - 1)

(* A value of the counter after two's complement wrap-around. *)
Wrapped(x) == ((x + Half) % (2 * Half)) - Half

TicksPerLOPeriod == 2 * Half - 1

(* RoundToInt of the ticks that one sample of the signal stands for: there *)
(* are rate samples in the time of baud bits.                              *)
AdvancePerSample(baud, rate) ==
    (2 * TicksPerLOPeriod * baud + rate) \div (2 * rate)

PLLReset == [counter |-> 0, previous |-> 0]

(* The multiplication by the inertia, in percent, and the conversion back  *)
(* to an integer, which rounds towards zero.                               *)
Drawn(counter, inertia) ==
    IF counter >= 0 THEN (counter * inertia) \div 100
                    ELSE -((-counter * inertia) \div 100)

(* The counter after one more sample of the signal. *)
PLLAfter(pll, advance, inertia, signal) ==
    LET advanced == Wrapped(pll.counter + advance)
    IN  [counter  |-> IF signal = pll.previous THEN advanced
                                               ELSE Drawn(advanced, inertia),
         previous |-> signal]

(* The result of that call: the bit is to be sampled now. *)
PLLSamples(pll, advance) == Wrapped(pll.counter + advance) < pll.counter
===============================================================================
