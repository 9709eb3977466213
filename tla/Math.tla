--------------------------------- MODULE Math ---------------------------------
(***************************************************************************)
(* The arithmetic of L4 on unsigned integers (inc/L4/Utils/Math.h).  Where *)
(* the code works on bits, a word of 32 bits is the set of the positions   *)
(* of its ones.                                                            *)
(***************************************************************************)
EXTENDS Integers

Positions == 0 .. 31

\* A number below 2^31 as a word, and back.
Bits(n) == {i \in 0 .. 30 : (n \div 2 ^ i) % 2 = 1}
Value(word) ==
    LET sum[i \in 0 .. 32] ==
            IF i = 0 THEN 0 ELSE sum[i - 1] + IF i - 1 \in word THEN 2 ^ (i - 1) ELSE 0
    IN  sum[32]

\* --val and ++val, modulo 2^32: the ones or zeros at the lower end change.
Decrement(word) ==
    LET low == {i \in Positions : \A j \in 0 .. i - 1 : j \notin word}
    IN  (word \cup low) \ (word \cap low)
Increment(word) ==
    LET low == {i \in Positions : \A j \in 0 .. i - 1 : j \in word}
    IN  (word \cup low) \ (word \cap low)

ShiftRight(word, n) == {i - n : i \in {j \in word : j >= n}}
OrShifted(word, n) == word \cup ShiftRight(word, n)

NextHighestPowerOfTwo(val) ==
    Value(Increment(OrShifted(OrShifted(OrShifted(OrShifted(OrShifted(
        Decrement(Bits(val)), 1), 2), 4), 8), 16)))

IsPowerOfTwo(number) == number # 0 /\ Bits(number) \cap Bits(number - 1) = {}

RoundUp(number, base) ==
    IF base # 0 THEN ((number + base - 1) \div base) * base ELSE number
RoundDown(number, base) == IF base # 0 THEN (number \div base) * base ELSE number
===============================================================================
