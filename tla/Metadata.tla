------------------------------- MODULE Metadata -------------------------------
(***************************************************************************)
(* The metadata that a cache puts before the value of a record             *)
(* (inc/L4/HashTable/Cache/Metadata.h): the time of the record and, in the *)
(* most significant bit, whether somebody has read it since the hand of    *)
(* the clock went by.  The word has no alignment, so it is bytes here, the *)
(* low one first; a byte is the pair of what it is for and a number.       *)
(***************************************************************************)
EXTENDS Integers, Sequences, Functions

CONSTANT
    Base \* of a byte: 256 in the code

ASSUME BaseAssumption == Base \in Nat \ {0} /\ Base % 2 = 0

\* How many numbers n bytes can tell apart.
Power[n \in Nat] == IF n = 0 THEN 1 ELSE Base * Power[n - 1]

\* A number as bytes, and bytes as a number.
Bytes(what, number, width) ==
    [i \in 1 .. width |-> <<what, (number \div Power[i - 1]) % Base>>]

Number(bytes) == SumFunction([i \in DOMAIN bytes |-> bytes[i][2] * Power[i - 1]])

\* s_accessSetMask, and s_epochTimeMask + 1.
AccessBit == Base \div 2
TimeRange(width) == Power[width] \div 2

NewMetadata(time, width) == Bytes("metadata", time % TimeRange(width), width)

GetEpochTime(metadata) == Number(metadata) % TimeRange(Len(metadata))

IsExpired(metadata, now, timeToLive) == now - GetEpochTime(metadata) > timeToLive

\* Which byte has the bit, from the start of the metadata: s_accessBitByte.
\* Mistake: the byte that has it where the high byte comes first.
AccessByte_BigEndian(width) == 1

AccessByte(width) == width

IsAccessed(byte) == byte[2] >= AccessBit

\* What UpdateAccessStatus() makes of the byte it has loaded.
WithAccess(byte, set) ==
    [byte EXCEPT ![2] = (@ % AccessBit) + IF set THEN AccessBit ELSE 0]

===============================================================================
