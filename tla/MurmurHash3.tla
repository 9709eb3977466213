------------------------------ MODULE MurmurHash3 -----------------------------
(***************************************************************************)
(* The hashes of src/MurmurHash3.cpp, and what a table makes of the one    *)
(* that it uses (MurmurHash3_x64_128): the bucket and the tag of a key.    *)
(*                                                                         *)
(* A word of 32 or 64 bits is a sequence of 4 or 8 bytes, the least        *)
(* significant one first, as the supported processors keep it in memory;   *)
(* TLC's own numbers have 32 bits.  Arithmetic on words is modulo 2^32 or  *)
(* 2^64.                                                                   *)
(***************************************************************************)
EXTENDS Integers, Sequences, SequencesExt, Bitwise

Bytes == 0 .. 255
Word(size, f(_)) ==
    IF size = 4 THEN <<f(1), f(2), f(3), f(4)>>
    ELSE <<f(1), f(2), f(3), f(4), f(5), f(6), f(7), f(8)>>

\* A number below 2^31 as a word, and a constant given by its bytes as the
\* source writes it: the most significant one first.
Small(size, n) == Word(size, LAMBDA i : IF i > 4 THEN 0 ELSE (n \div 256 ^ (i - 1)) % 256)
Big(bytes) == Reverse(bytes)

XorWords(a, b) == Word(Len(a), LAMBDA i : a[i] ^^ b[i])

\* The bytes of the sum of columns[i] * 256^(i - 1), which a carry runs through.
Carried(columns) ==
    LET step(acc, column) == [bytes |-> Append(acc.bytes, (acc.carry + column) % 256),
                              carry |-> (acc.carry + column) \div 256]
    IN  FoldLeft(step, [bytes |-> <<>>, carry |-> 0], columns).bytes

Plus(a, b) == Carried(Word(Len(a), LAMBDA i : a[i] + b[i]))
Times(a, b) ==
    Carried(Word(Len(a), LAMBDA k : FoldLeft(+, 0, [i \in 1 .. k |-> a[i] * b[k + 1 - i]])))

\* Shifts to the left and the right, by less than the word has bits.
ShiftLeft(x, r) ==
    LET at(i) == IF i \in DOMAIN x THEN x[i] ELSE 0
        q == r \div 8
        s == r % 8
    IN  Word(Len(x), LAMBDA i : ((at(i - q) * 2 ^ s) % 256) + (at(i - q - 1) \div 2 ^ (8 - s)))
ShiftRight(x, r) ==
    LET at(i) == IF i \in DOMAIN x THEN x[i] ELSE 0
        q == r \div 8
        s == r % 8
    IN  Word(Len(x), LAMBDA i : (at(i + q) \div 2 ^ s) + ((at(i + q + 1) * 2 ^ (8 - s)) % 256))

\* ROTL32 and ROTL64: the two shifts have no bit in common.
RotateLeft(x, r) == XorWords(ShiftLeft(x, r), ShiftRight(x, 8 * Len(x) - r))

-------------------------------------------------------------------------------
(* What the three functions share.                                           *)

\* h ^= h >> r
XorShifted(h, r) == XorWords(h, ShiftRight(h, r))

\* Finalization mix.
Fmix32(h) ==
    LET a == Big(<<133, 235, 202, 107>>)                       \* 0x85ebca6b
        b == Big(<<194, 178, 174, 53>>)                        \* 0xc2b2ae35
    IN  XorShifted(Times(XorShifted(Times(XorShifted(h, 16), a), 13), b), 16)
Fmix64(k) ==
    LET a == Big(<<255, 81, 175, 215, 237, 85, 140, 205>>)     \* 0xff51afd7ed558ccd
        b == Big(<<196, 206, 185, 254, 26, 133, 236, 83>>)     \* 0xc4ceb9fe1a85ec53
    IN  XorShifted(Times(XorShifted(Times(XorShifted(k, 33), a), 33), b), 33)
Fmix(h) == IF Len(h) = 4 THEN Fmix32(h) ELSE Fmix64(h)

\* What a word of the data adds to its part of the hash: nothing if it is zero.
Mix(k, a, r, b) == Times(RotateLeft(Times(k, a), r), b)

\* The end of each step of the body.
TimesFivePlus(h, n) == Plus(Times(h, Small(Len(h), 5)), n)

\* The word at a 0-based position of the data; behind the end there are zeros,
\* so that the tail of the data is mixed in as a whole word is.
WordAt(size, data, pos) ==
    Word(size, LAMBDA i : IF pos + i <= Len(data) THEN data[pos + i] ELSE 0)

\* The parts of the hash are added to the first one, and this to the others.
Gather(h) ==
    LET sum == FoldLeft(Plus, Head(h), Tail(h))
    IN  [i \in DOMAIN h |-> IF i = 1 THEN sum ELSE Plus(h[i], sum)]

Finalize(h, len) ==
    Gather([i \in DOMAIN h |->
               Fmix(Gather([j \in DOMAIN h |-> XorWords(h[j], Small(Len(h[j]), len))])[i])])

\* From the seed over the whole blocks, each of which step mixes in.
Body(step(_, _), start, data, blockSize) ==
    FoldLeft(step, start, [i \in 1 .. Len(data) \div blockSize |-> (i - 1) * blockSize])

TailAt(data, blockSize) == blockSize * (Len(data) \div blockSize)

-------------------------------------------------------------------------------
MurmurHash3_x86_32(data, seed) ==
    LET c1 == Big(<<204, 158, 45, 81>>)                                   \* 0xcc9e2d51
        c2 == Big(<<27, 135, 53, 147>>)                                   \* 0x1b873593
        mixed(h, pos) == XorWords(h, Mix(WordAt(4, data, pos), c1, 15, c2))
        step(h, pos) == TimesFivePlus(RotateLeft(mixed(h, pos), 13),
                                      Big(<<230, 84, 107, 100>>))         \* 0xe6546b64
        body == Body(step, Small(4, seed), data, 4)
    IN  Fmix(XorWords(mixed(body, TailAt(data, 4)), Small(4, Len(data))))

MurmurHash3_x86_128(data, seed) ==
    LET c == <<Big(<<35, 155, 150, 27>>),                                 \* 0x239b961b
               Big(<<171, 14, 151, 137>>),                                \* 0xab0e9789
               Big(<<56, 179, 74, 229>>),                                 \* 0x38b34ae5
               Big(<<161, 227, 139, 147>>)>>                              \* 0xa1e38b93
        added == <<Big(<<86, 28, 205, 27>>),                              \* 0x561ccd1b
                   Big(<<11, 202, 167, 71>>),                             \* 0x0bcaa747
                   Big(<<150, 205, 28, 53>>),                             \* 0x96cd1c35
                   Big(<<50, 172, 59, 23>>)>>                             \* 0x32ac3b17
        mixed(h, pos, i) ==
            XorWords(h[i], Mix(WordAt(4, data, pos + 4 * (i - 1)), c[i], 14 + i, c[(i % 4) + 1]))
        next(h, pos, i, following) ==
            TimesFivePlus(Plus(RotateLeft(mixed(h, pos, i), 21 - 2 * i), following), added[i])
        step(h, pos) ==
            LET h1 == next(h, pos, 1, h[2])
            IN  <<h1, next(h, pos, 2, h[3]), next(h, pos, 3, h[4]), next(h, pos, 4, h1)>>
        body == Body(step, Word(4, LAMBDA i : Small(4, seed)), data, 16)
    IN  Finalize(Word(4, LAMBDA i : mixed(body, TailAt(data, 16), i)), Len(data))

MurmurHash3_x64_128(data, seed) ==
    LET c == <<Big(<<135, 195, 123, 145, 17, 66, 83, 213>>),              \* 0x87c37b91114253d5
               Big(<<76, 245, 173, 67, 39, 69, 147, 127>>)>>              \* 0x4cf5ad432745937f
        added == <<Small(8, 1390208809),                                  \* 0x52dce729
                   Small(8, 944331445)>>                                  \* 0x38495ab5
        mixed(h, pos, i) ==
            XorWords(h[i], Mix(WordAt(8, data, pos + 8 * (i - 1)), c[i], 29 + 2 * i, c[3 - i]))
        next(h, pos, i, following) ==
            TimesFivePlus(Plus(RotateLeft(mixed(h, pos, i), 23 + 4 * i), following), added[i])
        step(h, pos) == LET h1 == next(h, pos, 1, h[2]) IN <<h1, next(h, pos, 2, h1)>>
        body == Body(step, <<Small(8, seed), Small(8, seed)>>, data, 16)
        tail(i) == mixed(body, TailAt(data, 16), i)
    IN  Finalize(<<tail(1), tail(2)>>, Len(data))

-------------------------------------------------------------------------------
(* GetBucketInfo() of a table with numBuckets buckets (at most 2^22).        *)

Remainder(word, n) == FoldRight(LAMBDA byte, rest : (rest * 256 + byte) % n, word, 0)

BucketIndex(key, numBuckets) == Remainder(MurmurHash3_x64_128(key, 0)[1], numBuckets)
TagOf(key) == MurmurHash3_x64_128(key, 0)[2][1]
===============================================================================
