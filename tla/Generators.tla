----------------------------- MODULE Generators -----------------------------
(***************************************************************************)
(* What a worker thread (disktest-lib/src/stream.rs:55-138) computes: the  *)
(* key of its stream (kdf.rs), the generator (generator/crc.rs and         *)
(* generator/chacha.rs) that is sought to a byte offset, and one chunk     *)
(* after the other.  The hash of the key and the stream cipher are         *)
(* parameters.  The CRC is computed as in the code, with small bytes:      *)
(* ByteBits for 8, CrcBytes for the 8 bytes of a u64, TidBytes for the 4   *)
(* of a u32, WordBytes for the 4 of a word of the cipher.                  *)
(***************************************************************************)
EXTENDS Integers, Sequences, Numbers

CONSTANTS ByteBits, CrcBytes, TidBytes, WordBytes,
          Poly,             \* CRC64_ECMA_POLY
          BaseWords,        \* words in a base block of the cipher
          Derive(_),        \* PBKDF2 of a key
          KeyStream(_, _),  \* word number w of the cipher with a key
          CipherKey,        \* bytes in a key of the cipher
          Types,            \* algorithms: "Crc", "ChaCha"
          Seeds,            \* seeds of the user
          Threads, Rounds,  \* numbers of threads and rounds
          Offsets,          \* byte offsets a stream is started at
          ChunkFactors,     \* base blocks in a chunk
          MaxCounter,       \* bound: base blocks of a stream
          MaxStarts         \* bound: starts of a stream

VARIABLES
  stype, seed, thread, round, invert, factor,  \* arguments of the worker
  active,   \* the generator has been sought and goes on
  folded,   \* folded_seed, the key of the generator
  counter,  \* counter of the CRC, word position of the cipher
  chunk,    \* the chunk computed last
  at,       \* history: byte offset in the stream of what comes next
  starts    \* starts so far

args == <<stype, seed, thread, round, invert, factor>>
vars == <<args, active, folded, counter, chunk, at, starts>>

Base    == Pow(2, ByteBits)
Bytes   == 0 .. Base - 1
CrcBits == ByteBits * CrcBytes
AllOnes == Pow(2, CrcBits) - 1

a ^^ b == Xor(CrcBits, a, b)

\* to_le_bytes() of a number with k bytes.
LeBytes(n, k) == [i \in 1 .. k |-> (n \div Pow(Base, i - 1)) % Base]

-----------------------------------------------------------------------------
(* The key of a stream *)

\* Mutant: the round is left out.
Key_NoRound(s, t, r) == s \o LeBytes(t, TidBytes)

\* "R" is a byte.
R == Base - 1

\* The first round has no mark.
Key(s, t, r) ==
  s \o LeBytes(t, TidBytes)
    \o (IF r > 0 THEN <<R>> \o LeBytes(r, CrcBytes) ELSE << >>)

\* The polynomial has its highest bit.
ASSUME GeneratorsAssumption ==
  /\ {ByteBits, CrcBytes, TidBytes, WordBytes, BaseWords, CipherKey} \subseteq Nat \ {0}
  /\ Types \subseteq {"Crc", "ChaCha"}
  /\ Threads \subseteq 0 .. Pow(Base, TidBytes) - 1
  /\ Rounds \subseteq 0 .. AllOnes
  /\ Poly \in Pow(2, CrcBits - 1) .. AllOnes
  /\ Seeds \subseteq Seq(Bytes)
  /\ \A s \in Seeds, t \in Threads, r \in Rounds : Derive(Key(s, t, r)) \in Seq(Bytes)
  /\ Offsets \subseteq Nat /\ ChunkFactors \subseteq Nat \ {0}
  /\ MaxCounter \in 0 .. AllOnes + 1

\* Byte i of the input is xored into byte i % size.
Fold(input, size) ==
  [j \in 1 .. size |->
     LET acc[i \in 0 .. Len(input)] ==
           IF i = 0 THEN 0
           ELSE IF i % size = j % size THEN acc[i - 1] ^^ input[i] ELSE acc[i - 1]
     IN  acc[Len(input)]]

-----------------------------------------------------------------------------
(* The CRC *)

BitStep(d) == IF d % 2 = 0 THEN d \div 2 ELSE (d \div 2) ^^ Poly

BitSteps(d, n) ==
  LET step[k \in Nat] == IF k = 0 THEN d ELSE BitStep(step[k - 1]) IN step[n]

Crc64Lut == [i \in Bytes |-> BitSteps(i, ByteBits)]

ByteStep(c, d) == Crc64Lut[(c % Base) ^^ d] ^^ (c \div Base)

Crc64(crc, data) ==
  LET c[i \in 0 .. Len(data)] ==
        IF i = 0 THEN crc ELSE ByteStep(c[i - 1], data[i])
  IN  c[Len(data)]

\* Mutant: the counter of the CRC is a byte.
CounterBytes_Low(c) == LeBytes(c % Base, CrcBytes)

CounterBytes(c) == LeBytes(c, CrcBytes)

\* Block c of the CRC: the state after each step, inverted.
CrcBlock(k, c) ==
  LET state[i \in 0 .. Base] ==
        IF i = 0 THEN Crc64(Crc64(AllOnes, k), CounterBytes(c))
        ELSE Crc64(state[i - 1], LeBytes(i - 1, 1))
  IN  [i \in 1 .. Base |-> AllOnes - state[i]]

-----------------------------------------------------------------------------
(* Both generators *)

WordSize == IF stype = "Crc" THEN CrcBytes ELSE WordBytes
BaseSize == IF stype = "Crc" THEN CrcBytes * Base ELSE WordBytes * BaseWords
MaxWord  == IF stype = "Crc" THEN AllOnes ELSE Pow(Base, WordBytes) - 1

\* The key of a new generator.
NewKey == Fold(Derive(Key(seed, thread, round)),
               IF stype = "Crc" THEN CrcBytes ELSE CipherKey)

\* seek() goes to whole base blocks.
Seekable(off) == off % BaseSize = 0 /\ off % WordSize = 0

\* Mutant: the counter of the CRC counts words, too.
SeekCounter_Words(off) == off \div WordSize

SeekCounter(off) ==
  IF stype = "Crc" THEN off \div BaseSize ELSE off \div WordSize

\* The counter after next() for factor base blocks.
CounterAfter ==
  counter + (IF stype = "Crc" THEN factor ELSE factor * BaseWords)

\* What next() puts into the buffer.
Output ==
  IF stype = "Crc"
  THEN LET block == [b \in 0 .. factor - 1 |-> CrcBlock(folded, counter + b)]
       IN  [i \in 1 .. factor * Base |-> block[(i - 1) \div Base][((i - 1) % Base) + 1]]
  ELSE [i \in 1 .. factor * BaseWords |-> KeyStream(folded, counter + i - 1)]

-----------------------------------------------------------------------------
(* The worker *)

Init ==
  /\ stype \in Types /\ seed \in Seeds
  /\ thread \in Threads /\ round \in Rounds
  /\ invert \in BOOLEAN /\ factor \in ChunkFactors
  /\ active = FALSE
  /\ folded = << >> /\ counter = 0 /\ chunk = << >> /\ at = 0 /\ starts = 0

\* The generator is constructed and sought; if that fails, the worker ends.
Start(off) ==
  /\ ~active /\ starts < MaxStarts
  /\ starts' = starts + 1
  /\ folded' = NewKey
  /\ at' = off /\ chunk' = << >>
  /\ active' = Seekable(off)
  /\ counter' = IF Seekable(off) THEN SeekCounter(off) ELSE 0
  /\ UNCHANGED args

Produce ==
  /\ active /\ at + factor * BaseSize <= MaxCounter * BaseSize
  /\ chunk' = IF invert THEN [i \in DOMAIN Output |-> MaxWord - Output[i]]
              ELSE Output
  /\ counter' = CounterAfter
  /\ at' = at + factor * BaseSize
  /\ UNCHANGED <<args, active, folded, starts>>

Stop ==
  /\ active
  /\ active' = FALSE
  /\ UNCHANGED <<args, folded, counter, chunk, at, starts>>

Next ==
  \/ \E off \in Offsets : Start(off)
  \/ Produce
  \/ Stop

Spec == Init /\ [][Next]_vars

-----------------------------------------------------------------------------
(* Properties *)

\* Bit i of a sequence of bytes, the lowest bit of each first.
BitOf(data, i) == (data[(i \div ByteBits) + 1] \div Pow(2, i % ByteBits)) % 2

\* The remainder of the division by the polynomial, bit after bit.
DivisionStep(r, bit) == IF r % 2 = bit THEN r \div 2 ELSE (r \div 2) ^^ Poly

BitwiseCrc(data) ==
  LET reg[n \in 0 .. ByteBits * Len(data)] ==
        IF n = 0 THEN AllOnes ELSE DivisionStep(reg[n - 1], BitOf(data, n - 1))
  IN  AllOnes - reg[ByteBits * Len(data)]

\* The word at byte p of a stream, said without a generator.
WordAt(p) ==
  IF stype = "Crc"
  THEN LET w == (p % BaseSize) \div WordSize
       IN  BitwiseCrc(folded \o LeBytes(p \div BaseSize, CrcBytes)
                             \o [i \in 1 .. w + 1 |-> i - 1])
  ELSE KeyStream(folded, p \div WordSize)

\* The pattern depends on the position alone: wherever a stream was started
\* and however many blocks each next() computes, the chunk that ends at byte at
\* holds the words of these positions.  The table of the CRC is the division by
\* the polynomial.
ChunkIsPattern ==
  \A i \in DOMAIN chunk :
    LET w == WordAt(at - (Len(chunk) - i + 1) * WordSize)
    IN  chunk[i] = IF invert THEN MaxWord - w ELSE w

\* Two blocks of the CRC of one stream differ in each of their words: a block
\* that a fake disk has stored at another position is found, though the CRC is
\* no cipher (generator/crc.rs:89-93).
BlocksDiffer ==
  stype = "Crc" /\ folded # << >> =>
    LET blocks == [c \in 0 .. MaxCounter - 1 |-> CrcBlock(folded, c)]
    IN  \A c, d \in DOMAIN blocks :
          c # d => \A i \in 1 .. Base : blocks[c][i] # blocks[d][i]

\* No two streams of one seed have a key in common: neither two threads nor two
\* rounds, the unmarked first round included (kdf.rs:29-38).
KeysDiffer ==
  \A t \in Threads, r \in Rounds :
    Key(seed, t, r) = Key(seed, thread, round) => t = thread /\ r = round

=============================================================================
