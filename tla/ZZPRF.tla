-------------------------------- MODULE ZZPRF --------------------------------
(***************************************************************************)
(* A pseudorandom function (ZZPRF, and ZZpPRF, which owns one): a chain of    *)
(* hashes of seed and index, cut to a number of bits.  Both buffers of the    *)
(* object, and the digest of its hash algorithm, outlive a call and are only  *)
(* replaced when a longer one is needed: a call must not see what an earlier  *)
(* call left there.                                                        *)
(***************************************************************************)
EXTENDS Naturals, Sequences, Sums

CONSTANTS
  ByteBits,     \* the bits of a byte
  IntBits,      \* the width of an int, to which a shifted byte is promoted
  IndexBytes,   \* sizeof(size_t)
  HashSize,     \* hashSize(), the bytes of a digest
  Hash(_),      \* the digest of a sequence of bytes, a sequence
  Field,        \* the modulus of ZZ_p
  Moduli,       \* the numbers setModulo() is given
  Seeds, Indices, BitLengths,   \* the arguments of generate()
  RandomSeeds,  \* the numbers randomSeed() may draw
  RandomSizes,  \* the numbers rand() may give for a length that is not asked for
  MaxAutoIndex, \* bound of autoIndex
  Garbage,      \* a byte of memory nobody has written
  NoModulo      \* this object is a plain ZZPRF

Byte == 0..(2^ByteBits - 1)

ASSUME WidthAssumption ==
  /\ ByteBits \in Nat \ {0} /\ 2^ByteBits \in Nat \ {0}
  /\ IntBits \in Nat /\ ByteBits <= IntBits
  /\ IndexBytes \in Nat \ {0} /\ HashSize \in Nat \ {0}
  /\ Garbage \notin Byte /\ Field \in Nat \ {0}
ASSUME ArgumentAssumption ==
  /\ Seeds \subseteq Nat /\ Indices \subseteq Nat /\ BitLengths \subseteq Nat
  /\ RandomSeeds \subseteq Nat /\ RandomSizes \subseteq Nat \ {0}
  /\ Moduli \subseteq Nat /\ NoModulo \notin Nat /\ MaxAutoIndex \in Nat

VARIABLES
  gen,            \* gen[k], k < genLength: the generated bytes
  genLength,
  hashInput,      \* hashInput[k], k < hashInputSize
  hashInputSize,
  lastHash,       \* the buffer of the hash algorithm
  modulo,         \* of a ZZpPRF
  autoSeed,       \* the seed drawn for calls without one, <<>> before
  autoIndex,
  pc, n, r, len, digerible,   \* of the call that runs
  call,           \* its arguments; without a seed, with the seed that is promised
  result,         \* what the last call returned, <<>> before
  firstSeed       \* (history) the first seed drawn

buffers == <<gen, genLength, hashInput, hashInputSize, lastHash>>
auto == <<autoSeed, autoIndex, firstSeed>>
vars == <<gen, genLength, hashInput, hashInputSize, lastHash, modulo, autoSeed,
          autoIndex, pc, n, r, len, digerible, call, result, firstSeed>>

Cell == Byte \cup {Garbage}
Fresh(size) == [k \in 0..(size - 1) |-> Garbage]
Larger(a, b) == IF a < b THEN b ELSE a
Smaller(a, b) == IF a < b THEN a ELSE b
-----------------------------------------------------------------------------

(* NTL::NumBits, NTL::bytes and BytesFromZZ: the lowest byte comes first.     *)

NumBits(z) == IF z = 0 THEN 0 ELSE CHOOSE k \in 1..z : 2^(k - 1) <= z /\ z < 2^k
Bytes(bits) == (bits + ByteBits - 1) \div ByteBits
BytesOf(z) == Bytes(NumBits(z))
ByteAt(z, k) == (z \div 2^(ByteBits * k)) % 2^ByteBits

\* Variant of InputByte: the index is stored as one byte.
InputByteShort(seed, index, k) ==
  IF k < BytesOf(seed) THEN ByteAt(seed, k) ELSE ByteAt(index, 0)

\* What is hashed first: the seed, then the index.
InputByte(seed, index, k) ==
  IF k < BytesOf(seed) THEN ByteAt(seed, k) ELSE ByteAt(index, k - BytesOf(seed))

InputLength(seed) == BytesOf(seed) + IndexBytes

\* The seeds that occur, those of a ZZpPRF in the field.
AllSeeds == Seeds \cup RandomSeeds \cup {z % Field : z \in Seeds \cup RandomSeeds}

\* What is taken of the hash, for the lengths that are digested.
ASSUME HashAssumption ==
  \A k \in {InputLength(seed) : seed \in AllSeeds} \cup {HashSize} :
    \A s \in [1..k -> Byte] : Hash(s) \in [1..HashSize -> Byte]

\* What is taken of NTL, for the numbers that occur.
ASSUME NumberAssumption ==
  /\ \A z \in AllSeeds \cup Moduli : NumBits(z) \in Nat /\ z < 2^NumBits(z)
  /\ \A index \in Indices \cup 0..MaxAutoIndex : index < 2^(ByteBits * IndexBytes)
  /\ \A seed \in AllSeeds, index \in Indices \cup 0..MaxAutoIndex :
       \A k \in 0..(InputLength(seed) - 1) : InputByte(seed, index, k) \in Byte

\* The bits of the numbers that occur, in whole bytes.
Widths ==
  {ByteBits * Bytes(bits) : bits \in BitLengths \cup {NumBits(z) : z \in AllSeeds \cup Moduli}}
  \cup {ByteBits * IndexBytes}

\* What the provers are not told of powers.
ASSUME PowerAssumption ==
  \A width \in Widths :
    \A k \in 0..width : 2^k \in Nat \ {0} /\ 2^(k + 1) = 2 * 2^k

\* The bits generate() of a ZZpPRF asks its ZZPRF for.
GenBits(bits) ==
  IF modulo = NoModulo THEN bits
  ELSE IF NumBits(modulo) < bits \/ bits = 0 THEN NumBits(modulo) ELSE bits

\* The bytes generated.  Without a length their number is a random one.
Lengths(bits) ==
  IF bits = 0 THEN {Bytes(rnd) : rnd \in RandomSizes} ELSE {Bytes(bits)}
-----------------------------------------------------------------------------

\* A buffer that is too short is replaced, and what it held is lost.
Grown(buffer, size, wanted) == IF wanted > size THEN Fresh(wanted) ELSE buffer

\* Variant of InputSize: long enough for a digest.
InputSizeDigest(wanted) == HashSize

\* The size of a new input buffer.
InputSize(wanted) == Larger(wanted, HashSize)

\* generate(seed, index, bits) up to the loop
Begin(seed, index, bits) ==
  LET wanted == InputLength(seed)
      inSize == IF wanted > hashInputSize THEN InputSize(wanted)
                                          ELSE hashInputSize
      input == Grown(hashInput, hashInputSize, inSize)
  IN  /\ pc = "idle"
      /\ n' \in Lengths(GenBits(bits))
      /\ gen' = Grown(gen, genLength, n')
      /\ genLength' = Larger(genLength, n')
      /\ hashInputSize' = inSize
      /\ hashInput' = [k \in DOMAIN input |->
                         IF k < wanted THEN InputByte(seed, index, k) ELSE input[k]]
      /\ r' = n' /\ len' = wanted /\ digerible' = "hashInput"
      /\ pc' = "hash"
      /\ UNCHANGED <<lastHash, modulo, result>>

\* What was asked of generate(); of a ZZpPRF, what it asks its ZZPRF.
Asked(seed, index, bits) == [seed |-> seed, index |-> index, bits |-> GenBits(bits)]

Generate(seed, index, bits) ==
  /\ Begin(seed, index, bits)
  /\ call' = Asked(seed, index, bits)
  /\ UNCHANGED auto

ToSeed(z) == IF modulo = NoModulo THEN z ELSE z % Field

\* The seed of a call without one is drawn once.
AutoSeeds ==
  IF autoSeed = <<>> THEN {ToSeed(z) : z \in RandomSeeds} ELSE {autoSeed[1]}

\* PseudoRandom::generate(index, bits)
WithAutoSeed(index, bits) ==
  \E seed \in AutoSeeds :
    /\ autoSeed' = <<seed>>
    /\ firstSeed' = IF firstSeed = <<>> THEN <<seed>> ELSE firstSeed
    /\ call' = Asked(firstSeed'[1], index, bits)
    /\ Begin(seed, index, bits)

GenerateIndex(index, bits) ==
  /\ WithAutoSeed(index, bits)
  /\ UNCHANGED autoIndex

\* PseudoRandom::generate()
GenerateAny ==
  /\ autoIndex < MaxAutoIndex
  /\ WithAutoSeed(autoIndex, 0)
  /\ autoIndex' = autoIndex + 1

SetModulo(m) ==
  /\ pc = "idle" /\ modulo # NoModulo
  /\ modulo' = m
  /\ UNCHANGED <<buffers, auto, pc, n, r, len, digerible, call, result>>
-----------------------------------------------------------------------------

Digested ==
  IF digerible = "hashInput" THEN [k \in 1..len |-> hashInput[k - 1]]
                             ELSE [k \in 1..len |-> lastHash[k]]

\* One turn of the loop: a digest goes to gen, and is what is digested next.
HashRound ==
  LET digest == Hash(Digested)
      k == Smaller(r, HashSize)
  IN  /\ pc = "hash"
      /\ lastHash' = digest
      /\ gen' = [i \in DOMAIN gen |-> IF i \in (n - r)..(n - r + k - 1)
                                      THEN digest[i - (n - r) + 1] ELSE gen[i]]
      /\ r' = r - k
      /\ digerible' = "lastHash" /\ len' = HashSize
      /\ pc' = IF r' > 0 THEN "hash" ELSE "cut"
      /\ UNCHANGED <<genLength, hashInput, hashInputSize, modulo, auto, n, call, result>>

\* Variant of Shifted: shifted both ways as an int, which cuts nothing.
ShiftedInt(byte, by) == (byte * 2^by) \div 2^by

\* A byte is shifted left and stored, then right and stored.
Shifted(byte, by) == ((byte * 2^by) % 2^ByteBits) \div 2^by

\* A shift by the width of an int or more is undefined; the processor takes the
\* remainder, a compiler may take nothing to be left.
CutBytes(byte, by) ==
  IF by < IntBits THEN {Shifted(byte, by)} ELSE {Shifted(byte, by % IntBits), 0}

\* ZZFromBytes
Number(bytes, size) ==
  SumTo([k \in 1..size |-> bytes[k - 1] * 2^(ByteBits * (k - 1))], size)

\* What follows the loop.
Cut ==
  /\ pc = "cut"
  /\ \E byte \in CutBytes(gen[n - 1], n * ByteBits - call.bits) :
       gen' = [gen EXCEPT ![n - 1] = byte]
  /\ result' = <<IF modulo = NoModulo THEN Number(gen', n)
                                      ELSE Number(gen', n) % Field>>
  /\ pc' = "idle"
  /\ UNCHANGED <<genLength, hashInput, hashInputSize, lastHash, modulo, auto,
                 n, r, len, digerible, call>>

Init ==
  /\ gen = Fresh(0) /\ genLength = 0
  /\ hashInput = Fresh(0) /\ hashInputSize = 0
  /\ lastHash = [k \in 1..HashSize |-> Garbage]
  /\ modulo \in Moduli \cup {NoModulo}
  /\ autoSeed = <<>> /\ autoIndex = 0 /\ firstSeed = <<>>
  /\ pc = "idle" /\ n = 0 /\ r = 0 /\ len = 0 /\ digerible = "hashInput"
  /\ call = <<>> /\ result = <<>>

Next ==
  \/ \E seed \in Seeds, index \in Indices, bits \in BitLengths :
       Generate(ToSeed(seed), index, bits)
  \/ \E index \in Indices, bits \in BitLengths : GenerateIndex(index, bits)
  \/ GenerateAny
  \/ \E m \in Moduli : SetModulo(m)
  \/ HashRound \/ Cut

Spec == Init /\ [][Next]_vars
-----------------------------------------------------------------------------

\* Every byte that is hashed, copied or read lies inside its buffer and was
\* written by the call that runs: the buffers kept from earlier calls are long
\* enough whatever was asked before, and neither new memory nor the bytes of
\* an earlier call show.
BuffersSuffice ==
  /\ pc \in {"hash", "cut"} => n <= genLength
  /\ pc = "hash" => /\ len <= (IF digerible = "hashInput" THEN hashInputSize ELSE HashSize)
                    /\ \A k \in 1..len : Digested[k] \in Byte
                    /\ \A k \in 0..(n - r - 1) : gen[k] \in Byte
  /\ pc = "cut" => \A k \in 0..(n - 1) : gen[k] \in Byte

\* The chain of digests, without any buffer.
DigestAt(seed, index, k) ==
  LET Digest[i \in Nat] ==
        IF i = 0
        THEN Hash([b \in 1..InputLength(seed) |-> InputByte(seed, index, b - 1)])
        ELSE Hash(Digest[i - 1])
  IN  Digest[k]

\* The bytes of a pseudorandom number.
Stream(seed, index, size) ==
  [k \in 0..(size - 1) |-> DigestAt(seed, index, k \div HashSize)[(k % HashSize) + 1]]

\* What a call returns depends on its seed, its index and its number of bits
\* only, on none of the calls before it, and has at most that many bits; a call
\* without a seed has the seed the first such call drew.
ResultIsFunction ==
  (pc = "idle" /\ call # <<>> /\ call.bits > 0) =>
    LET z == Number(Stream(call.seed, call.index, n), n) % 2^call.bits
    IN  result[1] = (IF modulo = NoModulo THEN z ELSE z % Field)

\* The numbers of different seeds and indices come from different inputs of
\* the hash, though a seed has no fixed length and nothing separates it from
\* the index.
InputsApart ==
  (pc = "hash" /\ digerible = "hashInput") =>
    \A seed \in Seeds, index \in Indices :
      [k \in 1..InputLength(seed) |-> InputByte(seed, index, k - 1)] = Digested =>
        seed = call.seed /\ index = call.index
-----------------------------------------------------------------------------

(* The inductive invariant behind BuffersSuffice (ZZPRFProofs).             *)

\* The stored lengths are those of the buffers, in every state of the object.
Lengthened ==
  /\ genLength \in Nat /\ DOMAIN gen = 0..(genLength - 1)
  /\ hashInputSize \in Nat /\ DOMAIN hashInput = 0..(hashInputSize - 1)

\* What is kept from earlier calls.
Kept ==
  /\ modulo \in Moduli \cup {NoModulo}
  /\ autoSeed = <<>> \/ autoSeed[1] \in AllSeeds
  /\ autoIndex \in 0..MaxAutoIndex

\* Where a call is: what it has generated, and what it digests next.
Underway ==
  /\ pc \in {"idle", "hash", "cut"}
  /\ pc # "idle" => n \in Nat /\ n <= genLength
  /\ pc = "hash" =>
       /\ r \in 0..n
       /\ \A k \in 0..(n - r - 1) : gen[k] \in Byte
       /\ \/ /\ digerible = "hashInput"
             /\ len <= hashInputSize
             /\ \E seed \in AllSeeds : len = InputLength(seed)
             /\ \A k \in 0..(len - 1) : hashInput[k] \in Byte
          \/ /\ digerible = "lastHash" /\ len = HashSize
             /\ lastHash \in [1..HashSize -> Byte]
  /\ pc = "cut" => \A k \in 0..(n - 1) : gen[k] \in Byte

PrfInv == Lengthened /\ Kept /\ Underway

-----------------------------------------------------------------------------

(* The inductive invariant behind ResultIsFunction and InputsApart.           *)

\* What the call that runs was asked.
Asking ==
  /\ autoSeed = firstSeed /\ (autoSeed = <<>> \/ autoSeed = <<autoSeed[1]>>)
  /\ pc # "idle" =>
       /\ call.seed \in AllSeeds /\ call.index \in Indices \cup 0..MaxAutoIndex
       /\ call.bits \in BitLengths \cup {0} \cup {NumBits(z) : z \in Moduli}
       /\ call.bits > 0 => n = Bytes(call.bits)

\* The digest that comes next, and the bytes of those before.
Chained ==
  /\ pc = "hash" =>
       /\ \E j \in 0..n :
            /\ n - r = j * HashSize
            /\ \/ /\ digerible = "hashInput" /\ j = 0
                  /\ len = InputLength(call.seed)
                  /\ \A k \in 0..(len - 1) :
                       hashInput[k] = InputByte(call.seed, call.index, k)
               \/ /\ digerible = "lastHash" /\ j > 0
                  /\ lastHash = DigestAt(call.seed, call.index, j - 1)
       /\ \A k \in 0..(n - r - 1) : gen[k] = Stream(call.seed, call.index, n)[k]
  /\ pc = "cut" =>
       \A k \in 0..(n - 1) : gen[k] = Stream(call.seed, call.index, n)[k]

FunctionInv == Asking /\ Chained /\ ResultIsFunction
=============================================================================
