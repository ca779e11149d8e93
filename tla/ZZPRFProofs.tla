---------------------------- MODULE ZZPRFProofs -----------------------------
(***************************************************************************)
(* A pseudorandom function, for every hash, every width and every sequence   *)
(* of calls: its buffers are long enough, and written by the call that reads *)
(* them; seed and index are hashed as an input of their own; and a result is *)
(* a function of seed, index and number of bits.                             *)
(***************************************************************************)
EXTENDS ZZPRF, Induction

-----------------------------------------------------------------------------
(* Lengths *)

\* A number of bits makes a number of bytes.
LEMMA BytesNat ==
  ASSUME NEW bits \in Nat
  PROVE  Bytes(bits) \in Nat
BY WidthAssumption DEF Bytes

\* Every seed makes an input of some length.
LEMMA InputLengthNat ==
  ASSUME NEW seed \in AllSeeds
  PROVE  InputLength(seed) \in Nat
<1>1. NumBits(seed) \in Nat
  BY NumberAssumption
<1>2. Bytes(NumBits(seed)) \in Nat
  BY <1>1, BytesNat
<1> QED BY <1>2, WidthAssumption DEF InputLength, BytesOf

\* Every call generates some number of bytes, with and without a length.
LEMMA LengthsNat ==
  ASSUME Kept, NEW bits \in Nat, NEW size \in Lengths(GenBits(bits))
  PROVE  size \in Nat
<1>1. GenBits(bits) \in Nat
  <2>1. modulo # NoModulo => NumBits(modulo) \in Nat
    BY NumberAssumption DEF Kept
  <2> QED BY <2>1 DEF GenBits
<1>2. \A z \in RandomSizes : Bytes(z) \in Nat
  BY ArgumentAssumption, BytesNat
<1>3. Bytes(GenBits(bits)) \in Nat
  BY <1>1, BytesNat
<1> HIDE DEF GenBits
<1> QED BY <1>2, <1>3 DEF Lengths

\* A buffer that has grown has the new length.
LEMMA GrownDomain ==
  ASSUME NEW buffer, NEW size \in Nat, DOMAIN buffer = 0..(size - 1), NEW wanted \in Nat
  PROVE  /\ DOMAIN Grown(buffer, size, wanted) = 0..(Larger(size, wanted) - 1)
         /\ Larger(size, wanted) \in Nat /\ wanted <= Larger(size, wanted)
BY DEF Grown, Fresh, Larger

-----------------------------------------------------------------------------
(* Steps *)

\* What precedes the loop, for any seed, index and length.
LEMMA BeginKeeps ==
  ASSUME PrfInv, NEW seed \in AllSeeds, NEW index \in Indices \cup 0..MaxAutoIndex,
         NEW bits \in Nat, Begin(seed, index, bits)
  PROVE  Lengthened' /\ Underway'
<1> DEFINE wanted == InputLength(seed)
           inSize == IF wanted > hashInputSize THEN InputSize(wanted) ELSE hashInputSize
           input == Grown(hashInput, hashInputSize, inSize)
<1>1. wanted \in Nat /\ genLength \in Nat /\ hashInputSize \in Nat /\ HashSize \in Nat
  BY InputLengthNat, WidthAssumption DEF PrfInv, Lengthened
<1>2. inSize \in Nat /\ wanted <= inSize /\ hashInputSize <= inSize
  BY <1>1 DEF InputSize, Larger
<1>3. DOMAIN input = 0..(inSize - 1)
  <2>1. Larger(hashInputSize, inSize) = inSize
    BY <1>1, <1>2 DEF Larger
  <2> HIDE DEF inSize
  <2> QED BY <1>1, <1>2, <2>1, GrownDomain DEF PrfInv, Lengthened
<1>4. n' \in Nat
  BY LengthsNat DEF Begin, PrfInv
<1>5. /\ gen' = Grown(gen, genLength, n') /\ genLength' = Larger(genLength, n')
      /\ hashInputSize' = inSize
      /\ hashInput' = [k \in DOMAIN input |->
                         IF k < wanted THEN InputByte(seed, index, k) ELSE input[k]]
      /\ r' = n' /\ len' = wanted /\ digerible' = "hashInput" /\ pc' = "hash"
  BY DEF Begin
<1>6. \A k \in 0..(wanted - 1) : InputByte(seed, index, k) \in Byte
  BY NumberAssumption
<1> HIDE DEF wanted, inSize, input
<1>7. DOMAIN gen' = 0..(genLength' - 1) /\ genLength' \in Nat /\ n' <= genLength'
  BY <1>1, <1>4, <1>5, GrownDomain DEF PrfInv, Lengthened
<1>8. DOMAIN hashInput' = 0..(inSize - 1)
  BY <1>3, <1>5
<1>9. \A k \in 0..(wanted - 1) : hashInput'[k] \in Byte
  BY <1>1, <1>2, <1>3, <1>5, <1>6
<1>10. len' = InputLength(seed)
  BY <1>5 DEF wanted
<1>11. Lengthened'
  BY <1>2, <1>5, <1>7, <1>8 DEF Lengthened
<1>12. Underway'
  <2>1. r' \in 0..n' /\ \A k \in 0..(n' - r' - 1) : gen'[k] \in Byte
    <3>1. PICK m \in Nat : n' = m /\ r' = m
      BY <1>4, <1>5
    <3>2. \A k \in 0..(m - m - 1) : gen'[k] \in Byte
      OBVIOUS
    <3> QED BY <3>1, <3>2
  <2>2. \E z \in AllSeeds : len' = InputLength(z)
    BY <1>10
  <2>3. len' <= hashInputSize' /\ \A k \in 0..(len' - 1) : hashInput'[k] \in Byte
    BY <1>2, <1>5, <1>9
  <2>4. n' \in Nat /\ n' <= genLength' /\ digerible' = "hashInput" /\ pc' = "hash"
    BY <1>4, <1>5, <1>7
  <2> QED BY <2>1, <2>2, <2>3, <2>4 DEF Underway
<1> QED BY <1>11, <1>12

\* The seeds of calls with and without one are of those that occur.
LEMMA SeedsOccur ==
  ASSUME Kept
  PROVE  /\ \A z \in Seeds \cup RandomSeeds : ToSeed(z) \in AllSeeds
         /\ AutoSeeds \subseteq AllSeeds
<1>1. \A z \in Seeds \cup RandomSeeds : ToSeed(z) \in AllSeeds
  BY DEF ToSeed, AllSeeds
<1> HIDE DEF ToSeed, AllSeeds
<1> QED BY <1>1 DEF AutoSeeds, Kept

\* What is digested is a sequence of bytes of a length the hash takes.
LEMMA DigestIsBytes ==
  ASSUME PrfInv, pc = "hash"
  PROVE  /\ Digested \in [1..len -> Byte]
         /\ Hash(Digested) \in [1..HashSize -> Byte]
         /\ len <= (IF digerible = "hashInput" THEN hashInputSize ELSE HashSize)
<1>1. CASE digerible = "hashInput"
  <2>1. PICK seed \in AllSeeds : len = InputLength(seed)
    BY <1>1 DEF PrfInv, Underway
  <2>2. len \in Nat /\ \A k \in 0..(len - 1) : hashInput[k] \in Byte
    BY <1>1, <2>1, InputLengthNat DEF PrfInv, Underway
  <2>3. \A k \in 1..len : hashInput[k - 1] \in Byte
    <3> SUFFICES ASSUME NEW k \in 1..len PROVE hashInput[k - 1] \in Byte
      OBVIOUS
    <3>1. k - 1 \in 0..(len - 1)
      BY <2>2
    <3> QED BY <2>2, <3>1
  <2>4. Digested \in [1..len -> Byte]
    BY <1>1, <2>3 DEF Digested
  <2>5. len \in {InputLength(z) : z \in AllSeeds} \cup {HashSize}
    BY <2>1
  <2>6. len <= hashInputSize
    BY <1>1 DEF PrfInv, Underway
  <2> HIDE DEF Digested, AllSeeds, InputLength
  <2> QED BY <1>1, <2>4, <2>5, <2>6, HashAssumption
<1>2. CASE digerible # "hashInput"
  <2>1. digerible = "lastHash" /\ len = HashSize /\ lastHash \in [1..HashSize -> Byte]
    BY <1>2 DEF PrfInv, Underway
  <2>2. Digested \in [1..len -> Byte]
    BY <2>1 DEF Digested
  <2>3. len \in {InputLength(z) : z \in AllSeeds} \cup {HashSize}
    BY <2>1
  <2> HIDE DEF Digested, AllSeeds, InputLength
  <2> QED BY <1>2, <2>1, <2>2, <2>3, HashAssumption, WidthAssumption
<1> QED BY <1>1, <1>2

\* One turn of the loop continues what was generated by what is missing.
LEMMA RoundKeeps ==
  ASSUME PrfInv, HashRound
  PROVE  PrfInv'
<1> DEFINE digest == Hash(Digested)
           k == Smaller(r, HashSize)
<1>1. pc = "hash"
  BY DEF HashRound
<1>2. digest \in [1..HashSize -> Byte]
  BY <1>1, DigestIsBytes
<1>3. n \in Nat /\ r \in 0..n /\ n <= genLength /\ genLength \in Nat /\ HashSize \in Nat \ {0}
      /\ DOMAIN gen = 0..(genLength - 1)
      /\ \A i \in 0..(n - r - 1) : gen[i] \in Byte
  BY <1>1, WidthAssumption DEF PrfInv, Underway, Lengthened
<1>4. k \in 0..r /\ k <= HashSize
  BY <1>3 DEF Smaller
<1>5. /\ lastHash' = digest
      /\ gen' = [i \in DOMAIN gen |-> IF i \in (n - r)..(n - r + k - 1)
                                      THEN digest[i - (n - r) + 1] ELSE gen[i]]
      /\ r' = r - k /\ digerible' = "lastHash" /\ len' = HashSize
      /\ pc' = IF r' > 0 THEN "hash" ELSE "cut"
      /\ UNCHANGED <<genLength, hashInput, hashInputSize, modulo, auto, n>>
  BY DEF HashRound
<1> HIDE DEF digest, k
<1>6. ASSUME NEW i \in 0..(n - r' - 1) PROVE gen'[i] \in Byte
  <2>1. i \in 0..(n - r + k - 1) /\ i \in DOMAIN gen
    BY <1>3, <1>4, <1>5
  <2>2. CASE i \in (n - r)..(n - r + k - 1)
    <3>1. i - (n - r) + 1 \in 1..HashSize
      BY <1>3, <1>4, <2>2
    <3>2. gen'[i] = digest[i - (n - r) + 1]
      BY <1>5, <2>1, <2>2
    <3> QED BY <1>2, <3>1, <3>2
  <2>3. CASE i \notin (n - r)..(n - r + k - 1)
    <3>1. i \in 0..(n - r - 1)
      BY <1>3, <1>4, <2>1, <2>3
    <3>2. gen'[i] = gen[i]
      BY <1>5, <2>1, <2>3
    <3> QED BY <1>3, <3>1, <3>2
  <2> QED BY <2>2, <2>3
<1>7. r' \in 0..n' /\ n' = n
  BY <1>3, <1>4, <1>5
<1>8. Lengthened'
  <2>1. DOMAIN gen' = DOMAIN gen
    BY <1>5
  <2> QED BY <1>5, <2>1 DEF PrfInv, Lengthened
<1>9. Kept'
  BY <1>5 DEF PrfInv, Kept, auto
<1>10. Underway'
  <2>1. CASE r' > 0
    BY <2>1, <1>2, <1>3, <1>5, <1>6, <1>7 DEF Underway
  <2>2. CASE ~(r' > 0)
    <3>1. r' = 0 /\ pc' = "cut"
      BY <2>2, <1>3, <1>5, <1>7
    <3>2. \A i \in 0..(n' - 1) : gen'[i] \in Byte
      BY <1>3, <1>6, <1>7, <3>1
    <3> QED BY <1>3, <1>5, <3>1, <3>2 DEF Underway
  <2> QED BY <2>1, <2>2
<1> QED BY <1>8, <1>9, <1>10 DEF PrfInv

\* Every step.
LEMMA NextKeeps == PrfInv /\ [Next]_vars => PrfInv'
<1> SUFFICES ASSUME PrfInv, [Next]_vars PROVE PrfInv'
  OBVIOUS
<1>0. Kept
  BY DEF PrfInv
<1>1. ASSUME NEW seed \in Seeds, NEW index \in Indices, NEW bits \in BitLengths,
             Generate(ToSeed(seed), index, bits)
      PROVE  PrfInv'
  <2>1. ToSeed(seed) \in AllSeeds /\ bits \in Nat
    BY <1>0, SeedsOccur, ArgumentAssumption
  <2>2. Begin(ToSeed(seed), index, bits) /\ UNCHANGED auto
    BY <1>1 DEF Generate
  <2>3. Lengthened' /\ Underway'
    BY <2>1, <2>2, BeginKeeps
  <2>4. Kept'
    BY <1>0, <2>2 DEF Kept, auto, Begin
  <2> QED BY <2>3, <2>4 DEF PrfInv
<1>2. ASSUME NEW index \in Indices \cup 0..MaxAutoIndex, NEW bits \in Nat,
             WithAutoSeed(index, bits), autoIndex' \in 0..MaxAutoIndex
      PROVE  PrfInv'
  <2>1. PICK seed \in AutoSeeds : autoSeed' = <<seed>> /\ Begin(seed, index, bits)
    BY <1>2 DEF WithAutoSeed
  <2>2. seed \in AllSeeds
    BY <1>0, <2>1, SeedsOccur
  <2>3. Lengthened' /\ Underway'
    BY <2>1, <2>2, BeginKeeps
  <2>4. autoSeed'[1] = seed /\ modulo' = modulo
    BY <2>1 DEF Begin
  <2>5. Kept'
    BY <1>0, <1>2, <2>2, <2>4 DEF Kept
  <2> QED BY <2>3, <2>5 DEF PrfInv
<1>3. ASSUME NEW index \in Indices, NEW bits \in BitLengths, GenerateIndex(index, bits)
      PROVE  PrfInv'
  BY <1>0, <1>2, <1>3, ArgumentAssumption DEF GenerateIndex, Kept
<1>4. CASE GenerateAny
  <2>1. autoIndex \in 0..MaxAutoIndex /\ autoIndex' \in 0..MaxAutoIndex
    BY <1>0, <1>4, ArgumentAssumption DEF GenerateAny, Kept
  <2> QED BY <1>2, <1>4, <2>1 DEF GenerateAny
<1>5. ASSUME NEW m \in Moduli, SetModulo(m) PROVE PrfInv'
  BY <1>5 DEF SetModulo, PrfInv, Lengthened, Kept, Underway, buffers, auto
<1>6. CASE HashRound
  BY <1>6, RoundKeeps
<1>7. CASE Cut
  <2>1. PICK byte : gen' = [gen EXCEPT ![n - 1] = byte]
    BY <1>7 DEF Cut
  <2>2. DOMAIN gen' = DOMAIN gen
    BY <2>1
  <2> QED BY <1>7, <2>2 DEF Cut, PrfInv, Lengthened, Kept, Underway, auto
<1>8. CASE UNCHANGED vars
  BY <1>8 DEF vars, PrfInv, Lengthened, Kept, Underway
<1> QED BY <1>1, <1>3, <1>4, <1>5, <1>6, <1>7, <1>8 DEF Next

LEMMA InitKeeps == Init => PrfInv
<1> SUFFICES ASSUME Init PROVE PrfInv
  OBVIOUS
<1>1. DOMAIN Fresh(0) = 0..(0 - 1)
  BY DEF Fresh
<1>2. Lengthened
  BY <1>1 DEF Init, Lengthened
<1>3. Kept
  BY ArgumentAssumption DEF Init, Kept
<1> QED BY <1>2, <1>3 DEF PrfInv, Init, Underway

\* Every byte that is hashed, copied or read lies inside its buffer and was
\* written by the call that runs, whatever was asked of the object before.
THEOREM BuffersAlwaysSuffice == Spec => []BuffersSuffice
<1>1. Init => PrfInv
  BY InitKeeps
<1>2. PrfInv /\ [Next]_vars => PrfInv'
  BY NextKeeps
<1>3. ASSUME PrfInv PROVE BuffersSuffice
  <2>1. CASE pc = "hash"
    BY <1>3, <2>1, DigestIsBytes DEF PrfInv, Underway, BuffersSuffice
  <2>2. CASE pc # "hash"
    BY <1>3, <2>2 DEF PrfInv, Underway, BuffersSuffice
  <2> QED BY <2>1, <2>2
<1>4. PrfInv => BuffersSuffice
  BY <1>3
<1> QED BY <1>1, <1>2, <1>4, PTL DEF Spec

-----------------------------------------------------------------------------
(* Numbers and their bytes *)

\* The remainder by a product.
LEMMA ProductRemainder ==
  ASSUME NEW a \in Nat \ {0}, NEW b \in Nat \ {0}, NEW z \in Nat
  PROVE  /\ a * b \in Nat \ {0}
         /\ z % (a * b) = (z % a) + a * ((z \div a) % b)
<1> DEFINE q == z \div a
           low == z % a
           c == q \div b
           d == q % b
           rest == a * d + low
<1>1. q \in Nat /\ low \in 0..(a - 1) /\ z = a * q + low
  OBVIOUS
<1> HIDE DEF q, low
<1>2. c \in Nat /\ d \in 0..(b - 1) /\ q = b * c + d
  BY <1>1
<1> HIDE DEF c, d
<1>3. a * (b * c + d) = c * (a * b) + a * d
  BY <1>2
<1>4. z = c * (a * b) + rest
  BY <1>1, <1>2, <1>3
<1>5. a * d \in Nat /\ a * b \in Nat /\ a * d + a <= a * b /\ a * b > 0
  <2>1. d + 1 <= b /\ d + 1 \in Nat /\ d \in Nat
    BY <1>2
  <2>2. PICK e \in Nat : b = (d + 1) + e
    <3>1. b - (d + 1) \in Nat /\ b = (d + 1) + (b - (d + 1))
      BY <2>1
    <3> QED BY <3>1
  <2>3. a * ((d + 1) + e) = (a * d + a) + a * e /\ a * e \in Nat /\ a * d \in Nat
    BY <2>1
  <2> QED BY <2>2, <2>3
<1>6. rest \in Nat /\ rest < a * b
  BY <1>1, <1>5
<1> DEFINE m == a * b
<1>7. m \in Nat /\ m > 0 /\ rest < m /\ z = c * m + rest
  BY <1>4, <1>5, <1>6
<1> HIDE DEF rest, m
<1>8. (c * m + rest) % m = rest
  BY <1>2, <1>6, <1>7
<1>9. z % m = rest
  BY <1>7, <1>8
<1> QED
  BY <1>5, <1>7, <1>9 DEF m, rest, q, low, d

\* The powers up to a width that occurs.
LEMMA WidthPowers ==
  ASSUME NEW width \in Widths \cap Nat
  PROVE  /\ \A k \in Nat : k <= width => 2^k \in Nat /\ 2^k > 0
         /\ \A a, b \in Nat : a + b <= width => 2^(a + b) = 2^a * 2^b
<1>1. width \in Nat /\ \A k \in 0..width : 2^k \in Nat \ {0} /\ 2^(k + 1) = 2 * 2^k
  BY PowerAssumption
<1>2. \A a, b \in Nat : a + b <= width => 2^(a + b) = 2^a * 2^b
  BY <1>1, PowersMultiply
<1> QED
  BY <1>1, <1>2

\* One byte more is as much as 2^ByteBits times the power.
LEMMA NextByte ==
  ASSUME NEW m \in Nat, ByteBits * m \in Widths, NEW k \in Nat, k < m
  PROVE  /\ ByteBits * k \in Nat /\ 2^(ByteBits * k) \in Nat \ {0}
         /\ ByteBits * (k + 1) \in Nat /\ 2^(ByteBits * (k + 1)) \in Nat \ {0}
         /\ 2^(ByteBits * (k + 1)) = 2^(ByteBits * k) * 2^ByteBits
<1>1. ByteBits \in Nat /\ m - (k + 1) \in Nat
  BY WidthAssumption
<1>2. /\ ByteBits * m = (ByteBits * k + ByteBits) + ByteBits * (m - (k + 1))
      /\ ByteBits * (k + 1) = ByteBits * k + ByteBits
      /\ ByteBits * (m - (k + 1)) \in Nat /\ ByteBits * k \in Nat /\ ByteBits * m \in Nat
  BY <1>1
<1>3. ByteBits * k + ByteBits <= ByteBits * m /\ ByteBits * k <= ByteBits * m
  BY <1>1, <1>2
<1>4. ByteBits * m \in Widths \cap Nat
  BY <1>2
<1> DEFINE low == ByteBits * k
           high == ByteBits * (k + 1)
           width == ByteBits * m
<1>5. /\ low \in Nat /\ low + ByteBits <= width /\ low <= width /\ width \in Widths \cap Nat
      /\ high = low + ByteBits
  BY <1>2, <1>3, <1>4
<1> HIDE DEF low, high, width
<1>6. 2^low \in Nat /\ 2^low > 0 /\ 2^(low + ByteBits) = 2^low * 2^ByteBits
      /\ 2^(low + ByteBits) \in Nat /\ 2^(low + ByteBits) > 0
  BY <1>1, <1>5, WidthPowers
<1>7. high \in Nat /\ 2^high = 2^low * 2^ByteBits /\ 2^high \in Nat \ {0} /\ 2^low \in Nat \ {0}
  BY <1>1, <1>5, <1>6
<1> QED
  BY <1>5, <1>7 DEF low, high

\* Two numbers with the same m lowest bytes.
LEMMA SameBytes ==
  ASSUME NEW m \in Nat, ByteBits * m \in Widths, NEW z \in Nat, NEW y \in Nat,
         \A k \in 0..(m - 1) : ByteAt(z, k) = ByteAt(y, k)
  PROVE  z % 2^(ByteBits * m) = y % 2^(ByteBits * m)
<1> DEFINE P == {k \in Nat : k <= m => z % 2^(ByteBits * k) = y % 2^(ByteBits * k)}
<1>1. 0 \in P
  <2>1. ByteBits * 0 = 0 /\ 2^0 = 1 /\ z % 1 = 0 /\ y % 1 = 0
    BY WidthAssumption
  <2> QED BY <2>1
<1>2. ASSUME NEW k \in Nat, k \in P PROVE k + 1 \in P
  <2> SUFFICES ASSUME k + 1 <= m
               PROVE  z % 2^(ByteBits * (k + 1)) = y % 2^(ByteBits * (k + 1))
    BY DEF P
  <2> DEFINE a == 2^(ByteBits * k)
             b == 2^ByteBits
  <2>1. k < m /\ k \in 0..(m - 1)
    OBVIOUS
  <2>2. a \in Nat \ {0} /\ b \in Nat \ {0} /\ 2^(ByteBits * (k + 1)) = a * b
    BY <2>1, NextByte, WidthAssumption
  <2>3. z % a = y % a
    BY <1>2, <2>1 DEF P
  <2>4. (z \div a) % b = (y \div a) % b
    BY <2>1 DEF ByteAt
  <2> HIDE DEF a, b
  <2>5. /\ z % (a * b) = (z % a) + a * ((z \div a) % b)
        /\ y % (a * b) = (y % a) + a * ((y \div a) % b)
    BY <2>2, ProductRemainder
  <2> QED
    BY <2>2, <2>3, <2>4, <2>5
<1> HIDE DEF P
<1>3. Nat \subseteq P
  BY <1>1, <1>2, AllNat
<1>4. m \in P
  BY <1>3
<1> QED
  BY <1>4 DEF P

\* Two numbers of m bytes that agree in all of them.
LEMMA OneNumber ==
  ASSUME NEW m \in Nat, ByteBits * m \in Widths, NEW z \in Nat, NEW y \in Nat,
         z < 2^(ByteBits * m), y < 2^(ByteBits * m),
         \A k \in 0..(m - 1) : ByteAt(z, k) = ByteAt(y, k)
  PROVE  z = y
<1> DEFINE a == 2^(ByteBits * m)
<1>1. ByteBits * m \in Nat
  BY WidthAssumption
<1>2. a \in Nat /\ z < a /\ y < a
  <2> DEFINE width == ByteBits * m
  <2>1. width \in Widths \cap Nat /\ width \in Nat /\ width <= width
    BY <1>1
  <2> HIDE DEF width
  <2>2. 2^width \in Nat
    BY <2>1, WidthPowers
  <2> QED BY <2>2 DEF width
<1>3. z % a = y % a
  BY SameBytes
<1> HIDE DEF a
<1>4. z % a = z /\ y % a = y
  BY <1>2
<1> QED
  BY <1>3, <1>4

\* A seed fits the bytes it is given.
LEMMA SeedFits ==
  ASSUME NEW seed \in AllSeeds
  PROVE  /\ seed \in Nat /\ BytesOf(seed) \in Nat
         /\ ByteBits * BytesOf(seed) \in Widths
         /\ seed < 2^(ByteBits * BytesOf(seed))
<1> DEFINE bits == NumBits(seed)
           m == BytesOf(seed)
<1>1. seed \in Nat
  BY ArgumentAssumption, WidthAssumption DEF AllSeeds
<1>2. bits \in Nat /\ seed < 2^bits
  BY NumberAssumption
<1>3. ByteBits * m \in Widths
  BY DEF Widths, BytesOf
<1>4. m = (bits + ByteBits - 1) \div ByteBits
  BY DEF BytesOf, Bytes
<1> HIDE DEF bits, m
<1>5. m \in Nat /\ bits <= ByteBits * m
  <2> DEFINE x == bits + ByteBits - 1
  <2>1. x \in Nat /\ ByteBits \in Nat \ {0}
    BY <1>2, WidthAssumption
  <2> HIDE DEF x
  <2>2. x \div ByteBits \in Nat /\ x < ByteBits * (x \div ByteBits) + ByteBits
    BY <2>1
  <2>3. ByteBits * (x \div ByteBits) \in Nat
    BY <2>1, <2>2
  <2> QED
    BY <1>2, <1>4, <2>1, <2>2, <2>3 DEF x
<1> DEFINE width == ByteBits * m
           rest == width - bits
<1>6. width \in Nat /\ width \in Widths \cap Nat /\ rest \in Nat /\ width = bits + rest /\ bits <= width
  BY <1>2, <1>3, <1>5, WidthAssumption
<1> HIDE DEF width, rest
<1>7. /\ 2^(bits + rest) = 2^bits * 2^rest
      /\ 2^bits \in Nat /\ 2^rest \in Nat /\ 2^rest > 0
  BY <1>2, <1>6, WidthPowers
<1>8. 2^bits <= 2^bits * 2^rest
  <2> DEFINE a == 2^bits
             b == 2^rest
  <2>1. a \in Nat /\ b \in Nat /\ b > 0
    BY <1>7
  <2> HIDE DEF a, b
  <2>2. PICK e \in Nat : b = 1 + e
    <3>1. b - 1 \in Nat /\ b = 1 + (b - 1)
      BY <2>1
    <3> QED BY <3>1
  <2>3. a * (1 + e) = a + a * e /\ a * e \in Nat
    BY <2>1, <2>2
  <2>4. a <= a * b
    BY <2>1, <2>2, <2>3
  <2> QED BY <2>4 DEF a, b
<1>9. seed < 2^width
  <2> DEFINE a == 2^bits
             b == 2^rest
             c == 2^width
  <2>1. seed < a /\ a <= a * b /\ a * b = c /\ a \in Nat /\ b \in Nat
    BY <1>2, <1>6, <1>7, <1>8
  <2> HIDE DEF a, b, c
  <2>2. a * b \in Nat
    BY <2>1
  <2>3. seed < c
    BY <1>1, <2>1, <2>2
  <2> QED BY <2>3 DEF c
<1> QED
  BY <1>1, <1>3, <1>5, <1>9 DEF width, m

\* A number of one byte more.
LEMMA NumberNext ==
  ASSUME NEW w \in Nat, ByteBits * w \in Widths, NEW m \in Nat, m < w,
         NEW bytes, \A k \in 0..m : bytes[k] \in Nat
  PROVE  /\ Number(bytes, m) \in Nat
         /\ Number(bytes, m + 1) = Number(bytes, m) + bytes[m] * 2^(ByteBits * m)
<1> DEFINE Cells(size) == [k \in 1..size |-> bytes[k - 1] * 2^(ByteBits * (k - 1))]
<1>1. ASSUME NEW size \in Nat, size <= m + 1, NEW k \in 1..size
      PROVE  Cells(size)[k] \in Nat /\ Cells(size)[k] = bytes[k - 1] * 2^(ByteBits * (k - 1))
  <2>1. k - 1 \in 0..m /\ k - 1 \in Nat /\ k - 1 < w
    BY <1>1
  <2>2. 2^(ByteBits * (k - 1)) \in Nat
    BY <2>1, NextByte
  <2> DEFINE a == 2^(ByteBits * (k - 1))
             b == bytes[k - 1]
  <2>3. a \in Nat /\ b \in Nat
    BY <2>1, <2>2
  <2> HIDE DEF a, b
  <2>4. b * a \in Nat
    BY <2>3
  <2> QED
    BY <2>4 DEF a, b
<1>2. \A size : Number(bytes, size) = SumTo(Cells(size), size)
  BY DEF Number
<1>3. \A k \in 1..(m + 1) : Cells(m + 1)[k] \in Nat
  BY <1>1
<1>4. \A k \in 1..m : Cells(m)[k] \in Nat /\ Cells(m)[k] = Cells(m + 1)[k]
  BY <1>1
<1>5. Cells(m + 1)[m + 1] = bytes[m] * 2^(ByteBits * m)
  BY <1>1
<1> HIDE DEF Cells
<1>6. SumTo(Cells(m + 1), m + 1) = SumTo(Cells(m + 1), m) + Cells(m + 1)[m + 1]
  BY <1>3, SumNext
<1>7. SumTo(Cells(m), m) = SumTo(Cells(m + 1), m) /\ SumTo(Cells(m), m) \in Nat
  BY <1>4, SumSame, SumNat
<1> QED
  BY <1>2, <1>5, <1>6, <1>7

\* A number depends on its bytes only.
LEMMA NumberSame ==
  ASSUME NEW w \in Nat, ByteBits * w \in Widths, NEW m \in Nat, m <= w,
         NEW a, NEW b, \A k \in 0..(m - 1) : a[k] \in Nat /\ a[k] = b[k]
  PROVE  Number(a, m) = Number(b, m)
<1> DEFINE Cells(bytes) == [k \in 1..m |-> bytes[k - 1] * 2^(ByteBits * (k - 1))]
<1>1. ASSUME NEW k \in 1..m PROVE Cells(a)[k] \in Nat /\ Cells(a)[k] = Cells(b)[k]
  <2>1. k - 1 \in 0..(m - 1) /\ k - 1 \in Nat /\ k - 1 < w
    OBVIOUS
  <2>2. 2^(ByteBits * (k - 1)) \in Nat
    BY <2>1, NextByte
  <2> DEFINE x == 2^(ByteBits * (k - 1))
             y == a[k - 1]
  <2>3. x \in Nat /\ y \in Nat /\ y = b[k - 1]
    BY <2>1, <2>2
  <2>4. Cells(a)[k] = y * x /\ Cells(b)[k] = b[k - 1] * x
    OBVIOUS
  <2> HIDE DEF x, y, Cells
  <2>5. y * x \in Nat
    BY <2>3
  <2> QED
    BY <2>3, <2>4, <2>5
<1> HIDE DEF Cells
<1>2. SumTo(Cells(a), m) = SumTo(Cells(b), m)
  BY <1>1, SumSame
<1> QED
  BY <1>2 DEF Number, Cells

\* A number of m bytes is below the power of m bytes.
LEMMA NumberBound ==
  ASSUME NEW w \in Nat, ByteBits * w \in Widths, NEW m \in Nat, m < w,
         NEW bytes, \A k \in 0..m : bytes[k] \in Byte
  PROVE  Number(bytes, m) \in Nat /\ Number(bytes, m) < 2^(ByteBits * m)
<1> DEFINE P == {k \in Nat : k <= m =>
                   Number(bytes, k) \in Nat /\ Number(bytes, k) < 2^(ByteBits * k)}
<1>0. \A k \in 0..m : bytes[k] \in Nat /\ bytes[k] < 2^ByteBits
  BY WidthAssumption DEF Byte
<1>1. 0 \in P
  <2>1. ByteBits * 0 = 0 /\ 2^0 = 1
    BY WidthAssumption
  <2>2. Number(bytes, 0) = 0
    BY SumZero DEF Number
  <2>3. 0 < 2^(ByteBits * 0)
    <3> DEFINE e == ByteBits * 0
    <3>1. e = 0
      BY <2>1
    <3> HIDE DEF e
    <3>2. 2^e = 1
      BY <3>1
    <3>3. 0 < 2^e
      BY <3>2
    <3> QED BY <3>3 DEF e
  <2> QED
    BY <2>2, <2>3
<1>2. ASSUME NEW k \in Nat, k \in P PROVE k + 1 \in P
  <2> SUFFICES ASSUME k + 1 <= m
               PROVE  /\ Number(bytes, k + 1) \in Nat
                      /\ Number(bytes, k + 1) < 2^(ByteBits * (k + 1))
    BY DEF P
  <2> DEFINE a == 2^(ByteBits * k)
             b == 2^ByteBits
             x == bytes[k]
             low == Number(bytes, k)
  <2>1. k <= m /\ k < w /\ \A i \in 0..k : bytes[i] \in Nat
    BY <1>0
  <2>2. low \in Nat /\ low < a
    BY <1>2, <2>1 DEF P
  <2>3. Number(bytes, k + 1) = low + x * a
    BY <2>1, NumberNext
  <2>4. a \in Nat \ {0} /\ b \in Nat \ {0} /\ 2^(ByteBits * (k + 1)) = a * b
    BY <2>1, NextByte, WidthAssumption
  <2>5. x \in Nat /\ x < b
    BY <1>0, <2>1
  <2> HIDE DEF a, b, x, low
  <2>6. low + x * a \in Nat /\ low + x * a < a * b
    <3>1. PICK e \in Nat : b = (x + 1) + e
      <4>1. b - (x + 1) \in Nat /\ b = (x + 1) + (b - (x + 1))
        BY <2>4, <2>5
      <4> QED BY <4>1
    <3>2. a * ((x + 1) + e) = (x * a + a) + a * e /\ a * e \in Nat /\ x * a \in Nat
      BY <2>4, <2>5, <3>1
    <3> QED
      BY <2>2, <2>4, <3>1, <3>2
  <2> QED
    BY <2>3, <2>4, <2>6
<1> HIDE DEF P
<1>3. Nat \subseteq P
  BY <1>1, <1>2, AllNat
<1>4. m \in P
  BY <1>3
<1> QED
  BY <1>4 DEF P

\* The bits that are cut from the last byte are fewer than a byte has.
LEMMA CutWidth ==
  ASSUME NEW bits \in Nat, bits > 0
  PROVE  /\ Bytes(bits) \in Nat /\ Bytes(bits) > 0
         /\ Bytes(bits) * ByteBits - bits \in 0..(ByteBits - 1)
<1> DEFINE x == bits + ByteBits - 1
           m == x \div ByteBits
<1>1. x \in Nat /\ ByteBits \in Nat \ {0}
  BY WidthAssumption
<1> HIDE DEF x
<1>2. m \in Nat /\ ByteBits * m <= x /\ x < ByteBits * m + ByteBits
  BY <1>1
<1>3. Bytes(bits) = m
  BY DEF Bytes, x
<1> HIDE DEF m
<1>4. m * ByteBits = ByteBits * m /\ ByteBits * m \in Nat
  BY <1>1, <1>2
<1>5. m # 0
  <2> SUFFICES ASSUME m = 0 PROVE FALSE
    OBVIOUS
  <2>1. ByteBits * m = 0
    BY <1>1
  <2> QED
    BY <1>1, <1>2, <2>1 DEF x
<1> QED
  BY <1>1, <1>2, <1>3, <1>4, <1>5 DEF x

\* The two shifts of a byte leave its lowest bits.
LEMMA ShiftedValue ==
  ASSUME NEW by \in 0..(ByteBits - 1), NEW x \in Byte
  PROVE  /\ 2^(ByteBits - by) \in Nat \ {0}
         /\ Shifted(x, by) = x % 2^(ByteBits - by)
<1> DEFINE d == 2^by
           c == 2^(ByteBits - by)
           y == x * d
<1>1. /\ ByteBits \in Nat \ {0} /\ IndexBytes \in Nat \ {0}
      /\ by \in Nat /\ ByteBits - by \in Nat /\ by + (ByteBits - by) = ByteBits
  BY WidthAssumption
<1>2. ByteBits * IndexBytes \in Widths \cap Nat /\ ByteBits <= ByteBits * IndexBytes
  <2>1. ByteBits * IndexBytes \in Nat
    BY <1>1
  <2>2. PICK e \in Nat : IndexBytes = 1 + e
    <3>1. IndexBytes - 1 \in Nat /\ IndexBytes = 1 + (IndexBytes - 1)
      BY <1>1
    <3> QED BY <3>1
  <2>3. ByteBits * (1 + e) = ByteBits + ByteBits * e /\ ByteBits * e \in Nat
    BY <1>1, <2>2
  <2>4. ByteBits <= ByteBits * (1 + e)
    BY <1>1, <2>3
  <2> QED BY <2>1, <2>2, <2>4 DEF Widths
<1> DEFINE width == ByteBits * IndexBytes
<1>3. width \in Widths \cap Nat /\ ByteBits <= width
  BY <1>2
<1> HIDE DEF width
<1>4. d \in Nat \ {0} /\ c \in Nat \ {0} /\ 2^(by + (ByteBits - by)) = d * c
  BY <1>1, <1>3, WidthPowers
<1>5. 2^ByteBits = d * c
  BY <1>1, <1>4
<1>6. x \in Nat
  BY WidthAssumption DEF Byte
<1> HIDE DEF d, c
<1>7. y \in Nat /\ y % d = 0 /\ y \div d = x
  BY <1>4, <1>6
<1> HIDE DEF y
<1>8. y % (d * c) = (y % d) + d * ((y \div d) % c)
  BY <1>4, <1>7, ProductRemainder
<1> DEFINE z == x % c
<1>9. z \in Nat /\ y % (d * c) = d * z
  <2>1. z \in Nat /\ (y \div d) % c = z
    BY <1>4, <1>6, <1>7
  <2> HIDE DEF z
  <2>2. y % (d * c) = 0 + d * z
    BY <1>7, <1>8, <2>1
  <2>3. d * z \in Nat
    BY <1>4, <2>1
  <2> QED BY <2>1, <2>2, <2>3
<1> HIDE DEF z
<1>10. (d * z) \div d = z
  BY <1>4, <1>9
<1>11. Shifted(x, by) = (y % (d * c)) \div d
  BY <1>5 DEF Shifted, y, d
<1> QED
  BY <1>4, <1>9, <1>10, <1>11 DEF z, c

\* Cutting the last byte takes the remainder of the number.
LEMMA CutNumber ==
  ASSUME NEW bits \in Nat, bits > 0, ByteBits * Bytes(bits) \in Widths,
         NEW s, \A k \in 0..(Bytes(bits) - 1) : s[k] \in Byte,
         NEW g, \A k \in 0..(Bytes(bits) - 2) : g[k] = s[k],
         g[Bytes(bits) - 1] =
           Shifted(s[Bytes(bits) - 1], Bytes(bits) * ByteBits - bits)
  PROVE  Number(g, Bytes(bits)) = Number(s, Bytes(bits)) % 2^bits
<1> DEFINE w == Bytes(bits)
           m == w - 1
           by == w * ByteBits - bits
           a == 2^(ByteBits * m)
           c == 2^(ByteBits - by)
           x == s[m]
           low == Number(s, m)
<1>1. w \in Nat /\ w > 0 /\ by \in 0..(ByteBits - 1) /\ ByteBits \in Nat \ {0}
  BY CutWidth, WidthAssumption
<1>2. m \in Nat /\ m < w /\ m + 1 = w /\ w - 2 = m - 1
  BY <1>1
<1>3. /\ x \in Byte /\ g[m] = Shifted(x, by)
      /\ \A k \in 0..(m - 1) : g[k] = s[k]
      /\ \A k \in 0..m : s[k] \in Byte
      /\ ByteBits * w \in Widths
  <2>1. m \in 0..m /\ w - 1 = m
    BY <1>2
  <2> HIDE DEF by
  <2>2. /\ \A k \in 0..m : s[k] \in Byte
        /\ \A k \in 0..(w - 2) : g[k] = s[k]
        /\ g[m] = Shifted(x, by)
    BY <2>1 DEF by
  <2> HIDE DEF w, m
  <2> QED BY <1>2, <2>1, <2>2 DEF w
<1> HIDE DEF w
<1>4. /\ c \in Nat \ {0} /\ g[m] = x % c
  BY <1>1, <1>3, ShiftedValue
<1>5. \A k \in 0..m : s[k] \in Nat /\ k \in Nat
  BY <1>2, <1>3, WidthAssumption DEF Byte
<1>6. /\ low \in Nat /\ low < a /\ Number(s, m + 1) = low + x * a
  BY <1>1, <1>2, <1>3, <1>5, NumberNext, NumberBound
<1>7. Number(g, m + 1) = low + (x % c) * a
  <2>1. x \in Nat /\ x % c \in Nat
    <3>1. x \in Nat
      BY <1>3, WidthAssumption DEF Byte
    <3> HIDE DEF x, c
    <3> QED BY <1>4, <3>1
  <2>2. \A k \in 0..m : g[k] \in Nat
    <3> SUFFICES ASSUME NEW k \in 0..m PROVE g[k] \in Nat
      OBVIOUS
    <3>1. CASE k = m
      BY <1>4, <2>1, <3>1
    <3>2. CASE k # m
      <4>1. k \in 0..(m - 1)
        BY <1>2, <3>2
      <4> QED BY <1>3, <1>5, <4>1
    <3> QED BY <3>1, <3>2
  <2>3. Number(g, m + 1) = Number(g, m) + g[m] * a
    BY <1>1, <1>2, <1>3, <2>2, NumberNext
  <2>4. Number(s, m) = Number(g, m)
    <3>1. \A k \in 0..(m - 1) : s[k] \in Nat /\ s[k] = g[k]
      <4> SUFFICES ASSUME NEW k \in 0..(m - 1) PROVE s[k] \in Nat /\ s[k] = g[k]
        OBVIOUS
      <4>1. k \in 0..m
        BY <1>2
      <4> QED BY <1>3, <1>5, <4>1
    <3>2. m <= w
      BY <1>1, <1>2
    <3> QED BY <1>1, <1>2, <1>3, <3>1, <3>2, NumberSame
  <2> QED BY <1>4, <2>3, <2>4
<1>8. a \in Nat \ {0}
  BY <1>1, <1>2, <1>3, NextByte
<1>9. 2^bits = a * c
  <2> DEFINE e == ByteBits * m
             f == ByteBits - by
             width == ByteBits * w
  <2>1. /\ ByteBits * w = e + ByteBits /\ e \in Nat /\ w * ByteBits = ByteBits * w
        /\ ByteBits * w \in Nat
    BY <1>1, <1>2
  <2>2. f \in Nat /\ bits = e + f /\ e + f <= width /\ width \in Widths \cap Nat
    BY <1>1, <1>3, <2>1
  <2> HIDE DEF e, f, width
  <2>3. 2^(e + f) = 2^e * 2^f
    BY <2>1, <2>2, WidthPowers
  <2> QED BY <2>2, <2>3 DEF e, f
<1>10. x \in Nat
  BY <1>3, WidthAssumption DEF Byte
<1> HIDE DEF a, c, x, low, m
<1> DEFINE z == low + x * a
<1>11. z \in Nat /\ z % a = low /\ z \div a = x
  BY <1>6, <1>8, <1>10
<1> HIDE DEF z
<1>12. z % (a * c) = (z % a) + a * ((z \div a) % c)
  BY <1>4, <1>8, <1>11, ProductRemainder
<1> DEFINE y == x % c
<1>13. y \in Nat
  BY <1>4, <1>10
<1> HIDE DEF y
<1>14. y * a = a * y
  BY <1>8, <1>13
<1>15. Number(s, w) % 2^bits = low + y * a
  BY <1>2, <1>6, <1>9, <1>11, <1>12, <1>14 DEF z, y
<1> QED
  BY <1>2, <1>7, <1>15 DEF w, y

-----------------------------------------------------------------------------
(* The chain of digests *)

AllIndices == Indices \cup 0..MaxAutoIndex

FirstInput(seed, index) ==
  [b \in 1..InputLength(seed) |-> InputByte(seed, index, b - 1)]

\* Every digest is a digest, of the one before.
LEMMA DigestChain ==
  ASSUME NEW seed \in AllSeeds, NEW index \in AllIndices
  PROVE  /\ \A k \in Nat : DigestAt(seed, index, k) \in [1..HashSize -> Byte]
         /\ DigestAt(seed, index, 0) = Hash(FirstInput(seed, index))
         /\ \A k \in Nat : DigestAt(seed, index, k + 1) = Hash(DigestAt(seed, index, k))
<1> DEFINE first == Hash([b \in 1..InputLength(seed) |-> InputByte(seed, index, b - 1)])
           Chains(f) == f = [i \in Nat |-> IF i = 0 THEN first ELSE Hash(f[i - 1])]
           g == CHOOSE f : Chains(f)
           S == [1..HashSize -> Byte]
<1>1. first \in S
  <2>1. \A k \in 0..(InputLength(seed) - 1) : InputByte(seed, index, k) \in Byte
    BY NumberAssumption DEF AllIndices
  <2>2. InputLength(seed) \in Nat
    BY InputLengthNat
  <2>3. \A b \in 1..InputLength(seed) : InputByte(seed, index, b - 1) \in Byte
    <3> SUFFICES ASSUME NEW b \in 1..InputLength(seed)
                 PROVE  InputByte(seed, index, b - 1) \in Byte
      OBVIOUS
    <3>1. b - 1 \in 0..(InputLength(seed) - 1)
      BY <2>2
    <3> QED BY <2>1, <3>1
  <2>4. [b \in 1..InputLength(seed) |-> InputByte(seed, index, b - 1)]
          \in [1..InputLength(seed) -> Byte]
    BY <2>3
  <2>5. InputLength(seed) \in {InputLength(z) : z \in AllSeeds} \cup {HashSize}
    OBVIOUS
  <2> HIDE DEF S
  <2> QED BY <2>4, <2>5, HashAssumption DEF S
<1>2. \A s \in S : Hash(s) \in S
  BY HashAssumption
<1>3. \E f : Chains(f)
  <2> DEFINE step == [m \in Nat |-> [s \in S |-> Hash(s)]]
  <2> HIDE DEF S, first
  <2>1. step \in [Nat -> [S -> S]]
    BY <1>2
  <2>2. \A m \in Nat : \A s \in S : step[m][s] = Hash(s)
    OBVIOUS
  <2> HIDE DEF step
  <2>3. PICK f : Recursive(f, S, first, step)
    BY <1>1, <2>1, RecursiveExists DEF HasRecursive
  <2>4. f \in [Nat -> S] /\ f[0] = first /\ \A m \in Nat : f[m + 1] = Hash(f[m])
    <3>1. f \in [Nat -> S] /\ f[0] = first /\ \A m \in Nat : f[m + 1] = step[m + 1][f[m]]
      BY <2>3 DEF Recursive
    <3>2. \A m \in Nat : m + 1 \in Nat /\ f[m] \in S
      BY <3>1
    <3> QED BY <2>2, <3>1, <3>2
  <2>5. ASSUME NEW m \in Nat, m # 0 PROVE f[m] = Hash(f[m - 1])
    <3>1. m - 1 \in Nat /\ (m - 1) + 1 = m
      BY <2>5
    <3> QED BY <2>4, <3>1
  <2>6. Chains(f)
    BY <2>4, <2>5
  <2> QED BY <2>6
<1>4. Chains(g)
  <2> HIDE DEF Chains
  <2> QED BY <1>3, Zenon
<1>5. \A k : DigestAt(seed, index, k) = g[k]
  BY Zenon DEF DigestAt
<1> HIDE DEF g
<1>6. g[0] = first /\ \A m \in Nat : g[m + 1] = Hash(g[m])
  <2> HIDE DEF first
  <2>1. \A m \in Nat : m + 1 # 0 /\ m + 1 - 1 = m
    OBVIOUS
  <2> QED BY <1>4, <2>1
<1>7. \A k \in Nat : g[k] \in S
  <2> HIDE DEF S, first
  <2> DEFINE P == {k \in Nat : g[k] \in S}
  <2>1. 0 \in P
    BY <1>1, <1>6
  <2>2. \A m \in Nat : m \in P => m + 1 \in P
    BY <1>2, <1>6
  <2>3. Nat \subseteq P
    <3> HIDE DEF P
    <3> QED BY <2>1, <2>2, AllNat
  <2> QED BY <2>3
<1>8. first = Hash(FirstInput(seed, index))
  BY DEF FirstInput
<1> HIDE DEF first, S, Chains
<1>9. \A k \in Nat : k + 1 \in Nat
  OBVIOUS
<1>10. \A k \in Nat : DigestAt(seed, index, k) \in S
  BY <1>5, <1>7
<1>11. DigestAt(seed, index, 0) = Hash(FirstInput(seed, index))
  BY <1>5, <1>6, <1>8
<1>12. \A k \in Nat : DigestAt(seed, index, k + 1) = Hash(DigestAt(seed, index, k))
  BY <1>5, <1>6
<1> QED
  BY <1>10, <1>11, <1>12 DEF S

\* The bytes of the stream, digest by digest.
LEMMA StreamBytes ==
  ASSUME NEW seed \in AllSeeds, NEW index \in AllIndices, NEW size \in Nat
  PROVE  /\ \A k \in 0..(size - 1) : Stream(seed, index, size)[k] \in Byte
         /\ \A j \in Nat, d \in 0..(HashSize - 1) : j * HashSize + d \in 0..(size - 1) =>
              Stream(seed, index, size)[j * HashSize + d] = DigestAt(seed, index, j)[d + 1]
<1>1. HashSize \in Nat \ {0}
  BY WidthAssumption
<1>2. ASSUME NEW k \in 0..(size - 1)
      PROVE  /\ k \div HashSize \in Nat /\ (k % HashSize) + 1 \in 1..HashSize
             /\ Stream(seed, index, size)[k] =
                  DigestAt(seed, index, k \div HashSize)[(k % HashSize) + 1]
  <2>1. k \in Nat
    OBVIOUS
  <2>2. k \div HashSize \in Nat /\ (k % HashSize) + 1 \in 1..HashSize
    BY <1>1, <2>1
  <2> QED BY <2>2 DEF Stream
<1>3. ASSUME NEW k \in 0..(size - 1) PROVE Stream(seed, index, size)[k] \in Byte
  <2>1. DigestAt(seed, index, k \div HashSize) \in [1..HashSize -> Byte]
    BY <1>2, DigestChain
  <2> QED BY <1>2, <2>1
<1>4. ASSUME NEW j \in Nat, NEW d \in 0..(HashSize - 1), j * HashSize + d \in 0..(size - 1)
      PROVE  Stream(seed, index, size)[j * HashSize + d] = DigestAt(seed, index, j)[d + 1]
  <2> DEFINE k == j * HashSize + d
  <2>1. k \div HashSize = j /\ k % HashSize = d
    BY <1>1
  <2> HIDE DEF k
  <2> QED BY <1>2, <1>4, <2>1 DEF k
<1> QED
  BY <1>3, <1>4

-----------------------------------------------------------------------------
(* Steps of a call *)

\* What precedes the loop writes seed and index, and generates nothing.
LEMMA BeginChained ==
  ASSUME PrfInv, NEW seed \in AllSeeds, NEW index \in AllIndices, NEW bits \in Nat,
         Begin(seed, index, bits), call'.seed = seed, call'.index = index
  PROVE  Chained'
<1> DEFINE wanted == InputLength(seed)
           inSize == IF wanted > hashInputSize THEN InputSize(wanted) ELSE hashInputSize
           input == Grown(hashInput, hashInputSize, inSize)
<1>1. wanted \in Nat /\ hashInputSize \in Nat /\ HashSize \in Nat
  BY InputLengthNat, WidthAssumption DEF PrfInv, Lengthened
<1>2. inSize \in Nat /\ wanted <= inSize /\ hashInputSize <= inSize
  BY <1>1 DEF InputSize, Larger
<1>3. DOMAIN input = 0..(inSize - 1)
  <2>1. Larger(hashInputSize, inSize) = inSize
    BY <1>1, <1>2 DEF Larger
  <2> HIDE DEF inSize
  <2> QED BY <1>1, <1>2, <2>1, GrownDomain DEF PrfInv, Lengthened
<1>4. n' \in Nat
  BY LengthsNat DEF Begin, PrfInv
<1>5. /\ hashInput' = [k \in DOMAIN input |->
                         IF k < wanted THEN InputByte(seed, index, k) ELSE input[k]]
      /\ r' = n' /\ len' = wanted /\ digerible' = "hashInput" /\ pc' = "hash"
  BY DEF Begin
<1> HIDE DEF inSize, input
<1>6. \A k \in 0..(wanted - 1) : hashInput'[k] = InputByte(seed, index, k)
  BY <1>1, <1>2, <1>3, <1>5
<1>7. /\ 0 \in 0..n' /\ n' - r' = 0 * HashSize /\ n' - r' = 0
      /\ len' = InputLength(call'.seed)
      /\ \A k \in 0..(len' - 1) : hashInput'[k] = InputByte(call'.seed, call'.index, k)
  <2>1. PICK m \in Nat : n' = m /\ r' = m
    BY <1>4, <1>5
  <2>2. 0 \in 0..m /\ m - m = 0 /\ 0 * HashSize = 0
    BY <1>1
  <2> QED BY <1>5, <1>6, <2>1, <2>2
<1>8. \A k \in 0..(n' - r' - 1) : gen'[k] = Stream(call'.seed, call'.index, n')[k]
  <2>1. n' - r' - 1 = 0 - 1
    BY <1>7
  <2>2. \A k : ~(k \in 0..(0 - 1))
    OBVIOUS
  <2> QED BY <2>1, <2>2
<1> HIDE DEF wanted
<1> QED
  BY <1>5, <1>7, <1>8 DEF Chained

\* Of the bits a call asks for, and the bytes it generates.
LEMMA BeginWidth ==
  ASSUME Kept, NEW seed, NEW index, NEW bits \in BitLengths \cup {0},
         Begin(seed, index, bits)
  PROVE  /\ GenBits(bits) \in BitLengths \cup {0} \cup {NumBits(z) : z \in Moduli}
         /\ GenBits(bits) > 0 => n' = Bytes(GenBits(bits))
<1>1. GenBits(bits) \in BitLengths \cup {0} \cup {NumBits(z) : z \in Moduli}
  BY DEF GenBits, Kept
<1>2. GenBits(bits) \in Nat
  <2>1. bits \in Nat
    BY ArgumentAssumption
  <2>2. \A z \in Moduli : NumBits(z) \in Nat
    BY NumberAssumption
  <2>3. CASE modulo = NoModulo
    BY <2>1, <2>3 DEF GenBits
  <2>4. CASE modulo # NoModulo
    <3>1. modulo \in Moduli
      BY <2>4 DEF Kept
    <3>2. NumBits(modulo) \in Nat
      BY <2>2, <3>1
    <3> QED BY <2>1, <2>4, <3>2 DEF GenBits
  <2> QED BY <2>3, <2>4
<1>3. n' \in Lengths(GenBits(bits))
  BY DEF Begin
<1> HIDE DEF GenBits
<1> QED
  BY <1>1, <1>2, <1>3 DEF Lengths

\* A turn of the loop digests what the chain has reached, and generates its
\* next bytes.
LEMMA RoundChained ==
  ASSUME PrfInv, Asking, Chained, HashRound
  PROVE  Chained'
<1> DEFINE seed == call.seed
           index == call.index
           digest == Hash(Digested)
           s == Stream(seed, index, n)
           k == Smaller(r, HashSize)
<1>1. pc = "hash" /\ seed \in AllSeeds /\ index \in AllIndices
  BY DEF HashRound, Asking, AllIndices
<1>2. /\ n \in Nat /\ r \in 0..n /\ n <= genLength /\ genLength \in Nat
      /\ HashSize \in Nat \ {0} /\ DOMAIN gen = 0..(genLength - 1)
  BY <1>1, WidthAssumption DEF PrfInv, Underway, Lengthened
<1>3. PICK j \in 0..n :
        /\ n - r = j * HashSize
        /\ \/ /\ digerible = "hashInput" /\ j = 0
              /\ len = InputLength(seed)
              /\ \A b \in 0..(len - 1) : hashInput[b] = InputByte(seed, index, b)
           \/ /\ digerible = "lastHash" /\ j > 0
              /\ lastHash = DigestAt(seed, index, j - 1)
  BY <1>1 DEF Chained
<1>4. \A i \in 0..(n - r - 1) : gen[i] = s[i]
  BY <1>1 DEF Chained
<1>5. digest = DigestAt(seed, index, j)
  <2>1. CASE digerible = "hashInput"
    <3>1. j = 0 /\ len = InputLength(seed) /\ len \in Nat
      BY <1>1, <1>3, <2>1, InputLengthNat
    <3>2. ASSUME NEW b \in 1..len
          PROVE  hashInput[b - 1] = InputByte(seed, index, b - 1)
      <4>1. b - 1 \in 0..(len - 1)
        BY <3>1
      <4> QED BY <1>3, <2>1, <4>1
    <3>3. Digested = [b \in 1..len |-> hashInput[b - 1]]
      BY <2>1 DEF Digested
    <3>4. Digested = FirstInput(seed, index)
      BY <3>1, <3>2, <3>3 DEF FirstInput
    <3> HIDE DEF seed, index
    <3> QED BY <1>1, <3>1, <3>4, DigestChain
  <2>2. CASE digerible # "hashInput"
    <3>1. digerible = "lastHash" /\ j > 0 /\ lastHash = DigestAt(seed, index, j - 1)
      BY <1>3, <2>2
    <3>2. len = HashSize /\ lastHash \in [1..HashSize -> Byte]
      BY <1>1, <3>1 DEF PrfInv, Underway
    <3>3. Digested = lastHash
      BY <2>2, <3>2 DEF Digested
    <3>4. j - 1 \in Nat /\ (j - 1) + 1 = j
      BY <1>2, <3>1
    <3> HIDE DEF seed, index
    <3>5. DigestAt(seed, index, (j - 1) + 1) = Hash(DigestAt(seed, index, j - 1))
      BY <1>1, <3>4, DigestChain
    <3> QED BY <3>1, <3>3, <3>4, <3>5
  <2> QED BY <2>1, <2>2
<1>6. k \in 0..r /\ k <= HashSize /\ (k < HashSize => k = r)
  BY <1>2 DEF Smaller
<1>7. /\ lastHash' = digest
      /\ gen' = [i \in DOMAIN gen |-> IF i \in (n - r)..(n - r + k - 1)
                                      THEN digest[i - (n - r) + 1] ELSE gen[i]]
      /\ r' = r - k /\ digerible' = "lastHash" /\ len' = HashSize
      /\ pc' = IF r' > 0 THEN "hash" ELSE "cut"
      /\ UNCHANGED <<n, call>>
  BY DEF HashRound
<1> HIDE DEF digest, k, s
<1>8. ASSUME NEW i \in 0..(n - r' - 1) PROVE gen'[i] = s[i]
  <2>1. i \in 0..(n - r + k - 1) /\ i \in DOMAIN gen /\ i \in 0..(n - 1)
    BY <1>2, <1>6, <1>7
  <2>2. CASE i \in (n - r)..(n - r + k - 1)
    <3> DEFINE d == i - (n - r)
    <3>1. d \in 0..(HashSize - 1) /\ i = (n - r) + d
      BY <1>2, <1>6, <2>2
    <3>2. gen'[i] = digest[d + 1]
      BY <1>7, <2>1, <2>2
    <3> HIDE DEF d
    <3>3. i = j * HashSize + d
      BY <1>3, <3>1
    <3>4. j \in Nat
      BY <1>2
    <3> HIDE DEF seed, index
    <3>5. s[j * HashSize + d] = DigestAt(seed, index, j)[d + 1]
      BY <1>1, <1>2, <2>1, <3>1, <3>3, <3>4, StreamBytes DEF s
    <3> QED BY <1>5, <3>2, <3>3, <3>5
  <2>3. CASE i \notin (n - r)..(n - r + k - 1)
    <3>1. i \in 0..(n - r - 1)
      BY <1>2, <1>6, <2>1, <2>3
    <3>2. gen'[i] = gen[i]
      BY <1>7, <2>1, <2>3
    <3> QED BY <1>4, <3>1, <3>2
  <2> QED BY <2>2, <2>3
<1>9. s = Stream(call'.seed, call'.index, n')
  BY <1>7 DEF s
<1>10. CASE r' > 0
  <2>1. k = HashSize /\ pc' = "hash"
    BY <1>2, <1>6, <1>7, <1>10
  <2>2. j + 1 \in Nat /\ (j + 1) * HashSize = j * HashSize + HashSize /\ j * HashSize \in Nat
    BY <1>2
  <2>3. n' - r' = (j + 1) * HashSize
    BY <1>2, <1>3, <1>7, <2>1, <2>2
  <2>4. j + 1 <= (j + 1) * HashSize
    <3>1. PICK e \in Nat : HashSize = 1 + e
      <4>1. HashSize - 1 \in Nat /\ HashSize = 1 + (HashSize - 1)
        BY <1>2
      <4> QED BY <4>1
    <3>2. (j + 1) * (1 + e) = (j + 1) + (j + 1) * e /\ (j + 1) * e \in Nat
      BY <2>2
    <3> QED BY <2>2, <3>1, <3>2
  <2>5. j + 1 \in 0..n'
    <3> DEFINE x == (j + 1) * HashSize
    <3>1. x \in Nat /\ n' - r' = x /\ j + 1 <= x
      BY <2>2, <2>3, <2>4, <1>2
    <3> HIDE DEF x
    <3> QED BY <1>2, <1>6, <1>7, <2>2, <3>1
  <2>6. j + 1 > 0 /\ lastHash' = DigestAt(call'.seed, call'.index, (j + 1) - 1)
    <3>1. j + 1 > 0 /\ (j + 1) - 1 = j
      BY <2>2
    <3> QED BY <1>5, <1>7, <3>1
  <2>7. \A i \in 0..(n' - r' - 1) : gen'[i] = Stream(call'.seed, call'.index, n')[i]
    BY <1>7, <1>8, <1>9
  <2> QED
    BY <1>7, <2>1, <2>3, <2>5, <2>6, <2>7 DEF Chained
<1>11. CASE ~(r' > 0)
  <2>1. r' = 0 /\ pc' = "cut"
    BY <1>2, <1>6, <1>7, <1>11
  <2>2. \A i \in 0..(n' - 1) : gen'[i] = Stream(call'.seed, call'.index, n')[i]
    <3>1. n - r' - 1 = n' - 1
      BY <1>2, <1>7, <2>1
    <3> QED BY <1>8, <1>9, <3>1
  <2> QED
    BY <2>1, <2>2 DEF Chained
<1> QED
  BY <1>10, <1>11

\* What follows the loop returns the number of the chain, cut to the bits.
LEMMA CutResult ==
  ASSUME PrfInv, Asking, Chained, Cut
  PROVE  ResultIsFunction'
<1> DEFINE bits == call.bits
           s == Stream(call.seed, call.index, n)
           by == n * ByteBits - bits
<1>1. pc = "cut" /\ UNCHANGED <<n, call, modulo>>
  BY DEF Cut
<1> SUFFICES ASSUME bits > 0
             PROVE  result'[1] = IF modulo = NoModulo
                                 THEN Number(s, n) % 2^bits
                                 ELSE (Number(s, n) % 2^bits) % Field
  BY <1>1 DEF ResultIsFunction
<1>2. /\ call.seed \in AllSeeds /\ call.index \in AllIndices
      /\ bits \in BitLengths \cup {0} \cup {NumBits(z) : z \in Moduli}
      /\ n = Bytes(bits)
  BY <1>1 DEF Asking, AllIndices
<1>3. bits \in Nat /\ ByteBits * Bytes(bits) \in Widths
  <2>1. \A z \in Moduli : NumBits(z) \in Nat
    BY NumberAssumption
  <2>2. bits \in BitLengths \cup {NumBits(z) : z \in AllSeeds \cup Moduli}
    BY <1>2
  <2> HIDE DEF bits
  <2> QED BY <1>2, <2>1, <2>2, ArgumentAssumption DEF Widths
<1>4. /\ n \in Nat /\ n > 0 /\ by \in 0..(ByteBits - 1)
      /\ by < IntBits /\ n <= genLength /\ genLength \in Nat /\ DOMAIN gen = 0..(genLength - 1)
  <2> HIDE DEF bits
  <2>1. n \in Nat /\ n > 0 /\ by \in 0..(ByteBits - 1)
    BY <1>2, <1>3, CutWidth
  <2> HIDE DEF by
  <2> QED BY <1>1, <2>1, WidthAssumption DEF PrfInv, Underway, Lengthened
<1>5. \A k \in 0..(n - 1) : gen[k] = s[k] /\ s[k] \in Byte
  <2>1. \A k \in 0..(n - 1) : gen[k] = s[k]
    BY <1>1 DEF Chained
  <2>2. \A k \in 0..(n - 1) : s[k] \in Byte
    BY <1>2, <1>4, StreamBytes
  <2> QED BY <2>1, <2>2
<1>6. PICK byte \in CutBytes(gen[n - 1], by) :
        /\ gen' = [gen EXCEPT ![n - 1] = byte]
        /\ result' = <<IF modulo = NoModulo THEN Number(gen', n)
                                            ELSE Number(gen', n) % Field>>
  BY DEF Cut
<1> HIDE DEF s
<1>7. byte = Shifted(s[n - 1], by)
  <2>1. CutBytes(gen[n - 1], by) = {Shifted(gen[n - 1], by)}
    BY <1>4 DEF CutBytes
  <2>2. n - 1 \in 0..(n - 1)
    BY <1>4
  <2> HIDE DEF by
  <2> QED BY <1>5, <1>6, <2>1, <2>2
<1>8. gen'[n - 1] = byte /\ \A k \in 0..(n - 2) : gen'[k] = s[k]
  <2>1. n - 1 \in DOMAIN gen /\ \A k \in 0..(n - 2) : k \in 0..(n - 1) /\ k # n - 1
    BY <1>4
  <2>2. \A k \in 0..(n - 2) : k \in DOMAIN gen
    BY <1>4
  <2>3. gen'[n - 1] = byte
    BY <1>6, <2>1
  <2>4. \A k \in 0..(n - 2) : gen'[k] = gen[k]
    BY <1>6, <2>1, <2>2
  <2> QED BY <1>5, <2>1, <2>3, <2>4
<1> DEFINE g == gen'
<1>9. Number(g, n) = Number(s, n) % 2^bits
  <2> HIDE DEF bits, g
  <2>1. /\ \A k \in 0..(Bytes(bits) - 1) : s[k] \in Byte
        /\ \A k \in 0..(Bytes(bits) - 2) : g[k] = s[k]
        /\ g[Bytes(bits) - 1] = Shifted(s[Bytes(bits) - 1], Bytes(bits) * ByteBits - bits)
    BY <1>2, <1>5, <1>7, <1>8 DEF g, bits
  <2>2. Number(g, Bytes(bits)) = Number(s, Bytes(bits)) % 2^bits
    BY <1>3, <2>1, CutNumber DEF bits
  <2> QED BY <1>2, <2>2 DEF bits
<1>10. result'[1] = IF modulo = NoModulo THEN Number(g, n) ELSE Number(g, n) % Field
  BY <1>6
<1> HIDE DEF g, bits
<1> QED
  BY <1>9, <1>10

\* A call in progress has returned nothing yet.
LEMMA Unreturned ==
  ASSUME pc' # "idle"
  PROVE  ResultIsFunction'
BY DEF ResultIsFunction

\* The start of a call, with the seed it is promised.
LEMMA BeginFunction ==
  ASSUME PrfInv, Asking, NEW seed \in AllSeeds, NEW index \in AllIndices,
         NEW bits \in BitLengths \cup {0},
         Begin(seed, index, bits), call' = Asked(seed, index, bits),
         autoSeed' = firstSeed', autoSeed' = <<>> \/ autoSeed' = <<autoSeed'[1]>>
  PROVE  FunctionInv'
<1>1. bits \in Nat /\ Kept
  BY ArgumentAssumption DEF PrfInv
<1>2. call'.seed = seed /\ call'.index = index /\ call'.bits = GenBits(bits)
  BY DEF Asked
<1>3. Chained'
  BY <1>1, <1>2, BeginChained
<1>4. /\ GenBits(bits) \in BitLengths \cup {0} \cup {NumBits(z) : z \in Moduli}
      /\ GenBits(bits) > 0 => n' = Bytes(GenBits(bits))
  BY <1>1, BeginWidth
<1>5. Asking'
  <2> HIDE DEF GenBits
  <2> QED BY <1>2, <1>4 DEF Asking, AllIndices
<1>6. pc' = "hash"
  BY DEF Begin
<1> QED
  BY <1>3, <1>5, <1>6, Unreturned DEF FunctionInv

LEMMA NextFunction == PrfInv /\ FunctionInv /\ [Next]_vars => FunctionInv'
<1> SUFFICES ASSUME PrfInv, FunctionInv, [Next]_vars PROVE FunctionInv'
  OBVIOUS
<1>0. Kept /\ Asking /\ Chained /\ ResultIsFunction
  BY DEF PrfInv, FunctionInv
<1>1. ASSUME NEW seed \in Seeds, NEW index \in Indices, NEW bits \in BitLengths,
             Generate(ToSeed(seed), index, bits)
      PROVE  FunctionInv'
  <2>1. ToSeed(seed) \in AllSeeds /\ index \in AllIndices
    BY <1>0, SeedsOccur DEF AllIndices
  <2>2. /\ Begin(ToSeed(seed), index, bits) /\ UNCHANGED <<autoSeed, firstSeed>>
        /\ call' = Asked(ToSeed(seed), index, bits)
    BY <1>1 DEF Generate, auto
  <2>3. autoSeed' = firstSeed' /\ (autoSeed' = <<>> \/ autoSeed' = <<autoSeed'[1]>>)
    BY <1>0, <2>2 DEF Asking
  <2> QED BY <1>0, <2>1, <2>2, <2>3, BeginFunction
<1>2. ASSUME NEW index \in AllIndices, NEW bits \in BitLengths \cup {0},
             WithAutoSeed(index, bits)
      PROVE  FunctionInv'
  <2>1. PICK seed \in AutoSeeds :
          /\ autoSeed' = <<seed>> /\ Begin(seed, index, bits)
          /\ firstSeed' = IF firstSeed = <<>> THEN <<seed>> ELSE firstSeed
          /\ call' = Asked(firstSeed'[1], index, bits)
    BY <1>2 DEF WithAutoSeed
  <2>2. seed \in AllSeeds
    BY <1>0, <2>1, SeedsOccur
  <2>3. firstSeed' = <<seed>>
    <3>1. CASE autoSeed = <<>>
      BY <1>0, <2>1, <3>1 DEF Asking
    <3>2. CASE autoSeed # <<>>
      <4>1. autoSeed = firstSeed /\ autoSeed = <<autoSeed[1]>> /\ seed = autoSeed[1]
        BY <1>0, <2>1, <3>2 DEF Asking, AutoSeeds
      <4> QED BY <2>1, <3>2, <4>1
    <3> QED BY <3>1, <3>2
  <2>4. <<seed>>[1] = seed
    OBVIOUS
  <2>5. call' = Asked(seed, index, bits)
    BY <2>1, <2>3, <2>4
  <2>6. autoSeed' = firstSeed' /\ autoSeed' = <<autoSeed'[1]>>
    BY <2>1, <2>3, <2>4
  <2> QED BY <1>0, <2>1, <2>2, <2>5, <2>6, BeginFunction
<1>3. ASSUME NEW index \in Indices, NEW bits \in BitLengths, GenerateIndex(index, bits)
      PROVE  FunctionInv'
  BY <1>2, <1>3 DEF GenerateIndex, AllIndices
<1>4. CASE GenerateAny
  <2>1. autoIndex \in AllIndices
    BY <1>0 DEF Kept, AllIndices
  <2> QED BY <1>2, <1>4, <2>1 DEF GenerateAny
<1>5. ASSUME NEW m \in Moduli, SetModulo(m) PROVE FunctionInv'
  <2>1. /\ pc = "idle" /\ pc' = "idle" /\ modulo # NoModulo /\ modulo' = m
        /\ UNCHANGED <<n, call, result, autoSeed, firstSeed>>
    BY <1>5 DEF SetModulo, auto
  <2>2. modulo' # NoModulo
    BY <2>1, ArgumentAssumption
  <2>3. ResultIsFunction'
    BY <1>0, <2>1, <2>2 DEF ResultIsFunction
  <2> QED BY <1>0, <2>1, <2>3 DEF FunctionInv, Asking, Chained
<1>6. CASE HashRound
  <2>1. UNCHANGED <<autoSeed, firstSeed, call, n>> /\ pc = "hash" /\ pc' # "idle"
    BY <1>6 DEF HashRound, auto
  <2>2. Asking'
    BY <1>0, <2>1 DEF Asking
  <2> QED BY <1>0, <1>6, <2>1, <2>2, RoundChained, Unreturned DEF FunctionInv
<1>7. CASE Cut
  <2>1. UNCHANGED <<autoSeed, firstSeed>> /\ pc' = "idle"
    BY <1>7 DEF Cut, auto
  <2> QED BY <1>0, <1>7, <2>1, CutResult DEF FunctionInv, Asking, Chained
<1>8. CASE UNCHANGED vars
  BY <1>8 DEF vars, FunctionInv, Asking, Chained, ResultIsFunction
<1> QED BY <1>1, <1>3, <1>4, <1>5, <1>6, <1>7, <1>8 DEF Next

LEMMA InitFunction == Init => FunctionInv
BY DEF Init, FunctionInv, Asking, Chained, ResultIsFunction

LEMMA FunctionAlways == Spec => [](PrfInv /\ FunctionInv)
<1>1. Init => PrfInv /\ FunctionInv
  BY InitKeeps, InitFunction
<1>2. PrfInv /\ FunctionInv /\ [Next]_vars => PrfInv' /\ FunctionInv'
  BY NextKeeps, NextFunction
<1> QED BY <1>1, <1>2, PTL DEF Spec

\* What a call returns depends on its seed, its index and its number of bits
\* only: for every hash, every width and every sequence of calls, none of which
\* shows in the result of a later one; a call without a seed has the first
\* seed drawn for such a call.
THEOREM ResultAlwaysFunction == Spec => []ResultIsFunction
  BY FunctionAlways, PTL DEF FunctionInv

\* Two calls whose seed or index differ never hash the same bytes first, though
\* a seed has no fixed length.
THEOREM InputsAlwaysApart == Spec => []InputsApart
<1>1. ASSUME PrfInv, FunctionInv, pc = "hash", digerible = "hashInput",
             NEW seed \in Seeds, NEW index \in Indices,
             [k \in 1..InputLength(seed) |-> InputByte(seed, index, k - 1)] = Digested
      PROVE  seed = call.seed /\ index = call.index
  <2> DEFINE y == call.seed
             i == call.index
             m == BytesOf(seed)
  <2>1. y \in AllSeeds /\ i \in AllIndices /\ seed \in AllSeeds /\ index \in AllIndices
    BY <1>1 DEF FunctionInv, Asking, AllIndices, AllSeeds
  <2>2. /\ len = InputLength(y)
        /\ \A k \in 0..(len - 1) : hashInput[k] = InputByte(y, i, k)
    BY <1>1 DEF FunctionInv, Chained
  <2>3. Digested = [k \in 1..len |-> hashInput[k - 1]]
    BY <1>1 DEF Digested
  <2>4. InputLength(seed) \in Nat /\ len \in Nat
    BY <2>1, <2>2, InputLengthNat
  <2>5. 1..InputLength(seed) = 1..len
    BY <1>1, <2>3
  <2>6. InputLength(seed) = len
    BY <2>4, <2>5
  <2>7. ASSUME NEW k \in 0..(len - 1) PROVE InputByte(seed, index, k) = InputByte(y, i, k)
    <3>1. k + 1 \in 1..len /\ (k + 1) - 1 = k
      BY <2>4
    <3>2. Digested[k + 1] = hashInput[k]
      BY <2>3, <3>1
    <3>3. Digested[k + 1] = InputByte(seed, index, k)
      BY <1>1, <2>6, <3>1
    <3> QED BY <2>2, <3>2, <3>3
  <2> HIDE DEF y, i
  <2>8. /\ m \in Nat /\ BytesOf(y) = m /\ len = m + IndexBytes
        /\ seed \in Nat /\ y \in Nat /\ index \in Nat /\ i \in Nat
        /\ IndexBytes \in Nat
    <3>1. IndexBytes \in Nat /\ m \in Nat /\ BytesOf(y) \in Nat /\ seed \in Nat /\ y \in Nat
      BY <2>1, SeedFits, WidthAssumption
    <3>2. len = m + IndexBytes /\ len = BytesOf(y) + IndexBytes
      BY <2>2, <2>6 DEF InputLength
    <3>3. index \in Nat /\ i \in Nat
      BY <2>1, ArgumentAssumption DEF AllIndices
    <3> QED BY <3>1, <3>2, <3>3
  <2>9. seed = y
    <3>1. \A k \in 0..(m - 1) : ByteAt(seed, k) = ByteAt(y, k)
      <4> SUFFICES ASSUME NEW k \in 0..(m - 1) PROVE ByteAt(seed, k) = ByteAt(y, k)
        OBVIOUS
      <4>1. k \in 0..(len - 1) /\ k < m
        BY <2>8
      <4> QED BY <2>7, <2>8, <4>1 DEF InputByte
    <3>2. ByteBits * m \in Widths /\ seed < 2^(ByteBits * m) /\ y < 2^(ByteBits * m)
      BY <2>1, <2>8, SeedFits
    <3> QED BY <2>8, <3>1, <3>2, OneNumber
  <2>10. index = i
    <3>1. \A k \in 0..(IndexBytes - 1) : ByteAt(index, k) = ByteAt(i, k)
      <4> SUFFICES ASSUME NEW k \in 0..(IndexBytes - 1) PROVE ByteAt(index, k) = ByteAt(i, k)
        OBVIOUS
      <4>1. m + k \in 0..(len - 1) /\ ~(m + k < m) /\ (m + k) - m = k
        BY <2>8
      <4> QED BY <2>7, <2>8, <4>1 DEF InputByte
    <3>2. /\ ByteBits * IndexBytes \in Widths
          /\ index < 2^(ByteBits * IndexBytes) /\ i < 2^(ByteBits * IndexBytes)
      BY <2>1, NumberAssumption DEF AllIndices, Widths
    <3> QED BY <2>8, <3>1, <3>2, OneNumber
  <2> QED BY <2>9, <2>10 DEF y, i
<1>2. PrfInv /\ FunctionInv => InputsApart
  BY <1>1 DEF InputsApart
<1> QED BY FunctionAlways, <1>2, PTL
=============================================================================
