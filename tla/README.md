# Verification of EO-PSI

EO-PSI is a C++ library (`src/src/libeopsi`) and a set of programs
(`src/src/test`) for *efficient outsourced private set intersection*: two
clients outsource blinded sets to a cloud, and one of them learns the
intersection with the help of the other and of the cloud.  This directory holds
TLA+ modules translated from that code, TLC configurations that check small
instances, and proofs checked by TLAPS.

## 1. The system

| component | source | state | operations |
|---|---|---|---|
| `EOPSIParty` | eopsiparty.cpp | `parties` (map id -> pointer), `unknowns`, `zzprf` | `authenticate`, `hasAuthenticated`, `send`, `computeTOrQ`, `getUnknowns` |
| `EOPSIClient` | eopsiclient.cpp | `rawData`, `blindedData`, `secret`, pointers `t` and `q`, `setcap`, `msgToCloud`, `msgToClient`, `bm` | `receive`, `isAuthorised`, `setRawData` (blinds), `setSecret`, `delegationOutput`, `intersect` |
| `EOPSIServer` | eopsiserver.cpp | `storedData` (map id -> pointer to message), `msgToClient`, `bm` | `receive`, `isAuthorised`, `intersectionOutput` |
| `EOPSIMessage` | eopsimsg.cpp | type, sender id, data pointer | getters and setters |
| application | eopsisimul.cpp | messages and data it owns | `randomData`, `join`, `authentication`, outsourcing, request, `intersect`, `checkIntersectionCorrectness` |
| `HashBuckets`, `HashTable`, `MarkedVector` | *.hpp | k buckets, `maxLoad`, marks, hash algorithm | `add`, `addToBucket`, `conceal`, `setHashAlgorithm`, `getBucket`, `size` |
| `SimpleBenchmark` | simplebm.cpp | readings, pause flags, cursors, `stopped` | `start`, `step`, `pause`, `cont`, `stop`, `reset`, statistics |
| `StrInt` | strint.cpp | cells `b`, number `z` | `set`, `add`, `inc`, `rem`, `lsb`, `toBytes` |
| exceptions | exception.cpp, outofboundex.cpp, protocolex.h | - | a fatal one ends the process in its constructor |
| `ZZPRF`, `ZZpPRF`, `PseudoRandom` | zzprf.cpp, zzpprf.cpp, prf.hpp | two buffers and their lengths, the digest of the hash algorithm, `modulo`, `autoSeed`, `autoIndex` | `generate`, `setModulo` |
| `ZZpPolynomials` | zzppoly.cpp | `n`, the arrays `polynomials` and `factorPairs`, the roots | `interpolate`, `makeMonic`, `factorise`, `findIntersection` |
| `MurmurHash3`, SHA classes | murmurhash3.cpp, sha*.cpp | digest buffer | `hash` |
| NTL helpers | ntlmiss.cpp | - | `zeroPad`, `countLeadingZeros`, `bytes`, ... |
| test programs | bptest, cherpars, hbtest, polyfact, zzrndgen | - | time and print the components |

**How they interact.**  There is one thread: `blind()` fixes the number of
threads at one, and `send(party, msg)` *calls* `party.receive(msg)`.  A session
is therefore a nest of calls:

    application -> helper.receive(CLIENT_COMPUTATION_REQUEST)
                     -> cloud.receive(CLOUD_COMPUTATION_REQUEST)
                          -> requester.receive(OUTPUT_COMPUTATION)   (t)
                     -> requester.receive(POLYNOMIAL)                (q)

Memory changes hands along it.  The helper allocates the data of the request,
the cloud deletes it; the cloud allocates `t` and the helper `q`, the requester
deletes both; the cloud stores pointers to messages the application owns.

**What is hard.**  Control returns to a `receive()` after other parties ran
inside it; a matrix is released by a party that did not allocate it; members
keep pointers to what is released; authorisation depends on which parties know
each other, and nothing checks that the parties a request needs are set up; an
exception may unwind the session or end the process.  There are no lost,
reordered or duplicated messages, no crashes to recover from and no timeouts:
nothing is persisted and nothing runs concurrently.  `PROJECT.json` lists each
hazard at its line with the properties that cover it; where a run keeps a hazard out
by a promise of the application (section 2), it says so instead.

**What makes each component correct.**  Client and server: no released, null or
missing object is used; each allocation is released once; the requester, and
nobody else, learns the intersection; a misplaced message changes nothing; every
call returns.  Table: no bucket above `maxLoad`, all full once concealed, one
bucket for an element whose hash has one remainder, no element lost.  Chronometer:
its three containers agree, and it counts the whole microseconds between readings
when it is not paused.
Number: what the cells held before never shows.  Arithmetic of a session: cloud
and helper, which never see each other's matrix, draw the same blinding values
for the same cells, no value serves twice, and `t - q` is free of all of them, so
that every element both clients put in the same bucket comes out.  Pseudorandom function: a value depends on
seed, index and length alone, not on what earlier calls left in the buffers.
Polynomials: the array of polynomials always has the length `n` says, that of the
factors is long enough when it is used, and the roots are those of the present
batch.

## 2. Modules

| module | models | extends / instantiates |
|---|---|---|
| `EOPSI` | clients, servers, messages, calls, memory, the application | - |
| `IdealPSI` | what a set intersection promises to the clients | - (instantiated by `EOPSI`) |
| `EOPSIPhases` | the phases of a session, `ContractInv`, `NestInv` | `EOPSI` |
| `MCEOPSI` | small instances | `EOPSIPhases` |
| `EOPSIProofs` | theorems for any use, theorems under the promises, the refinement | `EOPSIPhases`, `Induction` |
| `Blinding` | the numbers of a session: padding, tables, matrices, `t - q`, roots | - |
| `Simulation`, `MCSimulation` | the program `eopsisimul` around `Blinding`; a small field | `Blinding`, `Sums` |
| `BlindingProofs` | theorems about sessions and about the program, for any field, matrix and pseudorandom function | `Simulation`, `Induction` |
| `ZZPRF`, `MCZZPRF` | the pseudorandom function and its buffers; a small hash | `Sums` |
| `ZZPRFProofs` | theorems for any sequence of calls | `ZZPRF`, `Induction` |
| `Polynomials`, `MCPolynomials` | the arrays of `ZZpPolynomials`; small batches | - |
| `PolynomialsProofs` | theorems for any use and for calls where the header allows them | `Polynomials` |
| `HashBuckets`, `MCHashBuckets` | the hash table, a small instance | - |
| `HashBucketsProofs` | theorems for any use and for a client's use | `HashBuckets` |
| `SimpleBenchmark` | the chronometer | `Sums` |
| `Stopwatch` | what a chronometer promises | - (instantiated by `SimpleBenchmark`) |
| `SimpleBenchmarkProofs` | theorems for any sequence of operations | `SimpleBenchmark`, `Induction` |
| `StrInt` | the number made of a hash | `Sums` |
| `StrIntProofs` | theorem for any number of cells and any sequence of operations | `StrInt`, `Induction` |
| `Sums` | the sum a loop makes | - |
| `Induction` | lemmas: induction, recursive functions, sums | `Sums` |

### EOPSI

`stack` is the C++ call stack of the active `receive()` calls.  A frame holds
the party, the message, and where the call waits: `pc = "enter"` at its
beginning, `"cloud"` and `"poly"` at the two `send()` of a helper, `"output"` at
the `send()` of the cloud.  An action is the code from one of these points to the
next: `ReceiveClientRequest` is eopsiclient.cpp:88-154, `SendPolynomial`
159-173, `ReceiveCloudRequest` eopsiserver.cpp:44-70, `DeleteRequestData` the
line after it, and so on; `PROJECT.json` maps each.

Objects on the heap are records that say what their contents were computed from
(the temporary key, whose data, whether with the secrets that blinded it).
A pointer *is* the record; it dangles when the record is not in `heap`.
Temporary keys are numbered: a key is 128 fresh random bits, and two are taken
to differ.  `Unblinds(q, t)` says when `t - q` leaves the plain combination of
the two polynomials: same key, same pair, right secrets; `MasksCancel` of
`Blinding` is what it stands for.  `Found` is what `findIntersection` then keeps.  A random root whose low bits are all zero is
taken for an element by the code with a probability the padding makes small;
the model takes it for none.

`outcome` is `"exit"` where the code calls `exit()`, `"undefined"` where it
follows a null pointer or uses released memory.  A read beyond the message
(`ReadsSecret` of a secret of less than two bytes) is a nondeterministic choice.

The application (`Application`) authenticates one pair or all parties, sets raw
data, sets a secret, outsources with an envelope of its own, requests, and sends
messages the protocol has no place for (`SendMisplaced`).  It does not itself
send the two messages that parties send each other inside a session.

**Promises.**  Some properties need an application that uses the library
properly, and nothing in the code enforces it.  `Promises` is a constant, the
set of promises kept:

| promise | meaning | what happens without it |
|---|---|---|
| authenticated | the parties of a session know each other; a sender is known | null pointer (eopsiclient.cpp:225, eopsiserver.cpp:70) |
| outsourced | both clients' blinded data is at the helper's first server | null pointer (eopsiserver.cpp:144) |
| ownEnvelope | a message stored at a server is not used for another client | the wrong data is intersected |
| keptSecret | a secret is not set again after blinding | the noise does not cancel |
| secretFits | a requester's secret has 2 or 3 bytes | finding 2 |
| fresh | a requester has neither requested nor helped before | finding 1 |
| nonzero | 0 is not common | a common 0 is never found (zzppoly.cpp:227) |

A run with a promise cannot find what the promise keeps out.  The null pointers of
eopsiclient.cpp:225 and eopsiserver.cpp:142, the envelope used twice
(eopsiserver.cpp:79), the secret set again, and data sent to a server the helper does
not ask (eopsiclient.cpp:135) are plain from those lines and are not found by any run;
findings 1 and 2 are the runs without `fresh` and without `secretFits`.

*Data set twice.*  `blind()` conceals the table, which leaves every bucket full;
a second `setRawData` with a hash algorithm overflows and ends the process.
`SetRawData` may end it on a first call too, when too many elements share a
bucket.

### Blinding and Simulation

One session, number by number.  `SetRawData` is `blind()`: it pads each element
(`ZeroPad`, with the width of `size_t`), puts it in a bucket, fills the buckets
with random elements, and gives `blinded[c]`, the masked values of one polynomial
per bucket at the evaluation points.  `Request` begins the cloud's `computeTOrQ`
on the two blinded matrices; `DelegationOutput` begins the helper's on the two
matrices of masks; `SendQ` ends it and `Intersect` takes `t - q`, interpolates
and unpads.  `computeTOrQ` itself is a loop: `GenOmegas` at the head of a row,
`ComputeCell` for a cell, `NextRow`.  It is not one step, because what can go
wrong is the counting: each number is drawn from the temporary key with an index
(`row * Degree + col` for the mask of a cell, and two ranges beyond for the
coefficients of the omega polynomials).  `drawn` records which number each index
was drawn for.

*The bucket of an element* is not a function of it.  `MurmurHash3::hash` gives the
hash four times the length of the string (murmurhash3.cpp:460), so that the bytes
behind it count, which differ from client to client and call to call.  `Buckets` is a
set of remainders, as `Indices` is in `HashBuckets`; `Placements` are the choices
the hash may make for a client's data, and `placed` remembers the one it made.
`CommonFound` is therefore about the elements both clients put in the same bucket.
`EveryCommonFound`, about all the common ones, does not hold (finding 3).

The ring, evaluation, interpolation and the pseudorandom function are constants,
and `RingAssumption`, `EvalAssumption`, `InterpolationAssumption` and
`PrfAssumption` say all that is taken of them; `MCSimulation` gives them for a
small prime, where TLC evaluates the assumptions.  Of interpolation that is: with
more evaluation points than the degree of the polynomial, all of them different,
every root of the polynomial is among the roots found.  Whether the points differ
(`PointsDiffer`) is up to the pseudorandom function, and the code does not look.
The helper is taken to read the requester's secret whole: `EOPSI` has what happens
otherwise (`ReadsSecret`).

`Simulation` adds the program around a session: `Generate` draws common and own
data of each client (an element drawn twice is allowed, as in the code),
`OutsourceAlice`, `OutsourceBob` and `RequestBob` are the calls of `main()`, and
`Check` compares the vector of roots with the plain intersection, as the program
does before it prints its verdict.  The plain intersection is made by the
program's own way: both data are joined and sorted (`Sorted`, by whatever
permutation puts them in order), and one pass keeps an element that equals the one
before it and not the one last kept (`Repeated`).

### ZZPRF

`gen` and `hashInput` are the two buffers, functions from 0 so that an index is
that of the C++ array; a new buffer holds `Garbage`.  A call is `Begin` (the code
up to the loop: both buffers may be replaced, seed and index are written), one
`HashRound` per digest, and `Cut` (the bits too many, and the conversion).  The
loop is in steps so that a byte is looked at when it is read.  `ShiftedInt` and
`IntBits` keep the promotion of a byte to `int`: a shift by the width or more is
undefined and gives either outcome.  `autoSeed` is the seed of calls without one,
drawn once; `firstSeed` is history.  A `ZZpPRF` is a `ZZPRF` with a `modulo`.

### Polynomials

A pointer is `Null` or `<<array>>`; a polynomial is the row it was interpolated
from, with a flag that it is monic.  Each action is an operation of the class;
`Covers` is whether the loop stays inside the array, and `pc` becomes `"undefined"`
where it does not.  It becomes `"ended"` where NTL ends the process: at the
factorisation of a polynomial that is not monic, and at the interpolation of a row
it refuses (`Refuses`: a point twice, or a row and points of different lengths).
`findIntersection(x, y, n)` goes row by row, so that one of the two endings may come
before a row that has no place in the arrays is reached (`Room`).

`ordered` is whether the application makes each call where zzppoly.h allows it:
`makeMonic()` after `interpolate()`, `factorise()` after `makeMonic()`,
`findIntersection()` after `factorise()`, as its warnings ask (lines 82, 102, 111), and
`interpolate()` and `findIntersection(x, y, n)` anywhere, as it has no warning for
them.  The code does not check any of it.  `PolynomialsFit` is stated for any use.
Under `ordered`, what can be undefined is one call only, and
`UndefinedOnlyUnfactorised` says which (finding 4 is that it can); `RootsOfBatch`
and `EndsForBadRows` say what is given and when the process ends.

### HashBuckets

`buckets`, `marked` and `algorithm` are the members; `added` and `concealed` are
history.  A hash algorithm is the set of remainders it may give for an element
(`Indices`): one for a hash of the element, any for `MurmurHash3`, which reads
beyond the string (murmurhash3.cpp:460).  `client` is whether the application uses
the table as a client does, with a hash algorithm from the beginning and without
`addToBucket()`; the four properties that need it say so.  `FatalOutOfBound` is the constructor of the
exception, which ends the process before anything can catch it.

### SimpleBenchmark

Positions are those of the C++ vectors.  `pauses` has one flag more than
`times`: `pauses[i]` says whether the interval that *ends* at reading i was a
pause.  The clock never goes back.  It counts nanoseconds, and
simplebm.cpp:60, 237 and 243 cut each duration to microseconds on their own:
`Microseconds`, of a clock with `Microsecond` units in one.  Readings at 0, 1500
and 3000 ns give 2 us where 3 have passed; `LapsConsistent` bounds what is lost, and
`Stopwatch` loses as much.  `average()` calls
`cumulativeBenchmark(false)`, where `false` becomes the cursor 0, and so is the
time without pauses; the model follows that overload.

### StrInt

The cells keep their old contents between two `set()`; `Summed` is the loop that
adds them in halves.  A byte has `ByteBase` values.  `toBytes()` compares a number
of bytes with a number of bits and ends the process on most numbers.

## 3. Runs

| run | question | bounds |
|---|---|---|
| `eopsi_contract` | With every promise kept: no undefined behaviour, right answers, own data, every request answered, `IdealPSI` implemented, `ContractInv` | 3 clients, 1 server, 3 envelopes, 3 requests: a third client makes roles change (helper, requester, bystander) and lets two sessions share the cloud's data; each client can request once |
| `eopsi_anyuse` | With no promise: no reentrance, nothing leaks, exceptions are clean, misplaced messages have no effect, only the requester learns, calls return | 2 clients, 1 server, 2 envelopes that may be shared, 2 requests, 4 pairs authenticated separately (or all at once): a helper may know no cloud, a cloud either client or none, a requester may be unknown |
| `simulation` | Every data of both clients: masks cancel, no index twice, every element in the same bucket of both found, the verdict right | field of 23 (5 bits), elements of 2 bits, 2 buckets of 2, 5 evaluation points (one more than twice the load, as the programs take), `size_t` of 4 bits, 2 temporary keys, 2 elements for each client: equal, disjoint, partly common and repeated elements all occur, and so do full, half full and empty buckets; one element of the four may go to either bucket; 243,967 states |
| `prf` | Sequences of calls with and without seed, of a plain function and of one in a field: buffers suffice, a value depends on its arguments only, inputs are apart | bytes of 2 bits, digests of 3 bytes, indices of 2 bytes, seeds of 0, 1 and 3 bytes, lengths of 0, 3, 4 and 9 bits: a call needs one or two digests, grows either buffer or neither, and cuts or does not; 236,621 states |
| `polynomials` | Any operations in any order, and those where the header allows them | batches of 0 to 3 rows, some with a row of zeros, a point that comes twice or a row of another length: arrays grow, shrink and stay; 17,778 states |
| `hashbuckets` | The table as a client uses it, and any operation in any order | 3 buckets of 2, 4 elements of which 2 collide and one may go anywhere, 5 additions: overflow, empty, partial and full buckets all occur; 1,005,068 states |
| `benchmark` | Every sequence of operations; `Stopwatch` implemented | 5 readings, clock up to 5, 2 units to a microsecond, 2 names: a rest is lost or not at every reading; 141,384 states |
| `strint` | Every sequence of operations on a number | 5 cells, strings up to 6 bytes: odd, even and truncated |

Deadlock is not checked where the system may stop: a bound is reached, or the
process has ended.  `benchmark` checks it.

**Fairness.**  `Spec` of `EOPSI` has weak fairness of `Handle` alone, the code
inside a call the application has made: the thread keeps running.  Nothing is
assumed of the application, which may never make another call.  `CallsReturn`
holds without promises, where a call may also end the process;
`RequestsAreAnswered` and `ImplementsIdealPSI` need them.

**Findings**, each shown by a run that must end in a violation:

1. `eopsi_secondrequest` - `t` and `q` are deleted but not reset, and a helper
   keeps its `q`: the next session of that client uses released memory.
2. `eopsi_longsecret` - the helper reads three bytes of a secret of any length.
   The default secret has twelve.
3. `simulation_missed` - the hash of an element reads what lies behind its string: the
   two clients put it in different buckets and the session misses it.
4. `polynomials_headerorder` - `findIntersection(x, y, n)`, of which the header asks no
   order, after `interpolate()` of `n` rows: it keeps both arrays because `n` is the
   same, and one of them is null, or of an earlier batch and too short.

**Other differences** between documents and code, seen while modelling, which
need no model checker to be believed:

- Parties: a client dereferences a sender it does not know (eopsiclient.cpp:225),
  where the server refuses it.
- Elements: a common element 0 is never found, as `NumTwos(0)` is 0
  (zzppoly.cpp:227).  eopsisimul.cpp:294 accepts a field of as many bits as an
  element although its message asks for more: `padSize()` then wraps and nothing
  is found.  `randomData()` does not end when more elements are asked for than
  there are of that many bits.  Its second draw may repeat an element of the
  first; the warning at eopsisimul.cpp:85 is harmless in `main()`, where such an
  element is always common.
- Evaluation points: `getUnknowns(n)` ignores every `n` after the first.
- Table: `addToBucket()` and an `add()` without hash algorithm do not respect
  `maxLoad`; `HashTable::size()` is always 0.
- `ZZpPolynomials` used against the warnings of its header: `interpolate` of few,
  `factorise`, `interpolate` of more and `findIntersection()` reads beyond
  `factorPairs`; `interpolate` of the same `n` again and `findIntersection()` returns
  the roots of the old polynomials.
- `ZZPRF::generate` with 0 bits makes a number of a random length and then shifts
  its last byte by as many bits, which is undefined from the width of an `int`
  on.  Copying a `ZZPRF` into a `ZZpPRF` shares its buffers (zzpprf.cpp:19); nobody
  does.
- Chronometer: `reset()` does not restore `stopped`; `average(false)` is 0, as
  the intervals are counted over an empty range (simplebm.cpp:255); a reading just
  after a pause does take a cursor (simplebm.cpp:147) although a warning says that
  it is impossible; `benchmark()` with one reading reads the element before the
  first (simplebm.cpp:217).
- `StrInt`: `set()` of no bytes keeps the first cell; `lsb()` divides by 2^64 - 1
  and looks at the first cell; `getByteSize()` counts bits.
- `zeroPadTo` (ntlmiss.cpp), which nothing calls, shifts by one bit less than its
  argument.
- Test programs: `bptest` appends its points to a vector that already has their
  number of elements; `zzrndgen` and `polyfact` take `i % (n/10)`, a division by
  zero for `n` below ten.

## 4. Proofs

Checked by TLAPS for every value of the constants, under the named `ASSUME`s of
the modules, which TLC evaluates in the runs:

- `EOPSI`: clients and servers are disjoint sets, no two parties compare equal,
  data are sets of naturals, `Null` is no object and no pending request
  (`NullAssumption`, `NoRequestAssumption`).
- `Blinding`: the field has as many bits as `fieldbitsize` says, and a `size_t`
  counts them (`FieldAssumption`); it is a ring as far as `RingAssumption` says;
  the value of a polynomial is a number, 0 at a root (`EvalAssumption`); the
  pseudorandom function returns numbers (`PrfAssumption`); a bucket has no more
  elements than there are evaluation points (`DegreeAssumption`); elements have
  their number of bits, and the hash gives every one some bucket (`InputAssumption`);
  `InterpolationAssumption` as above.
- `Simulation`: two clients, at least one element, not longer than a number of the
  field, as the program makes sure of (`SimulationAssumption`).
- `ZZPRF`: a digest has `HashSize` bytes (`HashAssumption`); the bytes of a number
  are bytes, and it has the bits `NumBits` says (`NumberAssumption`).
- `HashBuckets`: at least one bucket, a random element is no element of the client,
  every element has a remainder.
- `Polynomials`: batches are sequences (`BatchAssumption`).
- `SimpleBenchmark`: a microsecond is at least one unit of the clock
  (`MicrosecondAssumption`).
- The number of readings, and that of additions, is bounded by a natural number
  (`BoundAssumption`).
- `PowerAssumption` of `Blinding`, `ZZPRF` and `StrInt`: powers are natural numbers
  (and each of two is twice the one before), of which the provers know nothing.

**`Induction`.**  The library's induction theorems take a formula as a parameter,
which no prover here can instantiate.  `SmallestNat` is what first-order logic
needs of them: a set of numbers that is not empty has a smallest element, from the
well-foundedness of `<`.  `AllNat` is induction with a *set* in place of the
formula, `{n \in Nat : P(n)}`.  A recursive function is defined by `CHOOSE`, so that
it must first be shown that there is one (`RecursiveExists`: the union of the
functions on `0..m`) and that there is no other (`RecursiveUnique`).  On these rest
the lemmas on `SumTo` (`SumNext`, `SumSame`, `SumLess`, `SumSplit` and so on), and the
proofs about the loops of the code.

**`EOPSIProofs`, whatever the application does** (no promise, any pairs, no bound
on sessions):

- `TypeCorrect`, `Spec => []TypeOK`.  `TypeOK` is not inductive: a handler takes
  its result from the message on the stack, so that the type of what it stores
  depends on the message.  `TypeInv` adds `FrameOK`, the shape of every frame
  of the stack: which messages have a body, and where a frame can wait.  The
  lemmas on the stack (`SendStack`, `ReturnStack`, `CallStack`, `TopFrame`) say
  what a `send()` and a return leave of it; one lemma per action follows.
- `StoredKnown`, `Spec => []StoredAreKnown`: a server keeps data of parties it
  knows.  The step that stores has checked it, and nothing takes a party out of
  `parties`.
- `MisplacedIneffective`, `Spec => MisplacedHasNoEffect`: the only actions a
  misplaced message at the top of the stack enables are those that refuse it
  (`Dispatch`).

Also whatever the application does: `NeverReentrant`, `NeverLeaks`,
`ExceptionsClean` and `RequesterAloneLearns`.  None is inductive: that nothing is
left allocated when a call returns depends on who owns what while it ran.
`NestInv` says, for each point of any session, between any two clients and over
any server, what the whole stack is and which object of the heap belongs to which
frame or pointer (`AnyPhase`), without asking that the parties know each other or
that the data is right.  A session that fails halfway would leave its objects
behind; the invariant holds because nothing in a session can be refused without
ending the process.

**`EOPSIProofs`, under every promise** (`ASSUME Promises = PromiseNames`, in each
theorem, for every set of clients, servers and envelopes and any number of
sessions):

- `ContractCorrect`, `Spec => [](TypeInv /\ ContractInv)`.  That the requester does
  not use a matrix that was released depends on who allocated it, two calls
  further down.  `EOPSIPhases` therefore writes out, for each of the points where
  a session can be, the whole stack, the whole heap and the requester's two
  pointers; `SomePhase` is their disjunction, and a `...Step` lemma for each phase
  shows that the one handler enabled leads to the next phase.  `Session(a, b)` is
  what a request's promises have established and no call takes away.
- `ContractNeverUndefined`, `ContractStoredIsOwn` and `ContractAnswerCorrect` follow
  from it: nothing dangles, the pointers of the cloud lead to each client's own
  data, and the requester holds the intersection when its request returns.
- `ContractMatches`: a requester that receives its `t` holds no `q` of an earlier
  session.  Without the promise `fresh` it does (finding 1).
- `ContractRefines`: the parties implement the steps of `IdealPSI`.  `Pending` and
  `Answers` are the abstract state.  A request of the application is `Ask`
  (`ApplicationRefines`), a misplaced one is `Refuse` (`CallRefines`), and of a
  session's seven steps the requester's last is `Learn`, the helper's return is
  `Finish`, and the others change nothing a client can see (`SessionRefines`).
  The fairness of `IdealPSI` is in the run `eopsi_contract` alone.

**`BlindingProofs`**, for every field, matrix, number of clients and secrets:

- `TypeCorrect`; `EachIndexOnce`, that no index serves two numbers of one
  computation; `MasksCancelAlways`, that `t - q` is the plain combination.
- `BlindInv` is inductive.  `Counted` says that `aIdx` counts the cells and that
  each index drawn is for the number it should be; that the three ranges of
  indices are apart is then arithmetic, and is where `Height <= Degree` is used.
  `SessionInv` says of every cell computed so far what it is made of, by the cloud
  and by the helper; both use the same points (`PointsAgree`), and the cloud's
  matrices are the tables' values and masks (`BlindedFromTable`).  Cell by cell
  the masks then cancel by `RingAssumption`.
- `CommonAlwaysFound`, `Spec => []CommonFound`, where an element with its padding fits
  the field (`PaddingFits`) and the points are enough and different.  `FindInv` adds to
  `BlindInv` that the table of an outsourced client holds its data, each element in
  the bucket it was placed in (`DataInTable`), and that the answer is what is found in
  `t - q` (`FoundInDifference`).  An element of the same bucket of both clients is then
  a root in the same row of both tables, of each product with an omega, and of their
  sum, which is what `t - q` holds; and the padding of an element is what
  `Found` looks for, whatever the width of a `size_t` (`PaddedFound`).
- `SimulationIsSession`, `SimSpec => Spec`: the program runs a session, so that all of
  the above is about it.
- `VerdictAlwaysRight`, `SimSpec => []VerdictRight`: the program's own test never lies.
  `SimulationInv` says what data can be drawn (`Drawn`) and in which order the program
  goes (`InOrder`).  That the test compares with the intersection has two parts, each an
  induction: any sequence has a permutation that sorts it (`OrderExists`), and one
  pass over a sorted sequence takes each repeated element once (`RepeatedIs`), though
  an element may come four times.  As the data of a client are two ascending draws,
  an element repeated in the union is common (`TwiceIsCommon`, `PlainOfDrawn`).
- `WrongExplained` joins the two: under the hypotheses of `CommonAlwaysFound` a run
  is judged wrong only when a root is listed in two rows, when a random root passes
  for an element, when 0 is common, or when no copies of a common element are in the
  same bucket of both clients.

**`PolynomialsProofs`**: `TypeCorrect` and `PolynomialsAlwaysFit` for any use;
`OrderedUndefinedCause`, `OrderedRootsOfBatch` and `OrderedEndsForBadRows` for calls
where the header allows them.  `PolyInv` adds to the types `Allocated`, that the
polynomials have length `n`, and `StageHolds`, what the arrays hold after each step of
such an application: the factors may be of an older batch, of another length, until
the step that replaces them.

**`ZZPRFProofs`**, for every hash, width and sequence of calls:

- `BuffersAlwaysSuffice`.  `PrfInv` says that the stored lengths are those of the
  buffers (`Lengthened`), what outlives a call (`Kept`), and how far the call that
  runs has filled them (`Underway`).
- `ResultAlwaysFunction`, `Spec => []ResultIsFunction`.  The buffers keep what earlier
  calls left there, and the digest that comes next is of either of two buffers.
  `FunctionInv` adds `Chained`: the bytes generated so far are those of the chain of
  digests that seed and index begin (`DigestAt`, `Stream`), and the buffer to be
  digested holds the next link; and `Asking`, that a call without a seed asks for
  the first seed that was drawn.  `Cut` then makes of equal bytes equal numbers.
- `InputsAlwaysApart`, `Spec => []InputsApart`: two pairs of seed and index are never
  hashed from the same bytes.  A number is determined by its bytes (by induction, from
  `PowerAssumption`), and the bytes of the index, being as many for every index, tell
  where the seed ends.

**`SimpleBenchmarkProofs`**, for every sequence of operations:

- `TypeCorrect`, `NeverTwoPauses`, and `IntervalsCounted`, that with two readings some
  interval is no pause, so that no average divides by zero.  `BenchInv` adds to the
  types, which say that readings do not go back, that the first interval is no pause.
- `LapsAlwaysConsistent`: the difference of two laps is a sum over the intervals
  between them (`LapsBench`), each of which loses less than a microsecond
  (`WholeMicroseconds`, `SumOfRest`); over all of them it is not above the time from
  the first reading, cut once (a telescope, by induction).  That a name is never
  that of the first reading (`NamedFirst`) is part of `BenchInv`: the cursor 0 would
  mean the whole time.
- `IsStopwatch`, `Spec => ImplementsStopwatch`, one operation at a time: a new reading
  adds one interval, cut to microseconds, to the sums (`TakeTimeElapsed`) and moves the mode as it should
  (`TakeTimeShown`).
- `MinMaxAlwaysOfUnpaused`: the scan for the least and the largest interval
  (`MinMaxFound`), and the average between them (`SumBetween`).

**`StrIntProofs`**: `SetIsNumberAlways`, that `set()` makes the number of the bytes
it is given, whatever the cells held before.  One round of the loop keeps the sum of
the cells that count, of an even number or an odd one (`HalvedSum`), and there are
rounds enough to leave one cell (`SummedNumber`).

**`HashBucketsProofs`**:

- any use: `TypeCorrect`; `GrowsOnly`, the action property that a bucket only
  grows at its end; `NeverLost`, that the elements in the buckets are as many as
  were added.  Its invariant `CountInv` also bounds each load by `MaxLoad` and what
  was added, since `NothingLost` counts the places up to that bound.
- a client's use (`client`): `ClientLoadBounded`, `ClientConcealed`, `ClientMarks` and
  `ClientOneBucket`, the last for an element whose hash has one remainder.  The inductive invariant is `ClientInv`.
  `LoadBounded` and `ConcealedIsFull` need each other (conceal() fills up to
  `maxLoad` and not beyond, and add() then finds no room);
  `MarkedHoldsNoElement` needs `marked # {} => concealed`, as a mark is kept when
  the bucket it was made for is no longer empty; `OneBucketPerElement` needs
  `InItsBucket`, that an element is where its hash says.

**Only model-checked.**  Liveness: `RequestsAreAnswered`, `CallsReturn`, and the
fairness in `ImplementsIdealPSI`, whose steps are `ContractRefines`; fairness and
`ENABLED` are out of the prover's reach.  `PolynomialMatchesOutput` with no promise
fails (finding 1), and so do reading a secret of any length (finding 2), finding every
common element (finding 3) and `NoUndefined` of `Polynomials` (finding 4).  The runs of
`EOPSI` have one server; its theorems hold for any number of them.  That the
constants of `MCSimulation` and `MCZZPRF` are as their modules assume is evaluated by
TLC for these instances; that NTL is, is not checked.

## 5. What is not modelled

- **NTL**: arithmetic in the field, evaluation, interpolation and factorisation
  are constants with the assumptions above; the instance of the run computes
  them.
- **The digest**: `MurmurHash3`'s mixing of bits, which has no state and no property
  but its published test vectors, and the SHA of the library.  Of the SHA classes
  only the digest buffer that `SHAByteArray` gives its caller is in `ZZPRF`;
  `SHAString` and `SHAZZp` convert their argument.
- **NTL helpers** that nothing calls (`log2`, `zeroPadTo`, `array2VecZZp`) or that
  only convert and print.  `zeroPad`, `countLeadingZeros` and `vector2VecZZp` are in
  `Blinding`, `blocks` and `bytes` in `ZZPRF`.
- **Floating point**: variance and standard deviation.
- **Printing, option parsing**, `useThreads()`, which sets a number nothing reads,
  and the programs that only time.
- Properties of a hidden value: that a blinded matrix tells the cloud nothing is
  a statement about distributions.

Some things are taken for granted.  No root of a random polynomial passes for an
element in `EOPSI` (`Simulation` has such roots: its property is that common
elements are found, and that the verdict tells when others are); temporary keys
are distinct; the table has at least one bucket; the clock never goes back; no
allocation fails.  `operator[]` of a map inserts a null pointer for an absent key
before it is dereferenced: the process is then undefined, and the insertion is not
kept.  The application does not itself send `POLYNOMIAL` or
`CLOUD_COMPUTATION_REQUEST`, which carry objects that parties allocate for each
other.

## 6. Plan

The calls between the parties come first, with the memory that changes hands
along them: there the code can go wrong in ways no test of one class would show.
Their arithmetic, the pseudorandom function and the arrays of polynomials follow,
each a module of its own, so that what `EOPSI` takes for granted is checked
somewhere.  What is left:

1. A refinement that ties `Blinding` to `EOPSI`: one session of `Blinding` as the
   step of `EOPSI` that makes `t`, `q` and the answer.
2. The programs `bptest` and `polyfact`, which use `Polynomials` as `intersect()`
   does.
