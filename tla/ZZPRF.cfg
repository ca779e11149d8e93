SPECIFICATION Spec
CONSTANTS
  ByteBits = 2
  IntBits = 4
  IndexBytes = 2
  HashSize = 3
  Hash <- MCHash
  Field = 13
  Moduli = {3, 13}
  Seeds = {0, 1, 22}
  Indices = {1, 5}
  BitLengths = {0, 3, 4, 9}
  RandomSeeds = {1, 22}
  RandomSizes = {2, 7}
  MaxAutoIndex = 1
  Garbage = Garbage
  NoModulo = NoModulo
INVARIANTS
  BuffersSuffice
  ResultIsFunction
  InputsApart
