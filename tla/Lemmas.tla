--------------------------------- MODULE Lemmas ---------------------------------
(***************************************************************************)
(* What the proofs share: the last element of a sequence, how a call stack is *)
(* read and changed; functions that are defined by recursion on a number; and *)
(* what the operators of Chip8 return.                                     *)
(***************************************************************************)
EXTENDS Chip8, SequenceTheorems, WellFoundedInduction, NaturalsInduction, TLAPS

-----------------------------------------------------------------------------
(* The ends of a sequence.                                                 *)

LEMMA LastIndex ==
  ASSUME NEW S, NEW s \in Seq(S), s # <<>>
  PROVE  Len(s) \in 1..Len(s) /\ Len(s) \in Nat \ {0}
  BY EmptySeq

LEMMA SetLast ==
  ASSUME NEW S, NEW s \in Seq(S), s # <<>>, NEW e \in S
  PROVE  /\ [s EXCEPT ![Len(s)] = e] \in Seq(S)
         /\ Len([s EXCEPT ![Len(s)] = e]) = Len(s)
         /\ [s EXCEPT ![Len(s)] = e][Len(s)] = e
         /\ \A k \in 1..(Len(s) - 1) : [s EXCEPT ![Len(s)] = e][k] = s[k]
  BY LastIndex, ExceptSeq

LEMMA DropLast ==
  ASSUME NEW S, NEW s \in Seq(S), s # <<>>
  PROVE  /\ SubSeq(s, 1, Len(s) - 1) \in Seq(S)
         /\ Len(SubSeq(s, 1, Len(s) - 1)) = Len(s) - 1
         /\ \A k \in 1..(Len(s) - 1) : SubSeq(s, 1, Len(s) - 1)[k] = s[k]
  <1>1. Len(s) \in Nat \ {0} /\ \A k \in 1..(Len(s) - 1) : s[k] \in S
    BY LastIndex
  <1> DEFINE n == Len(s) - 1
  <1>2. n \in Int /\ 1 \in Int /\ n \in Nat
    BY <1>1
  <1>3. /\ SubSeq(s, 1, n) \in Seq(S)
        /\ Len(SubSeq(s, 1, n)) = IF 1 <= n THEN n - 1 + 1 ELSE 0
        /\ \A k \in 1..(n - 1 + 1) : SubSeq(s, 1, n)[k] = s[1 + k - 1]
    <2> HIDE DEF n
    <2>1. \A k \in 1..n : s[k] \in S
      BY <1>1 DEF n
    <2>2. QED
      BY <1>2, <2>1, SubSeqProperties
  <1> HIDE DEF n
  <1>4. n - 1 + 1 = n /\ (\A k \in 1..n : 1 + k - 1 = k) /\ (~(1 <= n) => n = 0)
    BY <1>2
  <1>5. Len(SubSeq(s, 1, n)) = n /\ \A k \in 1..n : SubSeq(s, 1, n)[k] = s[k]
    BY <1>3, <1>4
  <1>6. QED
    BY <1>3, <1>5 DEF n

LEMMA AddLast ==
  ASSUME NEW S, NEW s \in Seq(S), NEW e \in S
  PROVE  /\ Append(s, e) \in Seq(S)
         /\ Len(Append(s, e)) = Len(s) + 1
         /\ Append(s, e)[Len(s) + 1] = e
         /\ \A k \in 1..Len(s) : Append(s, e)[k] = s[k]
  BY AppendProperties

LEMMA LastOrBefore ==
  ASSUME NEW n \in Nat, NEW a \in 1..n
  PROVE  a = n \/ a \in 1..(n - 1)
  OBVIOUS

-----------------------------------------------------------------------------
(* Recursion on a number.                                                  *)

Less == { p \in Nat \X Nat : p[1] < p[2] }

LEMMA LeastNatural ==
  ASSUME NEW T \in SUBSET Nat, T # {}
  PROVE  \E n \in T : \A k \in T : ~(k < n)
  <1>1. IsWellFoundedOn(Less, Nat)
    BY NatLessThanWellFounded DEF OpToRel, Less
  <1>2. PICK n \in T : \A k \in T : ~(<<k, n>> \in Less)
    BY <1>1, WFMin
  <1>3. QED
    BY <1>2 DEF Less

\* What holds at 0 and goes on from each number to the next, up to m.
LEMMA UpTo ==
  ASSUME NEW m \in Nat, NEW P, 0 \in P,
         \A n \in 1..m : n - 1 \in P => n \in P
  PROVE  \A n \in 0..m : n \in P
  <1> DEFINE T == { n \in 0..m : n \notin P }
  <1> SUFFICES ASSUME T # {} PROVE FALSE
    OBVIOUS
  <1>1. T \in SUBSET Nat
    OBVIOUS
  <1>2. PICK n \in T : \A k \in T : ~(k < n)
    BY <1>1, LeastNatural
  <1>3. n \in 1..m /\ n - 1 \in 0..m /\ n - 1 < n
    BY <1>2
  <1>4. QED
    BY <1>2, <1>3

\* f is computed from a by the m steps, each from the value before.
Iterates(f, m, a, step) == f[0] = a /\ \A n \in 1..m : f[n] = step[n][f[n - 1]]

\* Such a function exists.
LEMMA Iteration ==
  ASSUME NEW m \in Nat, NEW a, NEW S, a \in S, NEW step, step \in [1..m -> [S -> S]]
  PROVE  \E f \in [0..m -> S] : Iterates(f, m, a, step)
  <1> DEFINE P == { k \in 0..m : \E f \in [0..k -> S] : Iterates(f, k, a, step) }
  <1>1. 0 \in P
    <2> DEFINE f == [n \in 0..0 |-> a]
    <2>1. f \in [0..0 -> S] /\ f[0] = a /\ (\A n \in 1..0 : FALSE) /\ 0 \in 0..m
      OBVIOUS
    <2> HIDE DEF f
    <2>2. Iterates(f, 0, a, step)
      BY <2>1 DEF Iterates
    <2>3. QED
      BY <2>1, <2>2
  <1>2. ASSUME NEW k \in 1..m, k - 1 \in P PROVE k \in P
    <2>1. PICK g \in [0..(k - 1) -> S] : Iterates(g, k - 1, a, step)
      BY <1>2
    <2>2. g[0] = a /\ \A n \in 1..(k - 1) : g[n] = step[n][g[n - 1]]
      BY <2>1 DEF Iterates
    <2> DEFINE f == [n \in 0..k |-> IF n = k THEN step[k][g[k - 1]] ELSE g[n]]
    <2>3. /\ k \in 0..m /\ k # 0 /\ k - 1 \in 0..(k - 1) /\ k \in 0..k /\ 0 \in 0..k
          /\ \A n \in 0..k : n = k \/ n \in 0..(k - 1)
          /\ \A n \in 1..k : /\ n = k \/ n \in 1..(k - 1)
                            /\ n \in 0..k /\ n - 1 \in 0..k /\ n - 1 # k
      BY <1>2
    <2>4. f \in [0..k -> S]
      BY <2>3
    <2>5. f[0] = a /\ \A n \in 1..k : f[n] = step[n][f[n - 1]]
      BY <2>2, <2>3
    <2> HIDE DEF f
    <2>6. Iterates(f, k, a, step)
      BY <2>5 DEF Iterates
    <2>7. QED
      BY <2>3, <2>4, <2>6
  <1> HIDE DEF P
  <1>3. m \in 0..m
    OBVIOUS
  <1>4. m \in P
    BY <1>1, <1>2, <1>3, UpTo
  <1>5. QED
    BY <1>4 DEF P

-----------------------------------------------------------------------------
(* Memory and decoding.                                                    *)

\* Word is taken apart here and nowhere else: the provers are slow at 0..65535.
LEMMA WordRange == \A n : n \in Word <=> n \in Nat /\ n <= 65535
  <1>1. WordSize = 65536
    BY DEF WordSize
  <1>2. WordSize \in Int /\ WordSize - 1 = 65535
    BY <1>1
  <1>3. QED
    BY <1>2 DEF Word

LEMMA Ranges ==
  /\ Byte \subseteq Int /\ Word \subseteq Nat /\ 0..(RamSize - 1) \subseteq Nat
  /\ Reg \subseteq Nat /\ Pixels \subseteq Nat
  BY WordRange DEF Byte, RamSize, Reg, Pixels, FrameWidth, FrameHeight

\* The statement behind the switch, for the address p that it left in pc.
LEMMA NextPc ==
  ASSUME NEW p \in Int
  PROVE  (p + 2) % WordSize \in Word
  <1>1. (p + 2) % WordSize \in Int /\ 0 <= (p + 2) % WordSize /\ (p + 2) % WordSize < WordSize
    BY DEF WordSize
  <1>2. WordSize \in Int
    BY DEF WordSize
  <1>3. QED
    BY <1>1, <1>2 DEF Word

LEMMA FontType == Len(Font) = 80 /\ \A k \in 1..80 : Font[k] \in Byte
  BY DEF Font, Byte

LEMMA PeekType ==
  ASSUME NEW m, IsMemory(m), NEW a \in Nat
  PROVE  Peek(m, a) \in Byte
  <1>1. 0 \in Byte
    BY DEF Byte
  <1>2. QED
    BY <1>1, FontType DEF Peek, IsMemory

LEMMA FetchType ==
  ASSUME NEW m, IsMemory(m), NEW a \in Nat
  PROVE  Fetch(m, a) \in Word
  <1>1. ASSUME NEW hi \in Byte, NEW lo \in Byte PROVE hi * 256 + lo \in Word
    <2>1. hi * 256 + lo \in Int /\ 0 <= hi * 256 + lo /\ hi * 256 + lo < WordSize
      BY DEF Byte, WordSize
    <2>2. WordSize \in Int
      BY DEF WordSize
    <2>3. QED
      BY <2>1, <2>2 DEF Word
  <1>2. QED
    BY <1>1, PeekType DEF Fetch

LEMMA FieldTypes ==
  ASSUME NEW code \in Word
  PROVE  /\ X(code) \in Reg
         /\ Y(code) \in Reg
         /\ Nib(code) \in 0..15
         /\ Imm(code) \in Byte
         /\ Addr(code) \in 0..(RamSize - 1)
         /\ Class(code) \in 0..15
  <1>1. code \in Nat /\ code < WordSize
    BY WordRange DEF WordSize
  <1>2. code \div 256 \in Int /\ code \div 16 \in Int
    BY <1>1
  <1>3. X(code) \in Reg
    BY <1>2 DEF X, Reg
  <1>4. Y(code) \in Reg
    BY <1>2 DEF Y, Reg
  <1>5. Nib(code) \in 0..15
    BY <1>1 DEF Nib
  <1>6. Imm(code) \in Byte
    BY <1>1 DEF Imm, Byte
  <1>7. Addr(code) \in 0..(RamSize - 1)
    BY <1>1 DEF Addr, RamSize
  <1>8. Class(code) \in 0..15
    BY <1>1 DEF Class, WordSize
  <1>9. QED
    BY <1>3, <1>4, <1>5, <1>6, <1>7, <1>8

LEMMA ByteOfType == ASSUME NEW S PROVE ByteOf(S) \in Byte
  BY DEF ByteOf, Byte

LEMMA ByteArithmetic ==
  ASSUME NEW p \in Byte, NEW q \in Byte
  PROVE  /\ p + q \in Int
         /\ p - q \in Int
         /\ p * 2 \in Int
         /\ p \div 2 \in Int
         /\ p * 5 \in 0..(RamSize - 1)
  BY DEF Byte, RamSize

LEMMA AddressArithmetic ==
  ASSUME NEW p \in Byte, NEW a \in 0..(RamSize - 1)
  PROVE  a - 2 \in Int /\ p + a - 2 \in Int
  BY DEF Byte, RamSize

LEMMA InsideRam ==
  ASSUME NEW a \in Nat, NEW k \in Nat, a + k \in 0..(RamSize - 1)
  PROVE  a \in 0..(RamSize - 1) /\ a + k < RamSize
  <1>1. a + k < RamSize
    BY DEF RamSize
  <1>2. a <= RamSize - 1 /\ RamSize - 1 \in Int
    BY <1>1 DEF RamSize
  <1>3. QED
    BY <1>1, <1>2

LEMMA RomRange ==
  ASSUME NEW n \in Nat, n <= RamSize - Entry
  PROVE  Entry..(Entry + n - 1) \subseteq 0..(RamSize - 1)
  BY DEF Entry, RamSize

LEMMA BootType == ASSUME NEW rom \in Roms PROVE IsMemory(Boot(rom))
  <1>1. rom \in Seq(Byte) /\ Len(rom) \in Nat /\ Len(rom) <= RamSize - Entry
    BY RomsAssumption
  <1>2. DOMAIN Boot(rom) \subseteq 0..(RamSize - 1)
    BY <1>1, RomRange DEF Boot
  <1>3. ASSUME NEW a \in Entry..(Entry + Len(rom) - 1) PROVE rom[a - Entry + 1] \in Byte
    <2>1. a - Entry + 1 \in 1..Len(rom)
      BY <1>1 DEF Entry
    <2>2. QED
      BY <1>1, <2>1
  <1>4. Boot(rom) \in [DOMAIN Boot(rom) -> Byte]
    BY <1>3 DEF Boot
  <1>5. QED
    BY <1>2, <1>4 DEF IsMemory

LEMMA DigitAddresses ==
  ASSUME NEW D, D \subseteq 0..(RamSize - 1), NEW a \in Nat, a + 2 < RamSize
  PROVE  D \cup {a, a + 1, a + 2} \subseteq 0..(RamSize - 1)
  BY DEF RamSize

LEMMA DigitBytes ==
  ASSUME NEW b \in Byte
  PROVE  b \div 100 \in 0..9 /\ (b \div 10) % 10 \in 0..9 /\ b % 10 \in 0..9
  BY DEF Byte

\* What FX33 leaves in memory: a decimal digit, or what was there.
LEMMA PokedCell ==
  ASSUME NEW m, IsMemory(m), NEW a \in Nat, NEW b \in Byte,
         NEW k \in DOMAIN m \cup {a, a + 1, a + 2}
  PROVE  \/ PokeDigits(m, a, b)[k] \in 0..9
         \/ k \in DOMAIN m /\ PokeDigits(m, a, b)[k] = m[k]
  <1>1. CASE k \in {a, a + 1, a + 2}
    BY <1>1, DigitBytes DEF PokeDigits
  <1>2. CASE k \notin {a, a + 1, a + 2}
    BY <1>2 DEF PokeDigits
  <1>3. QED
    BY <1>1, <1>2

LEMMA PokeDigitsType ==
  ASSUME NEW m, IsMemory(m), NEW a \in Nat, a + 2 < RamSize, NEW b \in Byte
  PROVE  IsMemory(PokeDigits(m, a, b))
  <1> DEFINE D == DOMAIN m \cup {a, a + 1, a + 2}
  <1>1. D \subseteq 0..(RamSize - 1)
    BY DigitAddresses DEF IsMemory
  <1>2. 0..9 \subseteq Byte /\ \A k \in DOMAIN m : m[k] \in Byte
    BY DEF Byte, IsMemory
  <1>3. \A k \in D : PokeDigits(m, a, b)[k] \in Byte
    BY <1>2, PokedCell
  <1>4. PokeDigits(m, a, b) \in [D -> Byte] /\ DOMAIN PokeDigits(m, a, b) = D
    BY <1>3 DEF PokeDigits
  <1>5. QED
    BY <1>1, <1>4 DEF IsMemory

\* The class of an opcode is the high nibble of its first byte.
LEMMA ClassOfFetch ==
  ASSUME NEW m, IsMemory(m), NEW a \in Nat
  PROVE  Class(Fetch(m, a)) = Peek(m, a) \div 16
  <1>1. ASSUME NEW hi \in Byte, NEW lo \in Byte PROVE (hi * 256 + lo) \div 4096 = hi \div 16
    BY DEF Byte
  <1>2. QED
    BY <1>1, PeekType DEF Class, Fetch

\* FX33 leaves every byte what it was or makes it a decimal digit.
LEMMA PokedByte ==
  ASSUME NEW m, IsMemory(m), NEW n \in Nat, NEW b \in Byte, NEW a
  PROVE  \/ Peek(PokeDigits(m, n, b), a) \in 0..9
         \/ Peek(PokeDigits(m, n, b), a) = Peek(m, a)
  <1> DEFINE D == DOMAIN m \cup {n, n + 1, n + 2}
  <1>0. DOMAIN PokeDigits(m, n, b) = D
    BY DEF PokeDigits
  <1>1. CASE a \notin D
    BY <1>0, <1>1 DEF Peek
  <1>2. CASE a \in D
    <2>1. Peek(PokeDigits(m, n, b), a) = PokeDigits(m, n, b)[a]
      BY <1>0, <1>2 DEF Peek
    <2>2. a \in DOMAIN m => Peek(m, a) = m[a]
      BY DEF Peek
    <2>3. QED
      BY <1>2, <2>1, <2>2, PokedCell
  <1>3. QED
    BY <1>1, <1>2

-----------------------------------------------------------------------------
(* The screen.                                                             *)

LEMMA ToggledTouched ==
  ASSUME NEW m, NEW a, NEW x, NEW y, NEW n
  PROVE  Toggled(m, a, x, y, n) \subseteq Touched(x, y, n)
  BY DEF Toggled, Touched

LEMMA DrawnPixels ==
  ASSUME NEW m, NEW a, NEW x, NEW y, NEW n \in 0..15,
         n > 0 => Touched(x, y, n) \subseteq Pixels,
         NEW S \in SUBSET Pixels
  PROVE  Flip(S, Toggled(m, a, x, y, n)) \subseteq Pixels
  <1>1. CASE n > 0
    BY <1>1, ToggledTouched DEF Flip
  <1>2. CASE n = 0
    <2>1. SpriteCells(n) = {}
      BY <1>2 DEF SpriteCells
    <2>2. QED
      BY <2>1 DEF Toggled, Flip
  <1>3. QED
    BY <1>1, <1>2

=============================================================================
