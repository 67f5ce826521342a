------------------------------ MODULE AsmProofs ------------------------------
(***************************************************************************)
(* TLAPS proofs about the assembler, for every set of sources, every length   *)
(* of a line and every range of pc.                                        *)
(***************************************************************************)
EXTENDS Asm, Lemmas, FiniteSetTheorems

Pieces == Range(source)
Names  == { piece.val : piece \in Pieces }

Label == [name : Names, address : Nat]
Patch == [address : Nat, name : Names]

\* A function that gives for each line a number of tokens that stand in front of it
\* in the source, and for the line behind the last one the number of all.
Starts(start, ls, n) ==
    /\ start \in [1..(Len(ls) + 1) -> 0..n]
    /\ \A k \in 1..Len(ls) : start[k] + Len(ls[k]) <= start[k + 1]

\* The word of a patch, which is not filled yet.
Awaits(address, words, w) == address = Entry + 2 * (w - 1) /\ Addr(words[w]) = 0

\* Each patch has a word of its own that awaits it.
Awaited(ps, words) ==
    /\ \A k \in 1..Len(ps) : \E w \in 1..Len(words) : Awaits(ps[k].address, words, w)
    /\ \A j, k \in 1..Len(ps) : j # k => ps[j].address # ps[k].address

AInv ==
    /\ source \in Sources
    /\ lines \in Seq(Seq(Pieces))
    /\ line \in 0..Len(lines)
    /\ tokens \in Seq(Pieces)
    /\ out \in Seq(Word)
    /\ pc = Entry + 2 * Len(out) /\ pc < PcRange
    /\ labels \in Seq(Label)
    /\ \A k \in 1..Len(labels) : labels[k].address \in Entry..pc
    /\ patches \in Seq(Patch)
    /\ Awaited(patches, out)
    /\ status \in {"splitting", "reading", "patching", "saved", "exited", "crashed", "wild",
                   "wrapped"}
    /\ status = "splitting" => line = 0 /\ tokens = <<>> /\ out = <<>>

-----------------------------------------------------------------------------
(* What is assembled.                                                      *)

LEMMA Or16Type == \A m, n : Or16(m, n) \in Word
  <1>1. \A p, q \in Byte : p * 256 + q \in Nat /\ p * 256 + q <= 65535
    BY DEF Byte
  <1>2. QED
    BY <1>1, ByteOfType, WordRange DEF Or16, Or8

LEMMA BaseType == \A name \in {"clear", "ret", "get_sound"} : Base[name] \in Word
  <1>1. \A name \in {"clear", "ret", "get_sound"} : Base[name] \in {0, 224, 238}
    BY DEF Base
  <1>2. QED
    BY <1>1, WordRange

\* An instruction has at most three operands.
LEMMA Arity ==
  ASSUME NEW name
  PROVE  Len(Operands(name)) \in 0..3 /\ DOMAIN Operands(name) = 1..Len(Operands(name))
  <1>1. \/ Operands(name) = <<>>
        \/ Operands(name) = <<"label_addr">>
        \/ Operands(name) = <<"register", "either">>
        \/ Operands(name) = <<"register", "register">>
        \/ Operands(name) = <<"register", "register", "number">>
        \/ Operands(name) = <<"register", "number">>
        \/ Operands(name) = <<"number">>
        \/ Operands(name) = <<"register">>
    BY DEF Operands
  <1>2. QED
    BY <1>1

\* Each opcode is made by Or16, except that of an instruction without operands.
LEMMA EncodeType ==
  ASSUME NEW name, NEW args, NEW addr
  PROVE  Encode(name, args, addr) \in Word
  <1>1. 0 \in Word
    BY WordRange
  <1>2. CASE name \in {"clear", "ret", "get_sound"}
    <2>1. Operands(name) = <<>> /\ name \notin Transfers
          /\ name \notin {"ldi", "rand", "draw", "ldv", "add", "skip_eq", "skip_ne"}
      BY <1>2 DEF Operands, Transfers
    <2>2. DOMAIN RegisterForm = {"ldv", "add", "skip_eq", "skip_ne"}
      BY DEF RegisterForm
    <2>3. <<>> # <<"register", "register">> /\ <<>> # <<"register">>
      OBVIOUS
    <2>4. Encode(name, args, addr) = Base[name]
      BY <2>1, <2>2, <2>3 DEF Encode
    <2>5. QED
      BY <1>2, <2>4, BaseType
  <1>3. CASE name \notin {"clear", "ret", "get_sound"}
    <2>1. \/ name \in Transfers
          \/ name \in {"ldi", "rand", "draw"}
          \/ name \in DOMAIN RegisterForm
          \/ Operands(name) = <<"register", "register">>
          \/ Operands(name) = <<"register">>
      BY <1>3 DEF Operands, Transfers, RegisterForm
    <2>2. QED
      BY <1>1, <2>1, Or16Type DEF Encode
  <1>4. QED
    BY <1>2, <1>3

\* The value of a bit.
Weight(k) == 2^k

LEMMA Powers ==
  ASSUME NEW k \in 0..7
  PROVE  \/ (k = 0 /\ Weight(k) = 1)  \/ (k = 1 /\ Weight(k) = 2)
         \/ (k = 2 /\ Weight(k) = 4)  \/ (k = 3 /\ Weight(k) = 8)
         \/ (k = 4 /\ Weight(k) = 16) \/ (k = 5 /\ Weight(k) = 32)
         \/ (k = 6 /\ Weight(k) = 64) \/ (k = 7 /\ Weight(k) = 128)
  <1>1. k = 0 => Weight(k) = 1
    BY DEF Weight
  <1>2. k = 1 => Weight(k) = 2
    BY DEF Weight
  <1>3. k = 2 => Weight(k) = 4
    BY DEF Weight
  <1>4. k = 3 => Weight(k) = 8
    BY DEF Weight
  <1>5. k = 4 => Weight(k) = 16
    BY DEF Weight
  <1>6. k = 5 => Weight(k) = 32
    BY DEF Weight
  <1>7. k = 6 => Weight(k) = 64
    BY DEF Weight
  <1>8. k = 7 => Weight(k) = 128
    BY DEF Weight
  <1>9. QED
    BY <1>1, <1>2, <1>3, <1>4, <1>5, <1>6, <1>7, <1>8

LEMMA BitsOf == Bits(0) = {} /\ Bits(16) = {4} /\ Bits(32) = {5} /\ Bits(176) = {4, 5, 7}
  <1>1. \A n : Bits(n) = { k \in 0..7 : (n \div Weight(k)) % 2 = 1 }
    BY DEF Bits, Weight
  <1>2. Bits(0) = {}
    BY <1>1, Powers
  <1>3. Bits(16) = {4}
    BY <1>1, Powers
  <1>4. Bits(32) = {5}
    BY <1>1, Powers
  <1>5. Bits(176) = {4, 5, 7}
    BY <1>1, Powers
  <1>6. QED
    BY <1>2, <1>3, <1>4, <1>5

LEMMA OrZero == Or8(0, 0) = 0 /\ \A n \in {16, 32, 176} : Or8(n, 0) = n
  BY BitsOf DEF Or8, ByteOf

\* The address of a jump or call fills the bits that are zero without it: it is the
\* same whether it is or-ed into the word when that is written or later.
LEMMA TransferWord ==
  ASSUME NEW name \in Transfers, NEW args
  PROVE  /\ Encode(name, args, 0) \in {4096, 8192, 45056}
         /\ \A a : Encode(name, args, a) = Or16(Base[name], a)
         /\ \A a : Or16(Encode(name, args, 0), a) = Encode(name, args, a)
  <1>1. Base[name] \in {4096, 8192, 45056}
    BY DEF Transfers, Base
  <1>2. \A a : Encode(name, args, a) = Or16(Base[name], a)
    <2>1. Operands(name) = <<"label_addr">> /\ name \notin {"ldi", "rand", "draw"}
          /\ name \notin {"ldv", "add", "skip_eq", "skip_ne"}
      BY DEF Operands, Transfers
    <2>2. DOMAIN RegisterForm = {"ldv", "add", "skip_eq", "skip_ne"}
      BY DEF RegisterForm
    <2>3. <<"label_addr">> # <<"register", "register">> /\ <<"label_addr">> # <<"register">>
      OBVIOUS
    <2>4. QED
      BY <2>1, <2>2, <2>3 DEF Encode
  <1>3. /\ 4096 \div 256 = 16 /\ 8192 \div 256 = 32 /\ 45056 \div 256 = 176 /\ 0 \div 256 = 0
        /\ 4096 % 256 = 0 /\ 8192 % 256 = 0 /\ 45056 % 256 = 0 /\ 0 % 256 = 0
    OBVIOUS
  <1>4. Or16(4096, 0) = 4096 /\ Or16(8192, 0) = 8192 /\ Or16(45056, 0) = 45056
    BY <1>3, OrZero DEF Or16
  <1>5. Encode(name, args, 0) = Base[name]
    BY <1>1, <1>2, <1>4
  <1>6. QED
    BY <1>1, <1>2, <1>5

\* A jump or call to a label that is not known has a zero address.
LEMMA AwaitingWord ==
  ASSUME NEW name \in Transfers, NEW args
  PROVE  Addr(Encode(name, args, 0)) = 0
  BY TransferWord DEF Addr

-----------------------------------------------------------------------------
(* strToLines: the lines it makes, and where their tokens are in the source.*)

SourceTyped == source \in Seq(Pieces)

LEMMA SourceType == ASSUME source \in Sources PROVE SourceTyped
  BY AsmAssumption DEF SourceTyped, Pieces

Scans == { s \in [lines : Seq(Seq(Pieces)), comment : BOOLEAN, long : BOOLEAN] : s.lines # <<>> }

\* One round of the loop begins a line, adds to the last one, or skips a piece.
LEMMA ScanCases ==
  ASSUME NEW s \in Scans, NEW piece \in Pieces
  PROVE  LET r == ScanPiece(s, piece)
             l == Len(s.lines)
         IN  /\ r = [lines |-> r.lines, comment |-> r.comment, long |-> r.long]
             /\ r.comment \in BOOLEAN /\ r.long \in BOOLEAN
             /\ piece = Newline => /\ r.lines = Append(s.lines, <<>>)
                                   /\ r.comment = FALSE /\ r.long = s.long
             /\ (piece # Newline /\ (s.comment \/ piece = Semicolon)) =>
                    r.lines = s.lines /\ r.comment = TRUE /\ r.long = s.long
             /\ (piece # Newline /\ ~(s.comment \/ piece = Semicolon)) =>
                    /\ r.lines = [s.lines EXCEPT ![l] = Append(s.lines[l], piece)]
                    /\ r.comment = s.comment
                    /\ r.long = (s.long \/ Len(s.lines[l]) >= MaxLineLen)
  <1>1. CASE piece = Newline
    <2>1. ScanPiece(s, piece) = [s EXCEPT !.lines = Append(@, <<>>), !.comment = FALSE]
      BY <1>1 DEF ScanPiece
    <2>2. QED
      BY <1>1, <2>1 DEF Scans
  <1>2. CASE piece # Newline /\ (s.comment \/ piece = Semicolon)
    <2>1. ScanPiece(s, piece) = [s EXCEPT !.comment = TRUE]
      BY <1>2 DEF ScanPiece
    <2>2. QED
      BY <1>2, <2>1 DEF Scans
  <1>3. CASE piece # Newline /\ ~(s.comment \/ piece = Semicolon)
    <2>1. ScanPiece(s, piece) =
            [s EXCEPT !.lines[Len(s.lines)] = Append(@, piece),
                      !.long = @ \/ Len(s.lines[Len(s.lines)]) >= MaxLineLen]
      BY <1>3 DEF ScanPiece, Last
    <2>2. QED
      BY <1>3, <2>1 DEF Scans
  <1>4. QED
    BY <1>1, <1>2, <1>3

LEMMA ScanType ==
  ASSUME NEW s \in Scans, NEW piece \in Pieces
  PROVE  ScanPiece(s, piece) \in Scans
  <1> DEFINE ls == s.lines
             r  == ScanPiece(s, piece).lines
  <1>1. ls \in Seq(Seq(Pieces)) /\ ls # <<>>
    BY DEF Scans
  <1>2. r \in Seq(Seq(Pieces)) /\ r # <<>>
    <2>1. <<>> \in Seq(Pieces)
      OBVIOUS
    <2>2. CASE r = Append(ls, <<>>)
      <3> HIDE DEF ls, r
      <3>1. Append(ls, <<>>) \in Seq(Seq(Pieces)) /\ Append(ls, <<>>) # <<>>
        BY <1>1, <2>1, AppendProperties
      <3>2. QED
        BY <2>2, <3>1
    <2>3. CASE r = ls
      BY <1>1, <2>3
    <2>4. CASE r = [ls EXCEPT ![Len(ls)] = Append(ls[Len(ls)], piece)]
      <3>1. Append(ls[Len(ls)], piece) \in Seq(Pieces)
        BY <1>1, LastIndex, AppendProperties, ElementOfSeq
      <3>2. r \in Seq(Seq(Pieces)) /\ Len(r) = Len(ls)
        BY <1>1, <2>4, <3>1, SetLast
      <3>3. Len(r) # 0
        BY <1>1, <3>2, LastIndex
      <3>4. QED
        BY <3>2, <3>3, EmptySeq
    <2>5. QED
      BY <2>2, <2>3, <2>4, ScanCases
  <1> DEFINE p == ScanPiece(s, piece)
  <1>3. /\ p = [lines |-> p.lines, comment |-> p.comment, long |-> p.long]
        /\ p.comment \in BOOLEAN /\ p.long \in BOOLEAN
    BY ScanCases
  <1>4. p.lines \in Seq(Seq(Pieces)) /\ p.lines # <<>>
    BY <1>2
  <1> HIDE DEF p
  <1>5. p \in Scans
    BY <1>3, <1>4 DEF Scans
  <1>6. QED
    BY <1>5 DEF p

\* The scan is what its rounds make of it.
LEMMA ScanUnfolds ==
  ASSUME SourceTyped
  PROVE  \E f \in [0..Len(source) -> Scans] :
            /\ f[0] = Scan
            /\ \A n \in 1..Len(source) : f[n] = ScanPiece(f[n - 1], source[n])
            /\ Scanned = f[Len(source)]
  <1> DEFINE m == Len(source)
             step == [n \in 1..m |-> [s \in Scans |-> ScanPiece(s, source[n])]]
  <1>1. m \in Nat /\ \A n \in 1..m : source[n] \in Pieces
    BY ElementOfSeq, LenProperties DEF SourceTyped
  <1>2. step \in [1..m -> [Scans -> Scans]]
    BY <1>1, ScanType
  <1>3. Scan \in Scans
    <2>1. <<>> \in Seq(Pieces) /\ << <<>> >> \in Seq(Seq(Pieces)) /\ << <<>> >> # <<>>
      OBVIOUS
    <2>2. QED
      BY <2>1 DEF Scan, Scans
  <1> HIDE DEF step
  <1>4. PICK f \in [0..m -> Scans] : Iterates(f, m, Scan, step)
    BY <1>1, <1>2, <1>3, Iteration
  <1>5. /\ \A n \in 0..m : n = 0 \/ (n \in 1..m /\ n # 0)
        /\ \A n \in 1..m : n - 1 \in 0..m
        /\ m \in 0..m
    BY <1>1
  <1>6. f[0] = Scan /\ \A n \in 1..m : f[n] = ScanPiece(f[n - 1], source[n])
    BY <1>4, <1>5 DEF Iterates, step
  <1>7. f = [n \in 0..m |-> IF n = 0 THEN Scan ELSE ScanPiece(f[n - 1], source[n])]
    BY <1>4, <1>5, <1>6
  <1> DEFINE scan == CHOOSE g : g = [n \in 0..m |-> IF n = 0 THEN Scan
                                                  ELSE ScanPiece(g[n - 1], source[n])]
  <1>8. scan = [n \in 0..m |-> IF n = 0 THEN Scan ELSE ScanPiece(scan[n - 1], source[n])]
    BY <1>7
  <1>9. Scanned = scan[m]
    BY DEF Scanned
  <1> DEFINE P == { n \in Nat : n \in 0..m => scan[n] = f[n] }
  <1> HIDE DEF scan
  <1>10. 0 \in P
    BY <1>5, <1>6, <1>8
  <1>11. ASSUME NEW n \in 1..m, n - 1 \in P PROVE n \in P
    BY <1>1, <1>5, <1>6, <1>8, <1>11
  <1> HIDE DEF P
  <1>12. m \in P
    BY <1>1, <1>5, <1>10, <1>11, UpTo
  <1>13. Scanned = f[m]
    BY <1>5, <1>9, <1>12 DEF P
  <1>14. QED
    BY <1>4, <1>6, <1>13

\* The first n pieces end in a comment.
InComment(n) == \E q \in 1..n : source[q] = Semicolon /\ \A m \in q..n : source[m] # Newline

\* Line k of ls begins behind the piece start[k], and what is behind it in front of
\* the next line is not shown: a comment and the newline.
Layout(start, ls, n) ==
    /\ Starts(start, ls, n)
    /\ start[1] = 0 /\ start[Len(ls) + 1] = n
    /\ \A q \in 1..n : \E k \in 1..Len(ls) : q \in (start[k] + 1)..start[k + 1]
    /\ \A k \in 1..Len(ls) : \A p \in (start[k] + 1)..start[k + 1] :
          p \in T!Shown <=> p <= start[k] + Len(ls[k])
    /\ \A k \in 1..Len(ls) : \A j \in 1..Len(ls[k]) : ls[k][j] = source[start[k] + j]
    /\ \A k \in 1..(Len(ls) - 1) : start[k] + Len(ls[k]) < start[k + 1]

\* strToLines exits.
TooLong(ls) == \E k \in 1..Len(ls) : Len(ls[k]) > MaxLineLen

\* What the scan has made of the first n pieces.
ScanOf(s, start, n) ==
    /\ Layout(start, s.lines, n)
    /\ s.comment <=> InComment(n)
    /\ ~s.comment => start[Len(s.lines)] + Len(s.lines[Len(s.lines)]) = n
    /\ s.long <=> TooLong(s.lines)

LEMMA ShownRange ==
  ASSUME SourceTyped
  PROVE  /\ \A p \in T!Shown : p \in 1..Len(source) /\ p \in Nat /\ source[p] \in Pieces
         /\ T!Instructions \subseteq T!Shown
         /\ \A p : T!Behind(p) = (p + 1)..(p + Len(Operands(source[p].val)))
         /\ \A p : Len(Operands(source[p].val)) \in Nat
  <1>1. \A p \in T!Shown : p \in 1..Len(source) /\ p \in Nat /\ source[p] \in Pieces
    BY LenProperties, ElementOfSeq DEF SourceTyped, T!Shown
  <1>2. QED
    BY <1>1, Arity DEF T!Instructions, T!Behind

\* Whether the next piece is shown, and whether a comment goes on behind it.
LEMMA ShownOrNot ==
  ASSUME SourceTyped, NEW n \in 1..Len(source)
  PROVE  /\ n \in T!Shown <=> /\ source[n] # Newline /\ source[n] # Semicolon
                              /\ ~InComment(n - 1)
         /\ InComment(n) <=> /\ source[n] # Newline
                             /\ source[n] = Semicolon \/ InComment(n - 1)
  <1>1. DOMAIN source = 1..Len(source) /\ Len(source) \in Nat
    BY LenProperties DEF SourceTyped
  <1>2. n \in T!Shown <=> source[n] # Newline /\ ~InComment(n)
    <2>1. n \in T!Shown <=>
            /\ source[n] # Newline
            /\ \A q \in 1..n : source[q] = Semicolon => \E m \in q..n : source[m] = Newline
      BY <1>1 DEF T!Shown
    <2>2. QED
      BY <2>1 DEF InComment
  <1>3. /\ \A q \in 1..n : n \in q..n /\ (q = n \/ q \in 1..(n - 1))
        /\ \A q \in 1..(n - 1) : q \in 1..n
        /\ \A q \in 1..(n - 1) : \A m \in q..n : m = n \/ m \in q..(n - 1)
        /\ \A q \in 1..(n - 1) : \A m \in q..(n - 1) : m \in q..n
        /\ n \in 1..n
        /\ \A m \in n..n : m = n
    BY <1>1
  <1>4. InComment(n) => source[n] # Newline /\ (source[n] = Semicolon \/ InComment(n - 1))
    BY <1>3 DEF InComment
  <1>5. (source[n] # Newline /\ InComment(n - 1)) => InComment(n)
    BY <1>3 DEF InComment
  <1>6. (source[n] # Newline /\ source[n] = Semicolon) => InComment(n)
    BY <1>3 DEF InComment
  <1>7. QED
    BY <1>2, <1>4, <1>5, <1>6

\* A token is added to the last line, or a piece of a comment is not.
LEMMA LayoutGrows ==
  ASSUME NEW ls \in Seq(Seq(Pieces)), ls # <<>>, NEW r \in Seq(Seq(Pieces)), NEW l, l = Len(ls),
         Len(r) = l, \A k \in 1..(l - 1) : r[k] = ls[k],
         NEW n \in Nat \ {0}, NEW start, Layout(start, ls, n - 1),
         \/ r[l] = ls[l] /\ n \notin T!Shown
         \/ r[l] = Append(ls[l], source[n]) /\ n \in T!Shown /\ source[n] \in Pieces
            /\ start[l] + Len(ls[l]) = n - 1
  PROVE  Layout([k \in 1..(l + 1) |-> IF k = l + 1 THEN n ELSE start[k]], r, n)
  <1> DEFINE next == [k \in 1..(l + 1) |-> IF k = l + 1 THEN n ELSE start[k]]
             d == Len(ls[l])
  <1>1. l \in Nat /\ l >= 1 /\ l \in 1..l /\ n \in Nat /\ n >= 1
    BY LastIndex
  <1>2. \A k \in 1..l : ls[k] \in Seq(Pieces) /\ Len(ls[k]) \in Nat
    BY <1>1, ElementOfSeq, LenProperties
  <1>3. /\ start \in [1..(l + 1) -> 0..(n - 1)]
        /\ \A k \in 1..l : start[k] + Len(ls[k]) <= start[k + 1]
        /\ start[1] = 0 /\ start[l + 1] = n - 1
        /\ \A q \in 1..(n - 1) : \E k \in 1..l : q \in (start[k] + 1)..start[k + 1]
        /\ \A k \in 1..l : \A p \in (start[k] + 1)..start[k + 1] :
              p \in T!Shown <=> p <= start[k] + Len(ls[k])
        /\ \A k \in 1..l : \A j \in 1..Len(ls[k]) : ls[k][j] = source[start[k] + j]
        /\ \A k \in 1..(l - 1) : start[k] + Len(ls[k]) < start[k + 1]
    BY DEF Layout, Starts
  <1>4. /\ \A k \in 1..(l + 1) : start[k] \in Nat /\ start[k] <= n - 1 /\ start[k] \in 0..n
        /\ n \in 0..n
    <2>1. \A a \in 0..(n - 1) : a \in Nat /\ a <= n - 1 /\ a \in 0..n
      BY <1>1
    <2>2. start \in [1..(l + 1) -> 0..(n - 1)]
      BY <1>3
    <2>3. n \in 0..n
      BY <1>1
    <2>4. QED
      BY <2>1, <2>2, <2>3
  <1>5. /\ \A k \in 1..l : k \in 1..(l + 1) /\ k + 1 \in 1..(l + 1) /\ k # l + 1
        /\ \A k \in 1..l : k = l \/ (k \in 1..(l - 1) /\ k + 1 # l + 1)
        /\ l + 1 \in 1..(l + 1) /\ 1 \in 1..(l + 1) /\ 1 # l + 1
        /\ \A k \in 1..(l - 1) : k \in 1..l /\ k + 1 # l + 1
    BY <1>1
  <1>6. /\ next \in [1..(l + 1) -> 0..n] /\ next[1] = 0 /\ next[l + 1] = n
        /\ \A k \in 1..l : next[k] = start[k]
        /\ \A k \in 1..(l - 1) : next[k + 1] = start[k + 1]
    BY <1>3, <1>4, <1>5
  <1> HIDE DEF next
  <1>7. d \in Nat /\ start[l] + d <= n - 1 /\ start[l] \in Nat /\ start[l + 1] = n - 1
    BY <1>1, <1>2, <1>3, <1>4, <1>5
  <1> DEFINE e == Len(r[l])
  <1>8. /\ e \in Nat /\ start[l] + e <= n
        /\ \A p \in (start[l] + 1)..n : p \in T!Shown <=> p <= start[l] + e
        /\ \A j \in 1..e : r[l][j] = source[start[l] + j]
    <2>1. \A p \in (start[l] + 1)..(n - 1) : p \in T!Shown <=> p <= start[l] + d
      BY <1>1, <1>3
    <2>2. \A j \in 1..d : ls[l][j] = source[start[l] + j]
      BY <1>1, <1>3
    <2>3. CASE r[l] = ls[l] /\ n \notin T!Shown
      <3>1. e = d
        BY <2>3
      <3> HIDE DEF e, d
      <3>2. \A p \in (start[l] + 1)..n : p = n \/ p \in (start[l] + 1)..(n - 1)
        BY <1>1, <1>7
      <3>3. ~(n <= start[l] + e) /\ start[l] + e <= n
        BY <1>1, <1>7, <3>1
      <3>4. QED
        BY <1>7, <2>1, <2>2, <2>3, <3>1, <3>2, <3>3
    <2>4. CASE r[l] = Append(ls[l], source[n]) /\ n \in T!Shown /\ source[n] \in Pieces
               /\ start[l] + d = n - 1
      <3>1. /\ e = d + 1 /\ r[l][d + 1] = source[n]
            /\ \A j \in 1..d : r[l][j] = ls[l][j]
        BY <1>1, <1>2, <2>4, AddLast
      <3> HIDE DEF e, d
      <3>2. \A p \in (start[l] + 1)..n : p = n \/ p \in (start[l] + 1)..(n - 1)
        BY <1>1, <1>7
      <3>3. start[l] + e = n /\ start[l] + (d + 1) = n
        <4> DEFINE a == start[l]
        <4>1. a \in Nat /\ d \in Nat /\ n \in Nat /\ e = d + 1 /\ a + d = n - 1
          BY <1>1, <1>7, <2>4, <3>1
        <4> HIDE DEF a
        <4>2. a + e = n /\ a + (d + 1) = n
          BY <4>1
        <4>3. QED
          BY <4>2 DEF a
      <3>4. \A p \in (start[l] + 1)..n : p \in T!Shown /\ p <= start[l] + e
        <4>1. \A p \in (start[l] + 1)..(n - 1) : p <= start[l] + d
          BY <1>1, <1>7, <2>4
        <4>2. \A p \in (start[l] + 1)..n : p <= n
          BY <1>1, <1>7
        <4>3. QED
          BY <2>1, <2>4, <3>2, <3>3, <4>1, <4>2
      <3>5. \A j \in 1..e : j = d + 1 \/ j \in 1..d
        BY <1>7, <3>1
      <3>6. \A j \in 1..e : r[l][j] = source[start[l] + j]
        BY <2>2, <3>1, <3>3, <3>5
      <3>7. e \in Nat /\ start[l] + e <= n
        BY <1>1, <1>7, <3>1, <3>3
      <3>8. QED
        BY <3>4, <3>6, <3>7
    <2>5. QED
      BY <2>3, <2>4
  <1> HIDE DEF e, d
  <1>9. \A k \in 1..l : next[k] + Len(r[k]) <= next[k + 1]
    <2>1. ASSUME NEW k \in 1..(l - 1) PROVE next[k] + Len(r[k]) <= next[k + 1]
      BY <1>3, <1>5, <1>6
    <2>2. next[l] + Len(r[l]) <= next[l + 1]
      BY <1>5, <1>6, <1>8 DEF e
    <2>3. QED
      BY <1>5, <2>1, <2>2
  <1>10. \A q \in 1..n : \E k \in 1..l : q \in (next[k] + 1)..next[k + 1]
    <2>1. n \in (next[l] + 1)..next[l + 1]
      <3>1. /\ next[l + 1] = n /\ next[l] = start[l] /\ start[l] \in Nat /\ n \in Nat
            /\ start[l] <= n - 1
        BY <1>1, <1>4, <1>5, <1>6
      <3>2. QED
        BY <3>1
    <2>2. ASSUME NEW q \in 1..(n - 1) PROVE \E k \in 1..l : q \in (next[k] + 1)..next[k + 1]
      <3>1. PICK k \in 1..l : q \in (start[k] + 1)..start[k + 1]
        BY <1>3
      <3>2. CASE k \in 1..(l - 1)
        BY <1>5, <1>6, <3>1, <3>2
      <3>3. CASE k = l
        <4>1. q \in (start[l] + 1)..n
          BY <1>1, <1>7, <3>1, <3>3
        <4>2. QED
          BY <1>1, <1>6, <4>1
      <3>4. QED
        BY <1>5, <3>2, <3>3
    <2>3. \A q \in 1..n : q = n \/ q \in 1..(n - 1)
      BY <1>1
    <2>4. QED
      BY <1>1, <2>1, <2>2, <2>3
  <1>11. \A k \in 1..l : \A p \in (next[k] + 1)..next[k + 1] :
            p \in T!Shown <=> p <= next[k] + Len(r[k])
    <2>1. ASSUME NEW k \in 1..(l - 1)
          PROVE  \A p \in (next[k] + 1)..next[k + 1] : p \in T!Shown <=> p <= next[k] + Len(r[k])
      BY <1>3, <1>5, <1>6
    <2>2. \A p \in (next[l] + 1)..next[l + 1] : p \in T!Shown <=> p <= next[l] + Len(r[l])
      BY <1>1, <1>6, <1>8 DEF e
    <2>3. QED
      BY <1>5, <2>1, <2>2
  <1>12. \A k \in 1..l : \A j \in 1..Len(r[k]) : r[k][j] = source[next[k] + j]
    <2>1. ASSUME NEW k \in 1..(l - 1) PROVE \A j \in 1..Len(r[k]) : r[k][j] = source[next[k] + j]
      <3>1. r[k] = ls[k] /\ next[k] = start[k]
        BY <1>5, <1>6
      <3>2. \A j \in 1..Len(ls[k]) : ls[k][j] = source[start[k] + j]
        BY <1>3, <1>5
      <3>3. QED
        BY <3>1, <3>2
    <2>2. \A j \in 1..Len(r[l]) : r[l][j] = source[next[l] + j]
      BY <1>1, <1>6, <1>8 DEF e
    <2>3. QED
      BY <1>5, <2>1, <2>2
  <1>13. \A k \in 1..(l - 1) : next[k] + Len(r[k]) < next[k + 1]
    BY <1>3, <1>5, <1>6
  <1>14. Layout(next, r, n)
    BY <1>6, <1>9, <1>10, <1>11, <1>12, <1>13 DEF Layout, Starts
  <1>15. QED
    BY <1>14 DEF next

\* A newline begins a line.
LEMMA LineBegins ==
  ASSUME NEW ls \in Seq(Seq(Pieces)), ls # <<>>, NEW l, l = Len(ls), NEW n \in Nat, NEW start,
         Layout(start, ls, n), start[l] + Len(ls[l]) < n
  PROVE  Layout([k \in 1..(l + 2) |-> IF k = l + 2 THEN n ELSE start[k]], Append(ls, <<>>), n)
  <1> DEFINE next == [k \in 1..(l + 2) |-> IF k = l + 2 THEN n ELSE start[k]]
             r == Append(ls, <<>>)
  <1>1. l \in Nat /\ l >= 1 /\ l \in 1..l
    BY LastIndex
  <1>2. /\ start \in [1..(l + 1) -> 0..n]
        /\ \A k \in 1..l : start[k] + Len(ls[k]) <= start[k + 1]
        /\ start[1] = 0 /\ start[l + 1] = n
        /\ \A q \in 1..n : \E k \in 1..l : q \in (start[k] + 1)..start[k + 1]
        /\ \A k \in 1..l : \A p \in (start[k] + 1)..start[k + 1] :
              p \in T!Shown <=> p <= start[k] + Len(ls[k])
        /\ \A k \in 1..l : \A j \in 1..Len(ls[k]) : ls[k][j] = source[start[k] + j]
        /\ \A k \in 1..(l - 1) : start[k] + Len(ls[k]) < start[k + 1]
    BY DEF Layout, Starts
  <1>3. /\ \A k \in 1..(l + 2) : k = l + 2 \/ k \in 1..(l + 1)
        /\ \A k \in 1..(l + 1) : k \in 1..(l + 2) /\ k # l + 2 /\ (k = l + 1 \/ k \in 1..l)
        /\ \A k \in 1..l : k \in 1..(l + 1) /\ k + 1 \in 1..(l + 1) /\ (k = l \/ k \in 1..(l - 1))
        /\ l + 2 \in 1..(l + 2) /\ (l + 1) + 1 = l + 2 /\ 1 \in 1..(l + 1) /\ l + 1 \in 1..(l + 1)
        /\ n \in 0..n
    BY <1>1
  <1>4. /\ next \in [1..(l + 2) -> 0..n] /\ next[1] = 0 /\ next[l + 2] = n /\ next[l + 1] = n
        /\ \A k \in 1..(l + 1) : next[k] = start[k]
    BY <1>2, <1>3
  <1>5. <<>> \in Seq(Pieces) /\ Len(<<>>) = 0
    OBVIOUS
  <1>6. Len(r) = l + 1 /\ r[l + 1] = <<>> /\ \A k \in 1..l : r[k] = ls[k]
    BY <1>5, AddLast
  <1> HIDE DEF next, r
  <1>7. \A k \in 1..(l + 1) : next[k] + Len(r[k]) <= next[k + 1]
    <2>1. ASSUME NEW k \in 1..l PROVE next[k] + Len(r[k]) <= next[k + 1]
      BY <1>2, <1>3, <1>4, <1>6
    <2>2. next[l + 1] + Len(r[l + 1]) <= next[(l + 1) + 1]
      BY <1>3, <1>4, <1>5, <1>6
    <2>3. QED
      BY <1>3, <2>1, <2>2
  <1>8. \A q \in 1..n : \E k \in 1..(l + 1) : q \in (next[k] + 1)..next[k + 1]
    BY <1>2, <1>3, <1>4
  <1>9. \A k \in 1..(l + 1) : \A p \in (next[k] + 1)..next[k + 1] :
            p \in T!Shown <=> p <= next[k] + Len(r[k])
    <2>1. ASSUME NEW k \in 1..l
          PROVE  \A p \in (next[k] + 1)..next[k + 1] : p \in T!Shown <=> p <= next[k] + Len(r[k])
      BY <1>2, <1>3, <1>4, <1>6
    <2>2. (next[l + 1] + 1)..next[(l + 1) + 1] = {}
      BY <1>3, <1>4
    <2>3. QED
      BY <1>3, <2>1, <2>2
  <1>10. \A k \in 1..(l + 1) : \A j \in 1..Len(r[k]) : r[k][j] = source[next[k] + j]
    <2>1. ASSUME NEW k \in 1..l PROVE \A j \in 1..Len(r[k]) : r[k][j] = source[next[k] + j]
      <3>1. r[k] = ls[k] /\ next[k] = start[k]
        BY <1>3, <1>4, <1>6
      <3>2. \A j \in 1..Len(ls[k]) : ls[k][j] = source[start[k] + j]
        BY <1>2
      <3>3. QED
        BY <3>1, <3>2
    <2>2. 1..Len(r[l + 1]) = {}
      BY <1>5, <1>6
    <2>3. QED
      BY <1>3, <2>1, <2>2
  <1>11. \A k \in 1..l : next[k] + Len(r[k]) < next[k + 1]
    <2>1. ASSUME NEW k \in 1..(l - 1) PROVE next[k] + Len(r[k]) < next[k + 1]
      <3>1. k \in 1..l
        BY <1>1
      <3>2. QED
        BY <1>2, <1>3, <1>4, <1>6, <3>1
    <2>2. next[l] + Len(r[l]) < next[l + 1]
      BY <1>1, <1>3, <1>4, <1>6
    <2>3. QED
      BY <1>3, <2>1, <2>2
  <1>12. (l + 1) - 1 = l
    BY <1>1
  <1>13. Layout(next, r, n)
    BY <1>3, <1>4, <1>6, <1>7, <1>8, <1>9, <1>10, <1>11, <1>12 DEF Layout, Starts
  <1>14. QED
    BY <1>13 DEF next, r

LEMMA TooLongGrows ==
  ASSUME NEW ls \in Seq(Seq(Pieces)), ls # <<>>, NEW piece \in Pieces
  PROVE  /\ TooLong(Append(ls, <<>>)) <=> TooLong(ls)
         /\ TooLong([ls EXCEPT ![Len(ls)] = Append(ls[Len(ls)], piece)])
               <=> TooLong(ls) \/ Len(ls[Len(ls)]) >= MaxLineLen
  <1> DEFINE l == Len(ls)
             more == Append(ls[l], piece)
             r == Append(ls, <<>>)
             q == [ls EXCEPT ![l] = more]
  <1>1. l \in Nat /\ l \in 1..l
    BY LastIndex
  <1>2. \A k \in 1..l : ls[k] \in Seq(Pieces) /\ Len(ls[k]) \in Nat
    BY <1>1, ElementOfSeq, LenProperties
  <1>3. more \in Seq(Pieces) /\ Len(more) = Len(ls[l]) + 1
    BY <1>1, <1>2, AppendProperties
  <1>4. MaxLineLen \in Nat /\ MaxLineLen # 0
    BY AsmAssumption
  <1>5. <<>> \in Seq(Pieces) /\ Len(<<>>) = 0
    OBVIOUS
  <1>6. Len(r) = l + 1 /\ r[l + 1] = <<>> /\ \A k \in 1..l : r[k] = ls[k]
    BY <1>5, AddLast
  <1> HIDE DEF more
  <1>7. Len(q) = l /\ q[l] = more /\ \A k \in 1..(l - 1) : q[k] = ls[k]
    BY <1>3, SetLast
  <1> HIDE DEF l, r, q
  <1>8. \A k \in 1..(l + 1) : k = l + 1 \/ k \in 1..l
    BY <1>1
  <1>9. ~(Len(r[l + 1]) > MaxLineLen) /\ \A k \in 1..l : k \in 1..(l + 1)
    BY <1>1, <1>4, <1>5, <1>6
  <1>10. TooLong(r) <=> TooLong(ls)
    BY <1>6, <1>8, <1>9 DEF TooLong, l
  <1>11. \A k \in 1..l : k = l \/ k \in 1..(l - 1)
    BY <1>1
  <1>12. \A k \in 1..(l - 1) : k \in 1..l
    BY <1>1
  <1>13. Len(q[l]) > MaxLineLen <=> Len(ls[l]) >= MaxLineLen
    <2> DEFINE d == Len(ls[l])
    <2>1. d \in Nat /\ Len(q[l]) = d + 1
      BY <1>1, <1>2, <1>3, <1>7
    <2> HIDE DEF d
    <2>2. QED
      BY <1>4, <2>1 DEF d
  <1>14. Len(ls[l]) > MaxLineLen => Len(ls[l]) >= MaxLineLen
    BY <1>1, <1>2, <1>4
  <1>15. TooLong(q) <=> TooLong(ls) \/ Len(ls[l]) >= MaxLineLen
    BY <1>1, <1>7, <1>11, <1>12, <1>13, <1>14 DEF TooLong, l
  <1>16. QED
    BY <1>10, <1>15 DEF l, r, q, more

LEMMA ScanGrows ==
  ASSUME SourceTyped, NEW s \in Scans, NEW n \in 1..Len(source),
         \E start : ScanOf(s, start, n - 1)
  PROVE  \E start : ScanOf(ScanPiece(s, source[n]), start, n)
  <1> DEFINE ls == s.lines
             l  == Len(ls)
             piece == source[n]
             t  == ScanPiece(s, piece)
             longer == Append(ls[l], piece)
  <1>1. PICK start : ScanOf(s, start, n - 1)
    OBVIOUS
  <1>2. /\ Layout(start, ls, n - 1)
        /\ s.comment <=> InComment(n - 1)
        /\ ~s.comment => start[l] + Len(ls[l]) = n - 1
        /\ s.long <=> TooLong(ls)
    BY <1>1 DEF ScanOf
  <1>3. /\ ls \in Seq(Seq(Pieces)) /\ ls # <<>> /\ s.comment \in BOOLEAN /\ s.long \in BOOLEAN
        /\ piece \in Pieces /\ n \in Nat \ {0} /\ Len(source) \in Nat
    BY LenProperties, ElementOfSeq DEF Scans, SourceTyped
  <1>4. l \in Nat \ {0} /\ l \in 1..l /\ ls[l] \in Seq(Pieces) /\ Len(ls[l]) \in Nat
    BY <1>3, LastIndex, ElementOfSeq, LenProperties
  <1>5. /\ n \in T!Shown <=> piece # Newline /\ piece # Semicolon /\ ~InComment(n - 1)
        /\ InComment(n) <=> piece # Newline /\ (piece = Semicolon \/ InComment(n - 1))
    BY ShownOrNot
  <1>6. /\ piece = Newline => t.lines = Append(ls, <<>>) /\ t.comment = FALSE /\ t.long = s.long
        /\ (piece # Newline /\ (s.comment \/ piece = Semicolon)) =>
              t.lines = ls /\ t.comment = TRUE /\ t.long = s.long
        /\ (piece # Newline /\ ~(s.comment \/ piece = Semicolon)) =>
              /\ t.lines = [ls EXCEPT ![l] = longer]
              /\ t.comment = s.comment
              /\ t.long = (s.long \/ Len(ls[l]) >= MaxLineLen)
    BY <1>3, ScanCases
  <1>7. TooLong(Append(ls, <<>>)) <=> TooLong(ls)
    BY <1>3, TooLongGrows
  <1>8. TooLong([ls EXCEPT ![l] = longer]) <=> TooLong(ls) \/ Len(ls[l]) >= MaxLineLen
    BY <1>3, TooLongGrows
  <1>9. longer \in Seq(Pieces) /\ Len(longer) = Len(ls[l]) + 1
    BY <1>3, <1>4, AppendProperties
  <1> DEFINE next == [k \in 1..(l + 1) |-> IF k = l + 1 THEN n ELSE start[k]]
             last == [k \in 1..(l + 2) |-> IF k = l + 2 THEN n ELSE next[k]]
             q == [ls EXCEPT ![l] = longer]
  <1> HIDE DEF longer
  <1>10. q \in Seq(Seq(Pieces)) /\ Len(q) = l /\ q[l] = longer /\ \A k \in 1..(l - 1) : q[k] = ls[k]
    BY <1>3, <1>9, SetLast
  <1> HIDE DEF ls, l, piece, t, q, next, last
  <1>11. next[l] = start[l] /\ start[l] \in Nat
    <2>1. l \in 1..(l + 1) /\ l # l + 1
      BY <1>4
    <2>2. start \in [1..(l + 1) -> 0..(n - 1)]
      BY <1>2 DEF Layout, Starts, l
    <2>3. start[l] \in 0..(n - 1)
      BY <2>1, <2>2
    <2>4. start[l] \in Nat
      BY <1>3, <2>3
    <2>5. QED
      BY <2>1, <2>4 DEF next
  <1>12. n \notin T!Shown => Layout(next, ls, n)
    BY <1>2, <1>3, LayoutGrows DEF l, next
  <1>13. CASE piece = Newline
    <2>1. Layout(next, ls, n) /\ next[l] + Len(ls[l]) < n
      <3>1. start[l] + Len(ls[l]) <= n - 1
        <4>1. start[l] + Len(ls[l]) <= start[l + 1] /\ start[l + 1] = n - 1
          BY <1>2, <1>4 DEF Layout, Starts, l
        <4>2. QED
          BY <4>1
      <3> DEFINE a == start[l]
                 d == Len(ls[l])
      <3>2. a \in Nat /\ d \in Nat /\ a + d <= n - 1 /\ next[l] = a
        BY <1>4, <1>11, <3>1
      <3> HIDE DEF a, d
      <3>3. a + d < n
        BY <1>3, <3>2
      <3>4. QED
        BY <1>5, <1>12, <1>13, <3>2, <3>3 DEF d
    <2>2. Layout(last, Append(ls, <<>>), n)
      BY <1>3, <2>1, LineBegins DEF l, last
    <2>3. /\ last[l + 1] = n /\ Append(ls, <<>>)[l + 1] = <<>> /\ Len(<<>>) = 0
          /\ Len(Append(ls, <<>>)) = l + 1
      <3>1. <<>> \in Seq(Pieces) /\ Len(<<>>) = 0
        OBVIOUS
      <3>2. l + 1 \in 1..(l + 2) /\ l + 1 # l + 2 /\ l + 1 \in 1..(l + 1)
        BY <1>4
      <3>3. QED
        BY <1>3, <3>1, <3>2, AddLast DEF l, last, next
    <2>4. last[l + 1] + Len(Append(ls, <<>>)[l + 1]) = n
      BY <1>3, <2>3
    <2>5. ScanOf(t, last, n)
      BY <1>2, <1>5, <1>6, <1>7, <1>13, <2>2, <2>3, <2>4 DEF ScanOf
    <2>6. QED
      BY <2>5 DEF t, piece
  <1>14. CASE piece # Newline /\ (s.comment \/ piece = Semicolon)
    <2>1. Layout(next, ls, n)
      BY <1>2, <1>5, <1>12, <1>14
    <2>2. ScanOf(t, next, n)
      BY <1>2, <1>5, <1>6, <1>14, <2>1 DEF ScanOf
    <2>3. QED
      BY <2>2 DEF t, piece
  <1>15. CASE piece # Newline /\ ~(s.comment \/ piece = Semicolon)
    <2>1. n \in T!Shown /\ start[l] + Len(ls[l]) = n - 1
      BY <1>2, <1>5, <1>15
    <2>2. Layout(next, q, n)
      BY <1>2, <1>3, <1>10, <2>1, LayoutGrows DEF l, next, longer, piece
    <2>3. next[l] + Len(q[l]) = n
      <3> DEFINE a == start[l]
                 d == Len(ls[l])
      <3>1. a \in Nat /\ d \in Nat /\ a + d = n - 1 /\ next[l] = a /\ Len(q[l]) = d + 1
        BY <1>4, <1>9, <1>10, <1>11, <2>1
      <3> HIDE DEF a, d
      <3>2. QED
        BY <1>3, <3>1
    <2>4. t.lines = q /\ Len(q) = l
      BY <1>6, <1>10, <1>15 DEF q
    <2>5. t.long <=> TooLong(q)
      BY <1>2, <1>6, <1>8, <1>15 DEF q
    <2>6. ScanOf(t, next, n)
      BY <1>2, <1>5, <1>6, <1>15, <2>2, <2>3, <2>4, <2>5 DEF ScanOf
    <2>7. QED
      BY <2>6 DEF t, piece
  <1>16. QED
    BY <1>3, <1>13, <1>14, <1>15

\* What strToLines makes of the source.
LEMMA ScannedLayout ==
  ASSUME SourceTyped
  PROVE  Scanned \in Scans /\ \E start : ScanOf(Scanned, start, Len(source))
  <1> DEFINE m == Len(source)
  <1>1. PICK f \in [0..m -> Scans] :
            /\ f[0] = Scan
            /\ \A n \in 1..m : f[n] = ScanPiece(f[n - 1], source[n])
            /\ Scanned = f[m]
    BY ScanUnfolds
  <1>2. m \in Nat
    BY LenProperties DEF SourceTyped
  <1> DEFINE P == { n \in Nat : \E start : ScanOf(f[n], start, n) }
  <1>3. 0 \in P
    <2> DEFINE start == [k \in 1..2 |-> 0]
    <2>1. f[0].lines = << <<>> >> /\ f[0].comment = FALSE /\ f[0].long = FALSE
      BY <1>1 DEF Scan
    <2>2. Len(<< <<>> >>) = 1 /\ Len(<<>>) = 0 /\ << <<>> >>[1] = <<>>
      OBVIOUS
    <2>3. start \in [1..2 -> 0..0] /\ start[1] = 0 /\ start[2] = 0
      OBVIOUS
    <2> HIDE DEF start
    <2>4. Starts(start, << <<>> >>, 0)
      BY <2>2, <2>3 DEF Starts
    <2>5. Layout(start, << <<>> >>, 0)
      <3>1. /\ \A q \in 1..0 : FALSE
            /\ \A k \in 1..1 : k = 1
            /\ \A p \in (0 + 1)..0 : FALSE
            /\ 1 + 1 = 2 /\ 1..(1 - 1) = {}
        OBVIOUS
      <3>2. QED
        BY <2>2, <2>3, <2>4, <3>1 DEF Layout
    <2>6. ~InComment(0)
      BY DEF InComment
    <2>7. ~TooLong(<< <<>> >>)
      BY <2>2, AsmAssumption DEF TooLong
    <2>8. start[1] + Len(<< <<>> >>[1]) = 0
      BY <2>2, <2>3
    <2>9. ScanOf(f[0], start, 0)
      BY <2>1, <2>2, <2>5, <2>6, <2>7, <2>8 DEF ScanOf
    <2>10. QED
      BY <2>9
  <1>4. ASSUME NEW n \in 1..m, n - 1 \in P PROVE n \in P
    <2>1. n - 1 \in 0..m /\ n \in Nat
      BY <1>2
    <2>2. f[n - 1] \in Scans /\ \E start : ScanOf(f[n - 1], start, n - 1)
      BY <1>1, <1>4, <2>1
    <2>3. \E start : ScanOf(ScanPiece(f[n - 1], source[n]), start, n)
      BY <2>2, ScanGrows
    <2>4. QED
      BY <1>1, <2>1, <2>3
  <1> HIDE DEF P
  <1>5. m \in 0..m /\ m \in Nat
    BY <1>2
  <1>6. m \in P
    BY <1>3, <1>4, <1>5, UpTo
  <1>7. QED
    BY <1>1, <1>5, <1>6 DEF P

\* Where the tokens of a line stand in the source, and that what is behind them is
\* not shown.
LEMMA LineAt ==
  ASSUME SourceTyped, NEW ls \in Seq(Seq(Pieces)), NEW start, Layout(start, ls, Len(source)),
         NEW k \in 1..Len(ls)
  PROVE  LET a == start[k]
             t == Len(ls[k])
             b == start[k + 1]
         IN  /\ a \in Nat /\ t \in Nat /\ b \in Nat /\ a + t <= b
             /\ \A j \in 1..t : a + j \in T!Shown /\ ls[k][j] = source[a + j]
             /\ \A p \in (a + t + 1)..b : p \notin T!Shown
             /\ a + t + 1 \notin T!Shown
  <1>1. PICK l, n, a, b, t : /\ l = Len(ls) /\ n = Len(source)
                             /\ a = start[k] /\ b = start[k + 1] /\ t = Len(ls[k])
    OBVIOUS
  <1>2. l \in Nat /\ n \in Nat /\ t \in Nat /\ k \in 1..l
    BY <1>1, ElementOfSeq, LenProperties DEF SourceTyped
  <1>3. k \in 1..(l + 1) /\ k + 1 \in 1..(l + 1) /\ (k = l \/ k \in 1..(l - 1))
    BY <1>2
  <1>4. /\ start \in [1..(l + 1) -> 0..n] /\ start[l + 1] = n
        /\ a + t <= b
        /\ k \in 1..(l - 1) => a + t < b
        /\ \A p \in (a + 1)..b : p \in T!Shown <=> p <= a + t
        /\ \A j \in 1..t : ls[k][j] = source[a + j]
    BY <1>1 DEF Layout, Starts
  <1>5. a \in Nat /\ b \in Nat
    <2>1. a \in 0..n /\ b \in 0..n
      BY <1>1, <1>3, <1>4
    <2>2. QED
      BY <1>2, <2>1
  <1>6. \A j \in 1..t : a + j \in T!Shown
    <2>1. \A j \in 1..t : a + j \in (a + 1)..b /\ a + j <= a + t
      BY <1>2, <1>4, <1>5
    <2>2. QED
      BY <1>4, <2>1
  <1>7. \A p \in (a + t + 1)..b : p \notin T!Shown
    <2>1. \A p \in (a + t + 1)..b : p \in (a + 1)..b /\ ~(p <= a + t)
      BY <1>2, <1>5
    <2>2. QED
      BY <1>4, <2>1
  <1>8. a + t + 1 \notin T!Shown
    <2>1. CASE a + t < b
      <3>1. a + t + 1 \in (a + t + 1)..b
        BY <1>2, <1>5, <2>1
      <3>2. QED
        BY <1>7, <3>1
    <2>2. CASE ~(a + t < b)
      <3>1. k = l /\ a + t = b
        BY <1>2, <1>3, <1>4, <1>5, <2>2
      <3>2. a + t + 1 \notin 1..n
        BY <1>1, <1>2, <1>4, <3>1
      <3>3. QED
        BY <1>1, <3>2, ShownRange
    <2>3. QED
      BY <2>1, <2>2
  <1>9. QED
    BY <1>1, <1>2, <1>4, <1>5, <1>6, <1>7, <1>8

-----------------------------------------------------------------------------
(* The invariant.                                                          *)

Statuses == {"splitting", "reading", "patching", "saved", "exited", "crashed", "wild", "wrapped"}

LEMMA InvTypes ==
  ASSUME AInv
  PROVE  /\ SourceTyped
         /\ Len(source) \in Nat /\ Len(lines) \in Nat /\ Len(out) \in Nat /\ Len(tokens) \in Nat
         /\ Len(labels) \in Nat /\ Len(patches) \in Nat
         /\ line + 1 \in 1..(Len(lines) + 1)
         /\ pc \in Nat /\ Entry \in Nat
  <1>1. SourceTyped
    BY SourceType DEF AInv
  <1>2. Len(source) \in Nat
    BY <1>1, LenProperties DEF SourceTyped
  <1>3. /\ Len(lines) \in Nat /\ Len(out) \in Nat /\ Len(tokens) \in Nat
        /\ Len(labels) \in Nat /\ Len(patches) \in Nat
    BY LenProperties DEF AInv
  <1>4. line + 1 \in 1..(Len(lines) + 1)
    BY <1>3 DEF AInv
  <1>5. pc \in Nat /\ Entry \in Nat
    BY <1>3 DEF AInv, Entry
  <1>6. QED
    BY <1>1, <1>2, <1>3, <1>4, <1>5

LEMMA InitInv == Init => AInv
  <1> SUFFICES ASSUME Init PROVE AInv
    OBVIOUS
  <1>1. SourceTyped
    BY SourceType DEF Init
  <1>2. Len(source) \in Nat
    BY <1>1, LenProperties DEF SourceTyped
  <1>3. /\ <<>> \in Seq(Pieces) /\ << <<>> >> \in Seq(Seq(Pieces))
        /\ Len(<< <<>> >>) = 1 /\ Len(<<>>) = 0 /\ << <<>> >>[1] = <<>>
        /\ <<>> \in Seq(Word) /\ <<>> \in Seq(Label) /\ <<>> \in Seq(Patch)
    OBVIOUS
  <1>5. patches \in Seq(Patch) /\ Awaited(patches, out)
    BY <1>3 DEF Init, Awaited
  <1>6. line \in 0..Len(lines) /\ pc = Entry + 2 * Len(out) /\ pc < PcRange
    <2>1. Entry < PcRange
      BY AsmAssumption DEF Entry, WordSize
    <2>2. QED
      BY <1>3, <2>1 DEF Init, Entry
  <1>7. \A k \in 1..Len(labels) : labels[k].address \in Entry..pc
    BY <1>3 DEF Init
  <1>8. QED
    BY <1>3, <1>5, <1>6, <1>7 DEF Init, AInv

\* A step that changes only the status.
LEMMA StatusStep ==
  ASSUME AInv, status' \in Statuses \ {"splitting"},
         UNCHANGED <<source, lines, line, tokens, pc, labels, patches, out>>
  PROVE  AInv'
  <1>1. Awaited(patches, out)'
    BY DEF AInv
  <1>2. QED
    BY <1>1 DEF AInv, Statuses, Label, Patch, Names, Pieces

LEMMA StatusSteps ==
  ASSUME AInv,
         \/ ReadWild \/ WrapPc \/ RejectOperand \/ SyntaxError
         \/ EndOfSource \/ LabelNotFound \/ OutputSave
  PROVE  AInv'
  <1>1. /\ status' \in Statuses \ {"splitting"}
        /\ UNCHANGED <<source, lines, line, tokens, pc, labels, patches, out>>
    BY DEF ReadWild, WrapPc, RejectOperand, SyntaxError, EndOfSource, LabelNotFound, OutputSave,
           Statuses
  <1>2. QED
    BY <1>1, StatusStep

LEMMA StrToLinesInv == ASSUME AInv, StrToLines PROVE AInv'
  <1>1. Scanned \in Scans
    BY InvTypes, ScannedLayout DEF ScanOf
  <1>2. /\ lines' = Scanned.lines /\ status = "splitting"
        /\ status' \in {"exited", "wild", "reading"}
        /\ UNCHANGED <<source, line, tokens, pc, labels, patches, out>>
    BY DEF StrToLines
  <1>3. line = 0 /\ tokens = <<>> /\ out = <<>>
    BY <1>2 DEF AInv
  <1>4. lines' \in Seq(Seq(Pieces)) /\ Len(lines') \in Nat
    BY <1>1, <1>2, LenProperties DEF Scans
  <1>6. Awaited(patches, out)'
    BY <1>2 DEF AInv
  <1>7. line' \in 0..Len(lines')
    BY <1>2, <1>3, <1>4
  <1>8. QED
    BY <1>2, <1>4, <1>6, <1>7 DEF AInv, Label, Patch, Names, Pieces

LEMMA ReadLineInv == ASSUME AInv, ReadLine PROVE AInv'
  <1>1. /\ status = "reading" /\ tokens = <<>> /\ line < Len(lines) /\ line' = line + 1
        /\ UNCHANGED <<source, lines, pc, labels, patches, out>>
        /\ \/ status' = "exited" /\ tokens' = tokens
           \/ status' = status /\ tokens' = lines[line + 1]
    BY DEF ReadLine
  <1>2. line \in Nat /\ line + 1 \in 1..Len(lines) /\ line' \in 0..Len(lines)
    <2> DEFINE l == Len(lines)
    <2>1. line \in 0..l /\ l \in Nat /\ line < l /\ line' = line + 1
      BY <1>1, InvTypes DEF AInv
    <2> HIDE DEF l
    <2>2. line \in Nat /\ line + 1 \in 1..l /\ line' \in 0..l
      BY <2>1
    <2>3. QED
      BY <2>2 DEF l
  <1>3. lines[line + 1] \in Seq(Pieces) /\ Len(lines[line + 1]) \in Nat
    BY <1>2, ElementOfSeq, LenProperties DEF AInv
  <1>4. tokens' \in Seq(Pieces) /\ Len(tokens') <= Len(lines[line + 1]) /\ Len(tokens') \in Nat
    <2>1. CASE tokens' = tokens
      <3>1. Len(tokens) = 0 /\ tokens \in Seq(Pieces)
        BY <1>1 DEF AInv
      <3>2. QED
        BY <1>3, <2>1, <3>1
    <2>2. CASE tokens' = lines[line + 1]
      BY <1>3, <2>2
    <2>3. QED
      BY <1>1, <2>1, <2>2
  <1>6. Awaited(patches, out)'
    BY <1>1 DEF AInv
  <1>7. QED
    BY <1>1, <1>2, <1>4, <1>6 DEF AInv, Label, Patch, Names, Pieces

LEMMA HeadInfo ==
  ASSUME AInv, tokens # <<>>
  PROVE  /\ Head(tokens) \in Pieces /\ Tail(tokens) \in Seq(Pieces)
         /\ Len(Tail(tokens)) = Len(tokens) - 1 /\ Len(tokens) >= 1
  BY HeadTailProperties, LastIndex DEF AInv

LEMMA NewLabelInv == ASSUME AInv, NewLabel PROVE AInv'
  <1>1. /\ status = "reading" /\ tokens # <<>>
        /\ labels' = Append(labels, [name |-> Head(tokens).val, address |-> pc])
        /\ tokens' = Tail(tokens)
        /\ UNCHANGED <<source, lines, line, pc, patches, out, status>>
    BY DEF NewLabel, At
  <1>2. /\ Head(tokens) \in Pieces /\ tokens' \in Seq(Pieces)
        /\ Len(tokens') = Len(tokens) - 1
    BY <1>1, HeadInfo
  <1> DEFINE label == [name |-> Head(tokens).val, address |-> pc]
  <1>3. label \in Label /\ label.address = pc
    BY <1>2, InvTypes DEF Label, Names
  <1> HIDE DEF label
  <1>4. /\ labels' \in Seq(Label) /\ Len(labels') = Len(labels) + 1
        /\ labels'[Len(labels) + 1] = label /\ \A k \in 1..Len(labels) : labels'[k] = labels[k]
    BY <1>1, <1>3, AddLast DEF AInv, label
  <1>5. Entry..pc = Entry..pc' /\ pc \in Entry..pc
    <2>1. pc = Entry + 2 * Len(out) /\ Len(out) \in Nat /\ Entry \in Nat /\ pc' = pc
      BY <1>1, InvTypes DEF AInv
    <2>2. pc \in Int /\ Entry <= pc
      BY <2>1
    <2>3. QED
      BY <2>1, <2>2
  <1>6. \A k \in 1..Len(labels') : k = Len(labels) + 1 \/ k \in 1..Len(labels)
    <2> DEFINE l == Len(labels)
    <2>1. l \in Nat /\ Len(labels') = l + 1
      BY <1>4, InvTypes
    <2> HIDE DEF l
    <2>2. \A k \in 1..Len(labels') : k = l + 1 \/ k \in 1..l
      BY <2>1
    <2>3. QED
      BY <2>2 DEF l
  <1>7. \A k \in 1..Len(labels') : labels'[k].address \in Entry..pc'
    BY <1>3, <1>4, <1>5, <1>6 DEF AInv
  <1>9. Awaited(patches, out)'
    BY <1>1 DEF AInv
  <1>10. QED
    BY <1>1, <1>2, <1>4, <1>7, <1>9 DEF AInv, Label, Patch, Names, Pieces

\* An instruction whose operands can be read takes them from the line.
LEMMA Operated ==
  ASSUME AInv, At("instruction"), Unreadable = {}, NEW arity, arity = Len(Operands(Name))
  PROVE  /\ arity \in Nat /\ arity + 1 <= Len(tokens)
         /\ SubSeq(tokens, arity + 2, Len(tokens)) \in Seq(Pieces)
         /\ Len(SubSeq(tokens, arity + 2, Len(tokens))) = Len(tokens) - (arity + 1)
  <1>1. arity \in 0..3 /\ DOMAIN Operands(Name) = 1..arity
    BY Arity
  <1>2. Len(tokens) \in Nat /\ Len(tokens) >= 1 /\ tokens \in Seq(Pieces)
    BY InvTypes, HeadInfo DEF At, AInv
  <1> DEFINE n == Len(tokens)
  <1>3. arity + 1 <= n
    <2>1. CASE arity = 0
      BY <1>2, <2>1
    <2>2. CASE arity # 0
      <3>1. arity \in DOMAIN Operands(Name)
        BY <1>1, <2>2
      <3>2. ~(arity + 1 > n)
        BY <3>1 DEF Unreadable
      <3>3. QED
        BY <1>1, <1>2, <3>2
    <2>3. QED
      BY <2>1, <2>2
  <1>4. \A k \in (arity + 2)..n : tokens[k] \in Pieces
    <2>1. \A k \in (arity + 2)..n : k \in 1..n
      BY <1>1, <1>2
    <2>2. QED
      BY <1>2, <2>1, ElementOfSeq
  <1> HIDE DEF n
  <1>5. n \in Int /\ arity + 2 \in Int
    BY <1>1, <1>2 DEF n
  <1>6. /\ SubSeq(tokens, arity + 2, n) \in Seq(Pieces)
        /\ Len(SubSeq(tokens, arity + 2, n)) =
              IF arity + 2 <= n THEN n - (arity + 2) + 1 ELSE 0
    BY <1>4, <1>5, SubSeqProperties
  <1>7. (IF arity + 2 <= n THEN n - (arity + 2) + 1 ELSE 0) = n - (arity + 1)
    BY <1>1, <1>3, <1>5
  <1>8. QED
    BY <1>1, <1>3, <1>6, <1>7 DEF n

\* A jump or call has the name of a label behind it.
LEMMA LabelNamed ==
  ASSUME AInv, At("instruction"), Unreadable = {}, Name \in Transfers
  PROVE  SubSeq(tokens, 2, Len(Operands(Name)) + 1)[1].val \in Names
  <1>1. Operands(Name) = <<"label_addr">>
    BY DEF Operands, Transfers
  <1>2. Len(Operands(Name)) = 1
    BY <1>1
  <1>3. 2 <= Len(tokens) /\ tokens \in Seq(Pieces) /\ Len(tokens) \in Nat
    BY <1>2, Operated, InvTypes DEF AInv
  <1>4. tokens[2] \in Pieces
    BY <1>3, ElementOfSeq
  <1>5. SubSeq(tokens, 2, 2)[1] = tokens[2]
    <2>1. \A k \in 2..2 : tokens[k] \in Pieces
      BY <1>4
    <2>2. \A k \in 1..(2 - 2 + 1) : SubSeq(tokens, 2, 2)[k] = tokens[2 + k - 1]
      BY <2>1, SubSeqProperties
    <2>3. QED
      BY <2>2
  <1>6. QED
    BY <1>2, <1>4, <1>5 DEF Names

\* A word is written, and with it perhaps a patch for it.
LEMMA WordWritten ==
  ASSUME NEW S, NEW ps \in Seq(S), NEW words \in Seq(Word), Awaited(ps, words),
         NEW opcode \in Word
  PROVE  /\ Awaited(ps, Append(words, opcode))
         /\ \A patch \in S : (Addr(opcode) = 0 /\ patch.address = Entry + 2 * Len(words)) =>
                            Awaited(Append(ps, patch), Append(words, opcode))
  <1> DEFINE ws == Append(words, opcode)
             l  == Len(words)
             n  == Len(ps)
  <1>1. ws[l + 1] = opcode /\ Len(ws) = l + 1 /\ \A w \in 1..l : ws[w] = words[w]
    BY AddLast
  <1>2. l \in Nat /\ n \in Nat /\ Entry \in Nat
    BY LenProperties DEF Entry
  <1>3. (\A w \in 1..l : w \in 1..(l + 1)) /\ l + 1 \in 1..(l + 1) /\ (l + 1) - 1 = l
    BY <1>2
  <1> HIDE DEF ws
  <1>4. \A k \in 1..n : \E w \in 1..l : Awaits(ps[k].address, words, w)
    BY DEF Awaited
  <1>5. \A k \in 1..n : \E w \in 1..(l + 1) : Awaits(ps[k].address, ws, w)
    BY <1>1, <1>3, <1>4 DEF Awaits
  <1>6. \A j, k \in 1..n : j # k => ps[j].address # ps[k].address
    BY DEF Awaited
  <1>7. Awaited(ps, ws)
    BY <1>1, <1>5, <1>6 DEF Awaited
  <1>8. ASSUME NEW patch \in S, Addr(opcode) = 0, patch.address = Entry + 2 * l
        PROVE  Awaited(Append(ps, patch), ws)
    <2> DEFINE qs == Append(ps, patch)
    <2>1. Len(qs) = n + 1 /\ qs[n + 1] = patch /\ \A k \in 1..n : qs[k] = ps[k]
      BY AddLast
    <2> HIDE DEF qs
    <2>2. \A k \in 1..(n + 1) : k = n + 1 \/ k \in 1..n
      BY <1>2
    <2>3. Awaits(patch.address, ws, l + 1)
      BY <1>1, <1>3, <1>8 DEF Awaits
    <2>4. ASSUME NEW k \in 1..n PROVE ps[k].address # patch.address
      <3>1. PICK w \in 1..l : Awaits(ps[k].address, words, w)
        BY <1>4
      <3>2. ps[k].address = Entry + 2 * (w - 1)
        BY <3>1 DEF Awaits
      <3>3. QED
        BY <1>2, <1>8, <3>2
    <2>5. \A k \in 1..(n + 1) : \E w \in 1..(l + 1) : Awaits(qs[k].address, ws, w)
      <3>1. ASSUME NEW k \in 1..n PROVE \E w \in 1..(l + 1) : Awaits(qs[k].address, ws, w)
        BY <1>5, <2>1
      <3>2. \E w \in 1..(l + 1) : Awaits(qs[n + 1].address, ws, w)
        BY <1>3, <2>1, <2>3
      <3>3. QED
        BY <2>2, <3>1, <3>2
    <2>6. \A j, k \in 1..(n + 1) : j # k => qs[j].address # qs[k].address
      BY <1>6, <2>1, <2>2, <2>4
    <2>7. QED
      BY <1>1, <2>1, <2>5, <2>6 DEF Awaited, qs
  <1>9. QED
    BY <1>7, <1>8 DEF ws

LEMMA WordOfPatch ==
  ASSUME NEW n \in Nat, NEW w \in 1..n
  PROVE  WordOf(Entry + 2 * (w - 1)) = w
  BY DEF WordOf, Entry

\* The first patch is filled: the words of the others stay as they are.
LEMMA PatchFilled ==
  ASSUME NEW S, NEW ps \in Seq(S), ps # <<>>, NEW words \in Seq(Word), Awaited(ps, words),
         NEW opcode \in Word
  PROVE  /\ WordOf(Head(ps).address) \in 1..Len(words)
         /\ Awaited(Tail(ps), [words EXCEPT ![WordOf(Head(ps).address)] = opcode])
  <1> DEFINE h  == WordOf(Head(ps).address)
             ws == [words EXCEPT ![h] = opcode]
             qs == Tail(ps)
             l  == Len(words)
             n  == Len(ps)
  <1>1. n \in Nat /\ n >= 1 /\ Len(qs) = n - 1 /\ \A k \in 1..(n - 1) : qs[k] = ps[k + 1]
    BY HeadTailProperties, LastIndex
  <1>2. l \in Nat /\ Head(ps) = ps[1]
    BY LenProperties
  <1>3. \A k \in 1..n : \E w \in 1..l : Awaits(ps[k].address, words, w)
    BY DEF Awaited
  <1>4. \A j, k \in 1..n : j # k => ps[j].address # ps[k].address
    BY DEF Awaited
  <1>5. PICK v \in 1..l : Awaits(ps[1].address, words, v)
    BY <1>1, <1>3
  <1>6. ps[1].address = Entry + 2 * (v - 1)
    BY <1>5 DEF Awaits
  <1>7. h = v
    BY <1>2, <1>6, WordOfPatch
  <1>8. Len(ws) = l /\ \A w \in 1..l : w # v => ws[w] = words[w]
    BY <1>7, ExceptSeq
  <1> HIDE DEF ws, qs, h
  <1>9. \A k \in 1..(n - 1) : k + 1 \in 1..n /\ k + 1 # 1
    BY <1>1
  <1>10. ASSUME NEW k \in 1..(n - 1)
         PROVE  \E w \in 1..l : Awaits(qs[k].address, ws, w)
    <2>1. PICK w \in 1..l : Awaits(ps[k + 1].address, words, w)
      BY <1>3, <1>9
    <2>2. ps[k + 1].address # ps[1].address
      BY <1>1, <1>4, <1>9
    <2>3. w # v
      BY <1>5, <2>1, <2>2 DEF Awaits
    <2>4. Awaits(qs[k].address, ws, w)
      BY <1>1, <1>8, <2>1, <2>3 DEF Awaits
    <2>5. QED
      BY <2>4
  <1>11. \A j, k \in 1..(n - 1) : j # k => qs[j].address # qs[k].address
    <2>1. \A j, k \in 1..(n - 1) : j # k => j + 1 # k + 1
      BY <1>1
    <2>2. QED
      BY <1>1, <1>4, <1>9, <2>1
  <1>12. Awaited(qs, ws)
    BY <1>1, <1>8, <1>10, <1>11 DEF Awaited
  <1>13. QED
    BY <1>7, <1>12 DEF h, ws, qs

-----------------------------------------------------------------------------
(* The steps that write.                                                   *)

LEMMA ProcessInstructionInv == ASSUME AInv, ProcessInstruction PROVE AInv'
  <1> DEFINE arity == Len(Operands(Name))
             args  == SubSeq(tokens, 2, arity + 1)
             label == args[1].val
             word  == IF Name \in Transfers THEN Encode(Name, args, LabelAddr(label))
                      ELSE Encode(Name, args, 0)
             patch == [address |-> pc, name |-> label]
  <1>1. /\ At("instruction") /\ Unreadable = {} /\ tokens # <<>> /\ status = "reading"
        /\ out' = Append(out, word)
        /\ \/ patches' = patches
           \/ patches' = Append(patches, patch) /\ Name \in Transfers /\ LabelAddr(label) = 0
        /\ pc' = pc + 2 /\ pc + 2 < PcRange
        /\ tokens' = SubSeq(tokens, arity + 2, Len(tokens))
        /\ UNCHANGED <<source, lines, line, labels, status>>
    BY DEF ProcessInstruction, At, OutputAddWord, BackpatchHere
  <1>2. word \in Word
    BY EncodeType
  <1>3. (Name \in Transfers /\ LabelAddr(label) = 0) => Addr(word) = 0
    BY AwaitingWord
  <1>4. Name \in Transfers => label \in Names
    BY <1>1, LabelNamed
  <1>5. /\ arity \in Nat /\ tokens' \in Seq(Pieces) /\ Len(tokens') = Len(tokens) - (arity + 1)
        /\ arity + 1 <= Len(tokens)
    BY <1>1, Operated
  <1> HIDE DEF arity, args, label, word
  <1>6. /\ out' \in Seq(Word) /\ Len(out') = Len(out) + 1
        /\ Len(out) \in Nat /\ Len(tokens) \in Nat
    BY <1>1, <1>2, AddLast, InvTypes DEF AInv
  <1>7. pc' = Entry + 2 * Len(out') /\ pc' < PcRange
    <2>1. pc = Entry + 2 * Len(out) /\ Entry \in Nat
      BY InvTypes DEF AInv
    <2>2. QED
      BY <1>1, <1>6, <2>1
  <1>9. patches' \in Seq(Patch) /\ Awaited(patches', out')
    <2>1. CASE patches' = patches
      BY <1>1, <1>2, <2>1, WordWritten DEF AInv
    <2>2. CASE patches' = Append(patches, patch) /\ Name \in Transfers /\ LabelAddr(label) = 0
      <3>1. patch \in Patch
        BY <1>4, <2>2, InvTypes DEF Patch
      <3>2. patch.address = Entry + 2 * Len(out)
        BY DEF AInv
      <3> HIDE DEF patch
      <3>3. patches' \in Seq(Patch)
        BY <2>2, <3>1, AddLast DEF AInv
      <3>4. Awaited(Append(patches, patch), Append(out, word))
        BY <1>2, <1>3, <2>2, <3>1, <3>2, WordWritten DEF AInv
      <3>5. QED
        BY <1>1, <2>2, <3>3, <3>4
    <2>3. QED
      BY <1>1, <2>1, <2>2
  <1>10. \A k \in 1..Len(labels') : labels'[k].address \in Entry..pc'
    <2>1. Entry \in Int /\ pc \in Int /\ pc' = pc + 2
      <3>1. pc = Entry + 2 * Len(out) /\ Entry \in Int /\ pc \in Int
        BY InvTypes DEF AInv
      <3>2. QED
        BY <1>6, <1>7, <3>1
    <2>2. Entry..pc \subseteq Entry..pc'
      BY <2>1
    <2>3. QED
      BY <1>1, <2>2 DEF AInv
  <1>11. Pieces' = Pieces /\ Names' = Names /\ Label' = Label /\ Patch' = Patch
    BY <1>1 DEF Pieces, Names, Label, Patch
  <1>12. QED
    BY <1>1, <1>5, <1>6, <1>7, <1>9, <1>10, <1>11 DEF AInv

LEMMA FillBackpatchInv == ASSUME AInv, FillBackpatch PROVE AInv'
  <1> DEFINE w == WordOf(Head(patches).address)
             word == Or16(out[w], LabelAddr(Head(patches).name))
  <1>1. /\ status = "patching" /\ patches # <<>>
        /\ out' = [out EXCEPT ![w] = word]
        /\ patches' = Tail(patches)
        /\ UNCHANGED <<source, lines, line, tokens, pc, labels, status>>
    BY DEF FillBackpatch
  <1>2. word \in Word
    BY Or16Type
  <1> HIDE DEF word
  <1>3. patches \in Seq(Patch) /\ out \in Seq(Word) /\ Awaited(patches, out)
    BY DEF AInv
  <1>4. w \in 1..Len(out) /\ Awaited(patches', out')
    BY <1>1, <1>2, <1>3, PatchFilled
  <1>5. patches' \in Seq(Patch)
    BY <1>1, <1>3, HeadTailProperties
  <1> HIDE DEF w
  <1>6. out' \in Seq(Word) /\ Len(out') = Len(out)
    BY <1>1, <1>2, <1>3, <1>4, ExceptSeq
  <1>8. Pieces' = Pieces /\ Names' = Names /\ Label' = Label /\ Patch' = Patch
    BY <1>1 DEF Pieces, Names, Label, Patch
  <1>9. QED
    BY <1>1, <1>4, <1>5, <1>6, <1>8 DEF AInv

LEMMA StepInv == AInv /\ [Next]_vars => AInv'
  <1> SUFFICES ASSUME AInv, [Next]_vars PROVE AInv'
    OBVIOUS
  <1>1. CASE UNCHANGED vars
    BY <1>1 DEF vars, AInv, Label, Patch, Names, Pieces
  <1>2. CASE StrToLines
    BY <1>2, StrToLinesInv
  <1>3. CASE ReadLine
    BY <1>3, ReadLineInv
  <1>4. CASE NewLabel
    BY <1>4, NewLabelInv
  <1>5. CASE ProcessInstruction
    BY <1>5, ProcessInstructionInv
  <1>6. CASE FillBackpatch
    BY <1>6, FillBackpatchInv
  <1>7. CASE \/ ReadWild \/ WrapPc \/ RejectOperand \/ SyntaxError
             \/ EndOfSource \/ LabelNotFound \/ OutputSave
    BY <1>7, StatusSteps
  <1>8. QED
    BY <1>1, <1>2, <1>3, <1>4, <1>5, <1>6, <1>7 DEF Next

LEMMA Inductive == Spec => []AInv
  BY InitInv, StepInv, PTL DEF Spec

LEMMA InvTypeOK == AInv => TypeOK
  <1> SUFFICES ASSUME AInv PROVE TypeOK
    OBVIOUS
  <1>1. DOMAIN labels = 1..Len(labels) /\ DOMAIN patches = 1..Len(patches)
    BY LenProperties DEF AInv
  <1>2. ASSUME NEW k \in 1..Len(patches) PROVE patches[k].address \in Entry..(pc - 2)
    <2>1. PICK w \in 1..Len(out) : Awaits(patches[k].address, out, w)
      BY DEF AInv, Awaited
    <2> DEFINE n == Len(out)
    <2>2. patches[k].address = Entry + 2 * (w - 1) /\ pc = Entry + 2 * n
      BY <2>1 DEF Awaits, AInv
    <2>3. n \in Nat /\ Entry \in Nat /\ w \in 1..n
      BY InvTypes
    <2> HIDE DEF n
    <2>4. patches[k].address \in Int /\ pc \in Int
          /\ Entry <= patches[k].address /\ patches[k].address <= pc - 2
      BY <2>2, <2>3
    <2> DEFINE address == patches[k].address
    <2>5. address \in Entry..(pc - 2)
      <3> HIDE DEF address
      <3>1. address \in Int /\ pc \in Int /\ Entry <= address /\ address <= pc - 2
        BY <2>4 DEF address
      <3>2. QED
        BY <2>3, <3>1
    <2>6. QED
      BY <2>5
  <1>3. QED
    BY <1>1, <1>2 DEF AInv, TypeOK

LEMMA InvPatchesAwaited == AInv => PatchesAwaited
  <1> SUFFICES ASSUME AInv PROVE PatchesAwaited
    OBVIOUS
  <1>1. DOMAIN patches = 1..Len(patches)
    BY LenProperties DEF AInv
  <1>2. ASSUME NEW k \in 1..Len(patches) PROVE Addr(out[WordOf(patches[k].address)]) = 0
    <2>1. PICK w \in 1..Len(out) : Awaits(patches[k].address, out, w)
      BY DEF AInv, Awaited
    <2>2. WordOf(patches[k].address) = w
      BY <2>1, WordOfPatch, InvTypes DEF Awaits
    <2>3. QED
      BY <2>1, <2>2 DEF Awaits
  <1>3. QED
    BY <1>1, <1>2 DEF AInv, Awaited, PatchesAwaited

\* The types of the assembler's state, the pc as the count of the words written, and
\* that no address and no back patch lies outside of what was written: for every set
\* of sources that fit in memory, and every length of a line.
THEOREM TypeCorrect == Spec => []TypeOK
  BY Inductive, InvTypeOK, PTL

\* fillBackpatches ors each address into a word that has none yet, once: no two patches
\* are for the same word, and the words that were patched are not touched again.
THEOREM PatchesCorrect == Spec => []PatchesAwaited
  BY Inductive, InvPatchesAwaited, PTL

-----------------------------------------------------------------------------
(* What has been read: the words and labels in the tokens up to one of them.*)

\* The elements of a set of numbers, in ascending order.
Enumerates(e, S) ==
    /\ e \in Seq(Nat)
    /\ \A i \in 1..Len(e) : e[i] \in S
    /\ \A p \in S : \E i \in 1..Len(e) : p = e[i]
    /\ \A i, j \in 1..Len(e) : i < j => e[i] < e[j]

\* Up to piece c, the source was read as words that begin at the positions in S.
ReadUpTo(S, c) ==
    /\ S \subseteq T!Instructions
    /\ \A p \in S : /\ p + Len(Operands(source[p].val)) <= c
                    /\ T!Behind(p) \subseteq T!Shown \ S
                    /\ T!Readable(p)
    /\ \A p \in T!Shown : p <= c => p \in S \cup T!Taken(S) \/ T!Is(p, "label")

\* The labels among these pieces.
LabelsIn(S, c) == { p \in T!Shown \ T!Taken(S) : p <= c /\ T!Is(p, "label") }

LEMMA EnumerateMore ==
  ASSUME NEW e, NEW S, Enumerates(e, S), NEW q \in Nat, \A p \in S : p < q
  PROVE  Enumerates(Append(e, q), S \cup {q}) /\ Len(Append(e, q)) = Len(e) + 1
  <1> DEFINE f == Append(e, q)
             n == Len(e)
  <1>1. /\ e \in Seq(Nat) /\ n \in Nat
        /\ \A i \in 1..n : e[i] \in S
        /\ \A p \in S : \E i \in 1..n : p = e[i]
        /\ \A i, j \in 1..n : i < j => e[i] < e[j]
    BY LenProperties DEF Enumerates
  <1>2. f \in Seq(Nat) /\ Len(f) = n + 1 /\ f[n + 1] = q /\ \A i \in 1..n : f[i] = e[i]
    BY <1>1, AddLast
  <1>3. /\ \A i \in 1..(n + 1) : i = n + 1 \/ i \in 1..n
        /\ n + 1 \in 1..(n + 1)
        /\ \A i \in 1..n : i \in 1..(n + 1) /\ ~(n + 1 < i)
        /\ ~(n + 1 < n + 1)
    BY <1>1
  <1> HIDE DEF f, n
  <1>4. \A i \in 1..(n + 1) : f[i] \in S \cup {q}
    BY <1>1, <1>2, <1>3
  <1>5. \A p \in S \cup {q} : \E i \in 1..(n + 1) : p = f[i]
    BY <1>1, <1>2, <1>3
  <1>6. \A i, j \in 1..(n + 1) : i < j => f[i] < f[j]
    BY <1>1, <1>2, <1>3
  <1>7. Enumerates(f, S \cup {q})
    BY <1>2, <1>4, <1>5, <1>6 DEF Enumerates
  <1>8. QED
    BY <1>2, <1>7 DEF f, n

LEMMA SameCardinality == ASSUME NEW S PROVE T!Cardinality(S) = Cardinality(S)
  BY DEF T!Cardinality, Cardinality

\* The elements in front of an element, or of a number behind some of them.
LEMMA EnumeratedBefore ==
  ASSUME NEW e, NEW S, Enumerates(e, S), NEW m \in 0..Len(e), NEW q \in Nat,
         \A i \in 1..Len(e) : e[i] < q <=> i <= m
  PROVE  T!Cardinality({ p \in S : p < q }) = m
  <1> DEFINE B == { p \in S : p < q }
             f == [i \in 1..m |-> e[i]]
             n == Len(e)
  <1>1. /\ e \in Seq(Nat) /\ n \in Nat
        /\ \A i \in 1..n : e[i] \in S /\ e[i] \in Nat
        /\ \A p \in S : \E i \in 1..n : p = e[i]
        /\ \A i, j \in 1..n : i < j => e[i] < e[j]
    BY LenProperties, ElementOfSeq DEF Enumerates
  <1>2. m \in Nat /\ \A i \in 1..m : i \in 1..n /\ i <= m
    BY <1>1
  <1>3. f \in [1..m -> B]
    BY <1>1, <1>2
  <1>4. ASSUME NEW i \in 1..m, NEW j \in 1..m, f[i] = f[j] PROVE i = j
    <2>1. e[i] = e[j] /\ e[i] \in Nat /\ e[j] \in Nat
      BY <1>1, <1>2, <1>4
    <2>2. ~(i < j) /\ ~(j < i)
      BY <1>1, <1>2, <2>1
    <2>3. QED
      BY <1>2, <2>2
  <1>5. ASSUME NEW p \in B PROVE \E i \in 1..m : f[i] = p
    <2>1. PICK i \in 1..n : p = e[i]
      BY <1>1
    <2>2. i <= m
      BY <2>1
    <2>3. i \in 1..m
      BY <1>2, <2>1, <2>2
    <2>4. QED
      BY <2>1, <2>3
  <1> HIDE DEF f, B
  <1>6. f \in Bijection(1..m, B)
    BY <1>3, <1>4, <1>5 DEF Bijection, Injection, Surjection, IsInjective
  <1>7. Cardinality(B) = m
    BY <1>2, <1>6, FS_CountingElements DEF ExistsBijection
  <1>8. QED
    BY <1>7, SameCardinality DEF B

\* The address of the i-th word, and of what is behind the last one.
LEMMA AddressOfWord ==
  ASSUME NEW e, NEW S, Enumerates(e, S), NEW i \in 1..Len(e)
  PROVE  T!AddressAt(S, e[i]) = Entry + 2 * (i - 1)
  <1>1. /\ e \in Seq(Nat) /\ Len(e) \in Nat /\ e[i] \in Nat
        /\ \A j, k \in 1..Len(e) : j < k => e[j] < e[k]
        /\ \A j \in 1..Len(e) : e[j] \in Nat
    BY LenProperties, ElementOfSeq DEF Enumerates
  <1>2. i - 1 \in 0..Len(e)
    BY <1>1
  <1>3. ASSUME NEW j \in 1..Len(e) PROVE e[j] < e[i] <=> j <= i - 1
    <2>1. e[j] \in Nat /\ e[i] \in Nat /\ j \in Nat /\ i \in Nat
      BY <1>1
    <2>2. CASE j < i
      BY <1>1, <2>1, <2>2
    <2>3. CASE i < j
      <3>1. e[i] < e[j]
        BY <1>1, <2>3
      <3>2. QED
        BY <2>1, <2>3, <3>1
    <2>4. CASE i = j
      BY <2>1, <2>4
    <2>5. QED
      BY <2>1, <2>2, <2>3, <2>4
  <1> DEFINE q == e[i]
             m == i - 1
  <1>4. q \in Nat /\ m \in 0..Len(e) /\ \A j \in 1..Len(e) : e[j] < q <=> j <= m
    BY <1>1, <1>2, <1>3
  <1> HIDE DEF q, m
  <1>5. T!Cardinality({ p \in S : p < q }) = m
    BY <1>4, EnumeratedBefore
  <1>6. T!AddressAt(S, q) = Entry + 2 * m
    BY <1>5 DEF T!AddressAt
  <1>7. QED
    BY <1>6 DEF q, m

LEMMA AddressBehind ==
  ASSUME NEW e, NEW S, Enumerates(e, S), NEW q \in Nat, \A p \in S : p < q
  PROVE  /\ T!AddressAt(S, q) = Entry + 2 * Len(e)
         /\ T!Cardinality(S) = Len(e)
  <1>1. /\ e \in Seq(Nat) /\ Len(e) \in Nat
        /\ \A j \in 1..Len(e) : e[j] \in S
    BY LenProperties DEF Enumerates
  <1>2. Len(e) \in 0..Len(e) /\ \A j \in 1..Len(e) : e[j] < q <=> j <= Len(e)
    BY <1>1
  <1>3. T!Cardinality({ p \in S : p < q }) = Len(e)
    BY <1>2, EnumeratedBefore
  <1>4. { p \in S : p < q } = S
    OBVIOUS
  <1>5. QED
    BY <1>3, <1>4 DEF T!AddressAt

LEMMA AddressStays ==
  ASSUME NEW S, NEW p, NEW q \in Nat, p \in Nat, q <= p
  PROVE  T!AddressAt(S \cup {p}, q) = T!AddressAt(S, q)
  <1>1. { r \in S \cup {p} : r < q } = { r \in S : r < q }
    OBVIOUS
  <1>2. QED
    BY <1>1 DEF T!AddressAt

\* What is between two readings is not shown.
LEMMA ReadNothing ==
  ASSUME SourceTyped, NEW S, NEW c \in Nat, NEW d \in Nat, ReadUpTo(S, c), c <= d,
         \A p \in (c + 1)..d : p \notin T!Shown
  PROVE  ReadUpTo(S, d) /\ LabelsIn(S, d) = LabelsIn(S, c)
  <1>1. ASSUME NEW p \in T!Shown PROVE p <= d <=> p <= c
    <2>1. p \in Nat
      BY ShownRange
    <2>2. QED
      BY <2>1
  <1>2. LabelsIn(S, d) = LabelsIn(S, c)
    BY <1>1 DEF LabelsIn
  <1>3. ASSUME NEW p \in S PROVE p + Len(Operands(source[p].val)) <= d
    <2>1. p \in Nat /\ Len(Operands(source[p].val)) \in Nat
          /\ p + Len(Operands(source[p].val)) <= c
      BY ShownRange DEF ReadUpTo
    <2>2. QED
      BY <2>1
  <1>4. QED
    BY <1>1, <1>2, <1>3 DEF ReadUpTo

\* What is behind an instruction that was read, was read.
LEMMA TakenRead ==
  ASSUME SourceTyped, NEW S, NEW c \in Nat, ReadUpTo(S, c)
  PROVE  /\ \A p \in S : p \in Nat /\ p <= c
         /\ \A p \in S : \A q \in T!Behind(p) : q \in Nat /\ p < q /\ q <= c
         /\ \A q \in T!Taken(S) : q \in Nat /\ q <= c
  <1>1. ASSUME NEW p \in S
        PROVE  p \in Nat /\ p <= c /\ \A q \in T!Behind(p) : q \in Nat /\ p < q /\ q <= c
    <2> DEFINE a == Len(Operands(source[p].val))
    <2>1. p \in Nat /\ a \in Nat /\ p + a <= c /\ T!Behind(p) = (p + 1)..(p + a)
      BY ShownRange DEF ReadUpTo
    <2> HIDE DEF a
    <2>2. QED
      BY <2>1
  <1>2. QED
    BY <1>1 DEF T!Taken

\* The next token is a label, or an instruction whose operands can be read.
LEMMA ReadLabel ==
  ASSUME SourceTyped, NEW S, NEW c \in Nat, ReadUpTo(S, c),
         c + 1 \in T!Shown, T!Is(c + 1, "label")
  PROVE  ReadUpTo(S, c + 1) /\ LabelsIn(S, c + 1) = LabelsIn(S, c) \cup {c + 1}
  <1>1. \A p \in T!Shown : p \in Nat /\ (p <= c + 1 <=> p <= c \/ p = c + 1)
    BY ShownRange
  <1>2. c + 1 \notin T!Taken(S)
    BY TakenRead
  <1>3. LabelsIn(S, c + 1) = LabelsIn(S, c) \cup {c + 1}
    BY <1>1, <1>2 DEF LabelsIn
  <1>4. ASSUME NEW p \in S PROVE p + Len(Operands(source[p].val)) <= c + 1
    <2>1. p \in Nat /\ Len(Operands(source[p].val)) \in Nat
          /\ p + Len(Operands(source[p].val)) <= c
      BY ShownRange DEF ReadUpTo
    <2>2. QED
      BY <2>1
  <1>5. ReadUpTo(S, c + 1)
    BY <1>1, <1>4 DEF ReadUpTo
  <1>6. QED
    BY <1>3, <1>5

LEMMA ReadInstruction ==
  ASSUME SourceTyped, NEW S, NEW c \in Nat, ReadUpTo(S, c),
         c + 1 \in T!Instructions, T!Behind(c + 1) \subseteq T!Shown, T!Readable(c + 1),
         NEW d, d = c + 1 + Len(Operands(source[c + 1].val))
  PROVE  ReadUpTo(S \cup {c + 1}, d) /\ LabelsIn(S \cup {c + 1}, d) = LabelsIn(S, c)
  <1> DEFINE a == Len(Operands(source[c + 1].val))
             R == S \cup {c + 1}
  <1>1. /\ a \in Nat /\ T!Behind(c + 1) = (c + 1 + 1)..(c + 1 + a) /\ d = c + 1 + a
        /\ c + 1 \in Nat
    BY ShownRange
  <1> HIDE DEF a
  <1>2. d \in Nat /\ c <= d /\ c + 1 <= d
    BY <1>1
  <1>3. \A q : q \in T!Behind(c + 1) <=> q \in Nat /\ c + 1 < q /\ q <= d
    BY <1>1
  <1>4. T!Taken(R) = T!Taken(S) \cup T!Behind(c + 1)
    BY DEF T!Taken
  <1>5. \A p \in T!Shown : p <= d <=> p <= c \/ p = c + 1 \/ p \in T!Behind(c + 1)
    <2>1. \A p \in Nat : p <= d <=> p <= c \/ p = c + 1 \/ (c + 1 < p /\ p <= d)
      BY <1>2
    <2>2. \A p \in T!Shown : p \in Nat
      BY ShownRange
    <2>3. QED
      BY <1>3, <2>1, <2>2
  <1>6. \A p \in S : T!Behind(p) \subseteq T!Shown \ R
    <2>1. \A p \in S : c + 1 \notin T!Behind(p)
      BY TakenRead
    <2>2. \A p \in S : T!Behind(p) \subseteq T!Shown \ S
      BY DEF ReadUpTo
    <2>3. QED
      BY <2>1, <2>2
  <1>7. T!Behind(c + 1) \subseteq T!Shown \ R
    BY <1>3, TakenRead
  <1>8. ASSUME NEW p \in S PROVE p + Len(Operands(source[p].val)) <= d
    <2> DEFINE b == Len(Operands(source[p].val))
    <2>1. p \in Nat /\ b \in Nat /\ p + b <= c
      BY ShownRange DEF ReadUpTo
    <2> HIDE DEF b
    <2>2. QED
      BY <1>2, <2>1 DEF b
  <1>9. c + 1 + Len(Operands(source[c + 1].val)) <= d
    BY <1>2
  <1>10. ReadUpTo(R, d)
    <2>1. R \subseteq T!Instructions
      BY DEF ReadUpTo
    <2>2. \A p \in R : /\ p + Len(Operands(source[p].val)) <= d
                       /\ T!Behind(p) \subseteq T!Shown \ R
                       /\ T!Readable(p)
      BY <1>6, <1>7, <1>8, <1>9 DEF ReadUpTo
    <2>3. \A p \in T!Shown : p <= d => p \in R \cup T!Taken(R) \/ T!Is(p, "label")
      BY <1>4, <1>5 DEF ReadUpTo
    <2>4. QED
      BY <2>1, <2>2, <2>3 DEF ReadUpTo
  <1>11. ~T!Is(c + 1, "label")
    BY DEF T!Instructions, T!Is
  <1>12. \A p \in T!Taken(S) : p <= c
    BY TakenRead
  <1>13. \A p \in T!Behind(c + 1) : ~(p <= c)
    BY <1>3
  <1>14. LabelsIn(R, d) = LabelsIn(S, c)
    BY <1>4, <1>5, <1>11, <1>12, <1>13 DEF LabelsIn
  <1>15. QED
    BY <1>10, <1>14

\* There is only one way to read the source.
LEMMA ReadingsAgree ==
  ASSUME SourceTyped, NEW S, NEW c \in Nat, ReadUpTo(S, c),
         NEW R \in SUBSET T!Instructions, T!Reading(R)
  PROVE  \A p \in Nat : p <= c => (p \in S <=> p \in R)
  <1> DEFINE D == { p \in Nat : p <= c /\ ~(p \in S <=> p \in R) }
  <1> SUFFICES ASSUME D # {} PROVE FALSE
    OBVIOUS
  <1>1. D \in SUBSET Nat
    OBVIOUS
  <1>2. PICK p \in D : \A k \in D : ~(k < p)
    BY <1>1, LeastNatural
  <1>3. p \in Nat /\ p <= c
    OBVIOUS
  <1>4. \A r \in Nat : r < p => (r \in S <=> r \in R)
    BY <1>2, <1>3
  <1> HIDE DEF D
  <1>5. /\ \A r \in S : r \in Nat /\ r \in T!Instructions
        /\ \A r \in R : r \in Nat /\ r \in T!Instructions
        /\ \A r \in T!Instructions : r \in T!Shown /\ ~T!Is(r, "label")
    BY ShownRange DEF ReadUpTo, T!Instructions, T!Is
  <1>6. \A r \in Nat : \A q \in T!Behind(r) : r < q
    BY ShownRange
  <1>7. /\ \A r \in S : T!Behind(r) \subseteq T!Shown \ S
        /\ \A r \in R : T!Behind(r) \subseteq T!Shown \ R
    BY DEF ReadUpTo, T!Reading
  <1>8. CASE p \in S /\ p \notin R
    <2>1. p \in T!Taken(R)
      BY <1>5, <1>8 DEF T!Reading
    <2>2. PICK r \in R : p \in T!Behind(r)
      BY <2>1 DEF T!Taken
    <2>3. r \in S
      BY <1>4, <1>5, <1>6, <2>2
    <2>4. QED
      BY <1>7, <1>8, <2>2, <2>3
  <1>9. CASE p \in R /\ p \notin S
    <2>1. p \in T!Taken(S)
      BY <1>3, <1>5, <1>9 DEF ReadUpTo
    <2>2. PICK r \in S : p \in T!Behind(r)
      BY <2>1 DEF T!Taken
    <2>3. r \in R
      BY <1>4, <1>5, <1>6, <2>2
    <2>4. QED
      BY <1>7, <1>9, <2>2, <2>3
  <1>10. QED
    BY <1>2, <1>8, <1>9 DEF D

\* How the piece behind what was read must be read.
LEMMA ReadingGoesOn ==
  ASSUME SourceTyped, NEW S, NEW c \in Nat, ReadUpTo(S, c), c + 1 \in T!Shown,
         NEW R \in SUBSET T!Instructions, T!Reading(R)
  PROVE  c + 1 \in R \/ T!Is(c + 1, "label")
  <1> SUFFICES ASSUME c + 1 \in T!Taken(R) PROVE FALSE
    BY DEF T!Reading
  <1>1. PICK r \in R : c + 1 \in T!Behind(r)
    BY DEF T!Taken
  <1>2. r \in Nat /\ r < c + 1
    BY <1>1, ShownRange
  <1>3. r \in S
    BY <1>2, ReadingsAgree
  <1>4. QED
    BY <1>1, <1>3, TakenRead

-----------------------------------------------------------------------------
(* How the state of the assembler shows what has been read.                *)

\* The operands of the instruction at p, as the assembler takes them.
ArgsAt(p) == SubSeq(source, p + 1, p + Len(Operands(source[p].val)))

\* What is left of the current line are the pieces behind c, up to the line's end.
Placed(start, c) ==
    /\ Layout(start, lines, Len(source))
    /\ ~TooLong(lines)
    /\ c \in Nat /\ c + Len(tokens) <= start[line + 1]
    /\ \A j \in 1..Len(tokens) : c + j \in T!Shown /\ tokens[j] = source[c + j]
    /\ \A p \in (c + Len(tokens) + 1)..start[line + 1] : p \notin T!Shown
    /\ tokens # <<>> => c + Len(tokens) + 1 \notin T!Shown
    /\ \A p \in T!Shown : p <= c + Len(tokens) => ~Unrecognized(source[p])

\* The words that begin at the positions S, those of e in order, were read, and the
\* labels between them, those of d, have got their addresses.
Recorded(S, c, e, d) ==
    /\ ReadUpTo(S, c)
    /\ Enumerates(e, S) /\ Len(e) = Len(out)
    /\ Enumerates(d, LabelsIn(S, c)) /\ Len(d) = Len(labels)
    /\ \A k \in 1..Len(d) :
          labels[k] = [name |-> source[d[k]].val, address |-> T!AddressAt(S, d[k])]

\* The word of the instruction at p is as it stays.
Final(p, word) ==
    /\ source[p].val \notin Transfers => word = Encode(source[p].val, ArgsAt(p), 0)
    /\ source[p].val \in Transfers =>
          /\ Found(source[p + 1].val) # {}
          /\ word = Encode(source[p].val, ArgsAt(p), LabelAddr(source[p + 1].val))

\* It waits for this back patch.
Waits(patch, p, w) ==
    /\ patch.address = Entry + 2 * (w - 1)
    /\ source[p].val \in Transfers /\ patch.name = source[p + 1].val
    /\ out[w] = Encode(source[p].val, ArgsAt(p), 0)

Written(e) ==
    /\ \A w \in 1..Len(out) : \/ Final(e[w], out[w])
                              \/ \E k \in 1..Len(patches) : Waits(patches[k], e[w], w)
    /\ \A k \in 1..Len(patches) : \E w \in 1..Len(out) : Waits(patches[k], e[w], w)

Progress == \E start, c, S, e, d : Placed(start, c) /\ Recorded(S, c, e, d) /\ Written(e)

\* What relates the state of the assembler to the source.
GInv ==
    /\ status \in {"reading", "patching"} => Progress
    /\ status = "patching" => line = Len(lines) /\ tokens = <<>>
    /\ status = "splitting" => labels = <<>> /\ patches = <<>>

LEMMA SourceKept ==
  ASSUME UNCHANGED source
  PROVE  /\ T!Shown' = T!Shown
         /\ \A S, c : ReadUpTo(S, c)' <=> ReadUpTo(S, c)
         /\ \A S, c : LabelsIn(S, c)' = LabelsIn(S, c)
         /\ \A start, ls, n : Layout(start, ls, n)' <=> Layout(start, ls, n)
         /\ \A p : ArgsAt(p)' = ArgsAt(p)
  <1>1. T!Shown' = T!Shown
    BY DEF T!Shown
  <1>2. T!Instructions' = T!Instructions
    BY <1>1 DEF T!Instructions, T!Is
  <1>3. \A S : T!Taken(S)' = T!Taken(S)
    BY DEF T!Taken, T!Behind
  <1>4. \A S, c : ReadUpTo(S, c)' <=> ReadUpTo(S, c)
    BY <1>1, <1>2, <1>3 DEF ReadUpTo, T!Behind, T!Readable, T!Is
  <1>5. \A S, c : LabelsIn(S, c)' = LabelsIn(S, c)
    BY <1>1, <1>3 DEF LabelsIn, T!Is
  <1>6. \A start, ls, n : Layout(start, ls, n)' <=> Layout(start, ls, n)
    BY <1>1 DEF Layout, Starts
  <1>7. \A p : ArgsAt(p)' = ArgsAt(p)
    BY DEF ArgsAt
  <1>8. QED
    BY <1>1, <1>4, <1>5, <1>6, <1>7

LEMMA FinalKept ==
  ASSUME UNCHANGED <<source, labels>>, NEW p, NEW word
  PROVE  Final(p, word)' <=> Final(p, word)
  <1>1. \A name : Found(name)' = Found(name)
    BY DEF Found
  <1>2. \A name : LabelAddr(name)' = LabelAddr(name)
    BY <1>1 DEF LabelAddr
  <1>3. ArgsAt(p)' = ArgsAt(p)
    BY SourceKept
  <1>4. QED
    BY <1>1, <1>2, <1>3 DEF Final

LEMMA WrittenKept ==
  ASSUME UNCHANGED <<source, labels, patches, out>>, NEW e, Written(e)
  PROVE  Written(e)'
  BY DEF Written, Final, Waits, Found, LabelAddr, ArgsAt

LEMMA PlacedKept ==
  ASSUME UNCHANGED <<source, lines, line, tokens>>, NEW start, NEW c, Placed(start, c)
  PROVE  Placed(start, c)'
  BY SourceKept DEF Placed, Layout, Starts, TooLong

LEMMA RecordedKept ==
  ASSUME UNCHANGED <<source, labels>>, Len(out') = Len(out),
         NEW S, NEW c, NEW e, NEW d, Recorded(S, c, e, d)
  PROVE  Recorded(S, c, e, d)'
  <1>1. ReadUpTo(S, c)' /\ LabelsIn(S, c)' = LabelsIn(S, c)
    BY SourceKept DEF Recorded
  <1>2. QED
    BY <1>1 DEF Recorded, Enumerates

LEMMA ProgressKept ==
  ASSUME Progress, UNCHANGED <<source, lines, line, tokens, labels, patches, out>>
  PROVE  Progress'
  <1>1. PICK start, c, S, e, d : Placed(start, c) /\ Recorded(S, c, e, d) /\ Written(e)
    BY DEF Progress
  <1>2. Placed(start, c)'
    BY <1>1, PlacedKept
  <1>3. Recorded(S, c, e, d)'
    BY <1>1, RecordedKept
  <1>4. Written(e)'
    BY <1>1, WrittenKept
  <1>5. QED
    BY <1>2, <1>3, <1>4 DEF Progress

\* Nothing is read yet.
LEMMA StrToLinesProgress ==
  ASSUME AInv, GInv, StrToLines, status' = "reading"
  PROVE  Progress'
  <1>1. /\ status = "splitting" /\ lines' = Scanned.lines /\ ~Scanned.long
        /\ UNCHANGED <<source, line, tokens, pc, labels, patches, out>>
    BY DEF StrToLines
  <1>2. /\ line = 0 /\ tokens = <<>> /\ out = <<>> /\ labels = <<>> /\ patches = <<>>
        /\ SourceTyped /\ Scanned \in Scans
    BY <1>1, InvTypes, ScannedLayout DEF AInv, GInv
  <1>3. PICK start : ScanOf(Scanned, start, Len(source))
    BY <1>2, ScannedLayout
  <1>4. Layout(start, lines', Len(source)) /\ ~TooLong(lines')
    BY <1>1, <1>3 DEF ScanOf
  <1>5. Len(<<>>) = 0 /\ 1..0 = {} /\ 0 + 0 = 0 /\ 0 + 1 = 1 /\ (0 + 1)..0 = {}
    OBVIOUS
  <1>6. start[1] = 0
    BY <1>4 DEF Layout
  <1>7. \A p \in T!Shown : ~(p <= 0)
    BY <1>2, ShownRange
  <1>8. Placed(start, 0)'
    <2>1. T!Shown' = T!Shown
      BY <1>1, SourceKept
    <2>2. Layout(start, lines, Len(source))' /\ TooLong(lines)' = TooLong(lines')
      <3>1. Layout(start, lines', Len(source'))
        BY <1>1, <1>4
      <3>2. Layout(start, lines, Len(source))'
        BY <1>1, <2>1, <3>1 DEF Layout, Starts
      <3>3. QED
        BY <3>2 DEF TooLong
    <2>3. QED
      BY <1>1, <1>2, <1>4, <1>5, <1>6, <1>7, <2>1, <2>2 DEF Placed
  <1>9. Recorded({}, 0, <<>>, <<>>)'
    <2>1. ReadUpTo({}, 0)
      BY <1>7 DEF ReadUpTo
    <2>2. LabelsIn({}, 0) = {}
      BY <1>7 DEF LabelsIn
    <2>3. ReadUpTo({}, 0)' /\ LabelsIn({}, 0)' = {}
      BY <1>1, <2>1, <2>2, SourceKept
    <2>4. Enumerates(<<>>, {})
      BY <1>5 DEF Enumerates
    <2>5. Len(out') = 0 /\ Len(labels') = 0
      BY <1>1, <1>2, <1>5
    <2>6. Enumerates(<<>>, LabelsIn({}, 0)')
      BY <2>3, <2>4
    <2>7. QED
      BY <1>5, <2>3, <2>4, <2>5, <2>6 DEF Recorded
  <1>10. Written(<<>>)'
    BY <1>1, <1>2, <1>5 DEF Written
  <1>11. QED
    BY <1>8, <1>9, <1>10 DEF Progress

LEMMA ReadLineProgress ==
  ASSUME AInv, GInv, ReadLine, status' = "reading"
  PROVE  Progress'
  <1>1. /\ status = "reading" /\ tokens = <<>> /\ line < Len(lines) /\ line' = line + 1
        /\ tokens' = lines[line + 1]
        /\ \A k \in DOMAIN lines[line + 1] : ~Unrecognized(lines[line + 1][k])
        /\ UNCHANGED <<source, lines, pc, labels, patches, out>>
    BY DEF ReadLine
  <1>2. PICK start, c, S, e, d : Placed(start, c) /\ Recorded(S, c, e, d) /\ Written(e)
    BY <1>1 DEF GInv, Progress
  <1>0. PICK k, t, b : k = line + 1 /\ t = Len(lines[k]) /\ b = start[k]
    OBVIOUS
  <1>3. k \in 1..Len(lines) /\ lines \in Seq(Seq(Pieces)) /\ SourceTyped /\ Len(<<>>) = 0
    <2>1. Len(lines) \in Nat /\ line \in 0..Len(lines) /\ line < Len(lines)
      BY <1>1, InvTypes DEF AInv
    <2>2. PICK l : l = Len(lines)
      OBVIOUS
    <2>3. QED
      BY <1>0, <2>1, <2>2, InvTypes DEF AInv
  <1>4. DOMAIN lines[k] = 1..t
    BY <1>3, <1>0, ElementOfSeq, LenProperties
  <1>5. /\ Layout(start, lines, Len(source)) /\ ~TooLong(lines)
        /\ c \in Nat /\ c + 0 <= b
        /\ \A p \in (c + 0 + 1)..b : p \notin T!Shown
        /\ \A p \in T!Shown : p <= c + 0 => ~Unrecognized(source[p])
    BY <1>1, <1>2, <1>3, <1>0 DEF Placed
  <1>6. /\ b \in Nat /\ t \in Nat /\ b + t <= start[k + 1]
        /\ \A j \in 1..t : b + j \in T!Shown /\ lines[k][j] = source[b + j]
        /\ \A p \in (b + t + 1)..start[k + 1] : p \notin T!Shown
        /\ b + t + 1 \notin T!Shown
    BY <1>3, <1>5, <1>0, LineAt
  <1>7. c <= b /\ \A p \in (c + 1)..b : p \notin T!Shown
    BY <1>5, <1>6
  <1>8. \A p \in T!Shown : p <= b + t => ~Unrecognized(source[p])
    <2>1. ASSUME NEW p \in T!Shown, p <= b + t PROVE ~Unrecognized(source[p])
      <3>1. p \in Nat
        BY <1>3, ShownRange
      <3>2. CASE p <= c
        BY <1>5, <3>1, <3>2
      <3>3. CASE c < p /\ p <= b
        BY <1>5, <1>7, <3>1, <3>3
      <3>4. CASE b < p
        <4>1. PICK j \in 1..t : p = b + j
          <5>1. p - b \in 1..t /\ p = b + (p - b)
            BY <1>4, <1>6, <2>1, <3>1, <3>4
          <5>2. QED
            BY <5>1
        <4>2. QED
          BY <1>1, <1>4, <1>6, <1>0, <4>1
      <3>5. QED
        BY <1>5, <1>6, <3>1, <3>2, <3>3, <3>4
    <2>2. QED
      BY <2>1
  <1>9. Placed(start, b)'
    <2>1. T!Shown' = T!Shown /\ Len(tokens') = t /\ line' + 1 = k + 1
      BY <1>1, <1>0, SourceKept
    <2>2. Layout(start, lines, Len(source))' /\ ~TooLong(lines)'
      BY <1>1, <1>5, <2>1 DEF Layout, Starts, TooLong
    <2>3. b \in Nat /\ b + Len(tokens') <= start[line' + 1]
      BY <1>6, <2>1
    <2>4. \A j \in 1..Len(tokens') : b + j \in T!Shown' /\ tokens'[j] = source'[b + j]
      BY <1>1, <1>6, <1>0, <2>1
    <2>5. \A p \in (b + Len(tokens') + 1)..start[line' + 1] : p \notin T!Shown'
      BY <1>6, <2>1
    <2>6. b + Len(tokens') + 1 \notin T!Shown'
      BY <1>6, <2>1
    <2>7. \A p \in T!Shown' : p <= b + Len(tokens') => ~Unrecognized(source'[p])
      BY <1>1, <1>8, <2>1
    <2>8. QED
      BY <2>2, <2>3, <2>4, <2>5, <2>6, <2>7 DEF Placed
  <1>10. Recorded(S, b, e, d)'
    <2>1. ReadUpTo(S, c)
      BY <1>2 DEF Recorded
    <2>2. ReadUpTo(S, b) /\ LabelsIn(S, b) = LabelsIn(S, c)
      BY <1>3, <1>5, <1>6, <1>7, <2>1, ReadNothing
    <2>3. Recorded(S, b, e, d)
      BY <1>2, <2>2 DEF Recorded
    <2>4. QED
      BY <1>1, <2>3, RecordedKept
  <1>11. Written(e)'
    BY <1>1, <1>2, WrittenKept
  <1>12. QED
    BY <1>9, <1>10, <1>11 DEF Progress

LEMMA Least ==
  ASSUME NEW S \in SUBSET Nat, NEW m \in S, \A k \in S : m <= k
  PROVE  Min(S) = m
  <1>1. \A x \in S : (\A k \in S : x <= k) => x = m
    OBVIOUS
  <1>2. QED
    BY <1>1 DEF Min

\* A label that is found stays the one that is found.
LEMMA FoundStays ==
  ASSUME AInv, NEW label \in Label, labels' = Append(labels, label), NEW name, Found(name) # {}
  PROVE  Found(name)' # {} /\ LabelAddr(name)' = LabelAddr(name)
  <1>1. PICK l : l = Len(labels)
    OBVIOUS
  <1>2. /\ l \in Nat /\ labels' \in Seq(Label) /\ Len(labels') = l + 1
        /\ \A k \in 1..l : labels'[k] = labels[k]
    BY <1>1, InvTypes, AddLast DEF AInv
  <1>3. DOMAIN labels = 1..l /\ DOMAIN labels' = 1..(l + 1)
    BY <1>1, <1>2, LenProperties DEF AInv
  <1>4. Found(name) \subseteq 1..l /\ Found(name)' \subseteq 1..(l + 1)
    BY <1>3 DEF Found
  <1>5. \A k \in 1..l : k \in Found(name) <=> k \in Found(name)'
    BY <1>2, <1>3 DEF Found
  <1>6. 1..l \subseteq Nat /\ 1..(l + 1) \subseteq Nat
    BY <1>2
  <1>7. PICK m \in Found(name) : \A k \in Found(name) : ~(k < m)
    BY <1>4, <1>6, LeastNatural
  <1>8. m \in 1..l /\ m \in Found(name)'
    BY <1>4, <1>5, <1>7
  <1>9. \A k \in Found(name) : m <= k
    BY <1>4, <1>6, <1>7
  <1>10. \A k \in Found(name)' : m <= k
    <2>1. \A k \in 1..(l + 1) : k \in 1..l \/ m <= k
      BY <1>2, <1>8
    <2>2. QED
      BY <1>4, <1>5, <1>9, <2>1
  <1>11. Min(Found(name)) = m
    BY <1>4, <1>6, <1>7, <1>9, Least
  <1>12. Min(Found(name)') = m
    BY <1>4, <1>6, <1>8, <1>10, Least
  <1>13. labels'[m] = labels[m]
    BY <1>2, <1>8
  <1>14. QED
    BY <1>8, <1>11, <1>12, <1>13 DEF LabelAddr

\* The pieces of the line that are taken.
LEMMA PlacedOn ==
  ASSUME AInv, UNCHANGED <<source, lines, line>>, NEW start, NEW c, Placed(start, c),
         NEW n \in Nat, NEW t \in Nat, t = Len(tokens'), Len(tokens) = n + t, tokens # <<>>,
         \A j \in 1..t : tokens'[j] = tokens[n + j]
  PROVE  Placed(start, c + n)'
  <1>1. T!Shown' = T!Shown
    BY SourceKept
  <1>2. Layout(start, lines, Len(source))' /\ ~TooLong(lines)'
    BY <1>1 DEF Placed, Layout, Starts, TooLong
  <1>3. c \in Nat /\ c + n \in Nat /\ (c + n) + t = c + (n + t)
    BY DEF Placed
  <1>4. (c + n) + t <= start[line' + 1]
    BY <1>3 DEF Placed
  <1>5. \A j \in 1..t : (c + n) + j \in T!Shown' /\ tokens'[j] = source'[(c + n) + j]
    <2>1. \A j \in 1..t : n + j \in 1..(n + t) /\ (c + n) + j = c + (n + j)
      BY <1>3
    <2>2. \A j \in 1..(n + t) : c + j \in T!Shown /\ tokens[j] = source[c + j]
      BY DEF Placed
    <2>3. QED
      BY <1>1, <2>1, <2>2
  <1>6. \A p \in ((c + n) + t + 1)..start[line' + 1] : p \notin T!Shown'
    BY <1>1, <1>3 DEF Placed
  <1>7. (c + n) + t + 1 \notin T!Shown'
    BY <1>1, <1>3 DEF Placed
  <1>8. \A p \in T!Shown' : p <= (c + n) + t => ~Unrecognized(source'[p])
    BY <1>1, <1>3 DEF Placed
  <1>9. QED
    BY <1>2, <1>3, <1>4, <1>5, <1>6, <1>7, <1>8 DEF Placed

LEMMA NewLabelProgress ==
  ASSUME AInv, GInv, NewLabel
  PROVE  Progress'
  <1>1. /\ status = "reading" /\ tokens # <<>> /\ Head(tokens).type = "label"
        /\ labels' = Append(labels, [name |-> Head(tokens).val, address |-> pc])
        /\ tokens' = Tail(tokens)
        /\ UNCHANGED <<source, lines, line, pc, patches, out, status>>
    BY DEF NewLabel, At
  <1>2. PICK start, c, S, e, d : Placed(start, c) /\ Recorded(S, c, e, d) /\ Written(e)
    BY <1>1 DEF GInv, Progress
  <1>3. PICK t, label : t = Len(tokens') /\ label = [name |-> Head(tokens).val, address |-> pc]
    OBVIOUS
  <1>4. /\ t \in Nat /\ Len(tokens) = 1 + t /\ Head(tokens) = tokens[1]
        /\ \A j \in 1..t : tokens'[j] = tokens[1 + j]
        /\ Head(tokens) \in Pieces
    <2>1. /\ Len(tokens) \in Nat /\ Len(tokens) >= 1 /\ t = Len(tokens) - 1
          /\ Head(tokens) \in Pieces /\ tokens \in Seq(Pieces)
      BY <1>1, <1>3, HeadInfo, InvTypes DEF AInv
    <2>2. \A j \in 1..t : tokens'[j] = tokens[j + 1]
      BY <1>1, <1>3, <2>1, HeadTailProperties
    <2>3. \A j \in 1..t : j + 1 = 1 + j
      BY <2>1
    <2>4. QED
      BY <2>1, <2>2, <2>3
  <1>5. Placed(start, c + 1)'
    BY <1>1, <1>2, <1>3, <1>4, PlacedOn
  <1>6. SourceTyped /\ c \in Nat /\ c + 1 \in Nat /\ pc = Entry + 2 * Len(out)
    BY <1>2, InvTypes DEF Placed, AInv
  <1>7. c + 1 \in T!Shown /\ T!Is(c + 1, "label") /\ Head(tokens) = source[c + 1]
    <2>1. 1 \in 1..Len(tokens)
      BY <1>4
    <2>2. c + 1 \in T!Shown /\ tokens[1] = source[c + 1]
      BY <1>2, <2>1 DEF Placed
    <2>3. QED
      BY <1>1, <1>4, <2>2 DEF T!Is
  <1>8. /\ ReadUpTo(S, c) /\ Enumerates(e, S) /\ Len(e) = Len(out)
        /\ Enumerates(d, LabelsIn(S, c)) /\ Len(d) = Len(labels)
        /\ \A k \in 1..Len(d) :
              labels[k] = [name |-> source[d[k]].val, address |-> T!AddressAt(S, d[k])]
    BY <1>2 DEF Recorded
  <1>9. ReadUpTo(S, c + 1) /\ LabelsIn(S, c + 1) = LabelsIn(S, c) \cup {c + 1}
    BY <1>6, <1>7, <1>8, ReadLabel
  <1>10. PICK dd : dd = Append(d, c + 1)
    OBVIOUS
  <1>11. Enumerates(dd, LabelsIn(S, c + 1)) /\ Len(dd) = Len(d) + 1
    <2>1. \A p \in LabelsIn(S, c) : p \in Nat /\ p < c + 1
      BY <1>6, ShownRange DEF LabelsIn
    <2>2. Enumerates(d, LabelsIn(S, c)) /\ c + 1 \in Nat
      BY <1>6, <1>8
    <2>3. Enumerates(Append(d, c + 1), LabelsIn(S, c) \cup {c + 1}) /\ Len(Append(d, c + 1)) = Len(d) + 1
      BY <2>1, <2>2, EnumerateMore
    <2>4. QED
      BY <1>9, <1>10, <2>3
  <1>12. T!AddressAt(S, c + 1) = pc
    <2>1. \A p \in S : p < c + 1
      BY <1>6, <1>8, TakenRead
    <2>2. QED
      BY <1>6, <1>8, <2>1, AddressBehind
  <1>13. label \in Label
    BY <1>3, <1>4, InvTypes DEF Label, Names
  <1>14. /\ Len(labels') = Len(labels) + 1 /\ labels'[Len(labels) + 1] = label
         /\ \A k \in 1..Len(labels) : labels'[k] = labels[k]
    BY <1>1, <1>3, <1>13, AddLast DEF AInv
  <1>15. /\ Len(d) \in Nat /\ dd[Len(d) + 1] = c + 1
         /\ \A k \in 1..Len(d) : dd[k] = d[k]
    <2>1. d \in Seq(Nat)
      BY <1>8 DEF Enumerates
    <2>2. QED
      BY <1>6, <1>10, <2>1, AddLast, LenProperties
  <1>16. Recorded(S, c + 1, e, dd)'
    <2>1. ReadUpTo(S, c + 1)' /\ LabelsIn(S, c + 1)' = LabelsIn(S, c + 1)
      BY <1>1, <1>9, SourceKept
    <2>2. Len(dd) = Len(labels') /\ Len(e) = Len(out')
      BY <1>1, <1>8, <1>11, <1>14
    <2>3. \A k \in 1..Len(dd) : k = Len(d) + 1 \/ k \in 1..Len(d)
      BY <1>11, <1>15
    <2>4. \A k \in 1..Len(dd) :
             labels'[k] = [name |-> source'[dd[k]].val, address |-> T!AddressAt(S, dd[k])]
      <3>1. ASSUME NEW k \in 1..Len(d)
            PROVE  labels'[k] = [name |-> source'[dd[k]].val, address |-> T!AddressAt(S, dd[k])]
        BY <1>1, <1>8, <1>14, <1>15
      <3>2. CASE TRUE
        <4>1. labels'[Len(d) + 1] = [name |-> source[c + 1].val, address |-> T!AddressAt(S, c + 1)]
          BY <1>3, <1>7, <1>8, <1>12, <1>14
        <4>2. QED
          BY <1>1, <1>15, <2>3, <3>1, <4>1
      <3>3. QED
        BY <3>2
    <2>5. Enumerates(dd, LabelsIn(S, c + 1)')
      BY <1>11, <2>1
    <2>6. QED
      BY <1>8, <2>1, <2>2, <2>4, <2>5 DEF Recorded
  <1>17. Written(e)'
    <2>1. \A p, word : Final(p, word) => Final(p, word)'
      <3>1. ASSUME NEW p, NEW word, Final(p, word) PROVE Final(p, word)'
        <4>1. ArgsAt(p)' = ArgsAt(p) /\ source' = source
          BY <1>1, SourceKept
        <4>2. CASE source[p].val \notin Transfers
          BY <3>1, <4>1, <4>2 DEF Final
        <4>3. CASE source[p].val \in Transfers
          <5>1. /\ Found(source[p + 1].val) # {}
                /\ word = Encode(source[p].val, ArgsAt(p), LabelAddr(source[p + 1].val))
            BY <3>1, <4>3 DEF Final
          <5>2. PICK name : name = source[p + 1].val
            OBVIOUS
          <5>3. Found(name)' # {} /\ LabelAddr(name)' = LabelAddr(name)
            BY <1>1, <1>3, <1>13, <5>1, <5>2, FoundStays
          <5>4. name' = name /\ name = source'[p + 1].val
            BY <4>1, <5>2
          <5>5. /\ Found(source[p + 1].val)' # {}
                /\ word = Encode(source'[p].val, ArgsAt(p)', LabelAddr(source[p + 1].val)')
            BY <4>1, <5>1, <5>2, <5>3, <5>4
          <5>6. QED
            BY <4>1, <4>3, <5>5 DEF Final
        <4>4. QED
          BY <4>2, <4>3
      <3>2. QED
        BY <3>1
    <2>2. \A patch, p, w : Waits(patch, p, w) => Waits(patch, p, w)'
      BY <1>1 DEF Waits, ArgsAt
    <2>3. QED
      BY <1>1, <1>2, <2>1, <2>2 DEF Written
  <1>18. QED
    BY <1>5, <1>16, <1>17 DEF Progress

\* The operands of an instruction that can be read are the tokens behind it.
LEMMA OperandsRead ==
  ASSUME AInv, NEW start, NEW c, Placed(start, c), At("instruction"), Unreadable = {},
         NEW n, n = Len(Operands(Name))
  PROVE  /\ n \in Nat /\ n + 1 <= Len(tokens)
         /\ source[c + 1] = Head(tokens)
         /\ c + 1 \in T!Instructions /\ T!Behind(c + 1) \subseteq T!Shown /\ T!Readable(c + 1)
         /\ SubSeq(tokens, 2, n + 1) = ArgsAt(c + 1)
         /\ n >= 1 => SubSeq(tokens, 2, n + 1)[1] = source[c + 2]
         /\ \A j \in 1..(Len(tokens) - (n + 1)) :
               SubSeq(tokens, n + 2, Len(tokens))[j] = tokens[(n + 1) + j]
  <1>1. /\ n \in Nat /\ n + 1 <= Len(tokens) /\ Len(tokens) \in Nat
        /\ tokens \in Seq(Pieces) /\ tokens # <<>>
    BY Operated, InvTypes DEF AInv, At
  <1>2. DOMAIN Operands(Name) = 1..n
    BY Arity
  <1>3. SourceTyped /\ c \in Nat
    BY InvTypes DEF Placed
  <1>4. \A j \in 1..Len(tokens) : c + j \in T!Shown /\ tokens[j] = source[c + j]
    BY DEF Placed
  <1>5. PICK t : t = Len(tokens)
    OBVIOUS
  <1>6. /\ c + 1 \in T!Shown /\ source[c + 1] = Head(tokens)
        /\ T!Is(c + 1, "instruction")
    <2>1. 1 \in 1..t /\ Head(tokens) = tokens[1]
      BY <1>1, <1>5
    <2>2. c + 1 \in T!Shown /\ tokens[1] = source[c + 1]
      BY <1>4, <1>5, <2>1
    <2>3. QED
      BY <2>1, <2>2 DEF At, T!Is
  <1>7. source[c + 1].val = Name
    BY <1>6 DEF Name
  <1>8. \A j \in 1..(n + 1) : c + j \in T!Shown /\ tokens[j] = source[c + j]
    <2>1. \A j \in 1..(n + 1) : j \in 1..t
      BY <1>1, <1>5
    <2>2. QED
      BY <1>4, <1>5, <2>1
  <1>9. T!Behind(c + 1) = ((c + 1) + 1)..((c + 1) + n)
    BY <1>7, <1>3, ShownRange
  <1>10. \A q \in T!Behind(c + 1) : q \in Nat /\ q - (c + 1) \in 1..n
                                  /\ (q - (c + 1)) + 1 \in 1..(n + 1)
                                  /\ q = c + ((q - (c + 1)) + 1)
    BY <1>1, <1>3, <1>9
  <1>11. T!Behind(c + 1) \subseteq T!Shown
    BY <1>8, <1>10
  <1>12. T!Readable(c + 1)
    <2>1. ASSUME NEW q \in T!Behind(c + 1)
          PROVE  \/ Operands(Name)[q - (c + 1)] = "either"
                 \/ source[q].type = Operands(Name)[q - (c + 1)]
      <3>1. PICK k : k = q - (c + 1)
        OBVIOUS
      <3>2. k \in 1..n /\ k + 1 \in 1..(n + 1) /\ q = c + (k + 1)
        BY <1>10, <3>1
      <3>3. Operands(Name)[k] \in {"either", tokens[k + 1].type}
        BY <1>2, <3>2 DEF Unreadable
      <3>4. tokens[k + 1] = source[q]
        BY <1>8, <3>2
      <3>5. QED
        BY <3>1, <3>3, <3>4
    <2>2. QED
      BY <1>7, <2>1 DEF T!Readable, T!Is
  <1>13. /\ SubSeq(tokens, 2, n + 1) \in Seq(Pieces)
         /\ Len(SubSeq(tokens, 2, n + 1)) = n
         /\ \A j \in 1..n : SubSeq(tokens, 2, n + 1)[j] = tokens[j + 1]
    <2>1. \A j \in 2..(n + 1) : j \in 1..Len(tokens)
      BY <1>1
    <2>2. \A j \in 2..(n + 1) : tokens[j] \in Pieces
      BY <1>1, <2>1, ElementOfSeq
    <2>3. 2 \in Int /\ n + 1 \in Int
      BY <1>1
    <2>4. /\ SubSeq(tokens, 2, n + 1) \in Seq(Pieces)
          /\ Len(SubSeq(tokens, 2, n + 1)) = IF 2 <= n + 1 THEN (n + 1) - 2 + 1 ELSE 0
          /\ \A j \in 1..((n + 1) - 2 + 1) : SubSeq(tokens, 2, n + 1)[j] = tokens[2 + j - 1]
      BY <2>2, <2>3, SubSeqProperties
    <2>5. /\ (n + 1) - 2 + 1 = n /\ (IF 2 <= n + 1 THEN (n + 1) - 2 + 1 ELSE 0) = n
          /\ \A j \in 1..n : 2 + j - 1 = j + 1
      BY <1>1
    <2>6. QED
      BY <2>4, <2>5
  <1>14. /\ ArgsAt(c + 1) \in Seq(Pieces) /\ Len(ArgsAt(c + 1)) = n
         /\ \A j \in 1..n : ArgsAt(c + 1)[j] = source[(c + 1) + j]
    <2>1. PICK a, b : a = (c + 1) + 1 /\ b = (c + 1) + n
      OBVIOUS
    <2>2. a \in Int /\ b \in Int
      BY <1>1, <1>3, <2>1
    <2>3. \A q \in a..b : source[q] \in Pieces
      BY <1>3, <1>9, <1>11, <2>1, ShownRange
    <2>4. /\ SubSeq(source, a, b) \in Seq(Pieces)
          /\ Len(SubSeq(source, a, b)) = IF a <= b THEN b - a + 1 ELSE 0
          /\ \A j \in 1..(b - a + 1) : SubSeq(source, a, b)[j] = source[a + j - 1]
      BY <2>2, <2>3, SubSeqProperties
    <2>5. /\ b - a + 1 = n /\ (IF a <= b THEN b - a + 1 ELSE 0) = n
          /\ \A j \in 1..n : a + j - 1 = (c + 1) + j
      BY <1>1, <1>3, <2>1
    <2>6. ArgsAt(c + 1) = SubSeq(source, a, b)
      BY <1>7, <2>1 DEF ArgsAt
    <2>7. QED
      BY <2>4, <2>5, <2>6
  <1>15. \A j \in 1..n : tokens[j + 1] = source[(c + 1) + j]
    <2>1. \A j \in 1..n : j + 1 \in 1..(n + 1) /\ (c + 1) + j = c + (j + 1)
      BY <1>1, <1>3
    <2>2. QED
      BY <1>8, <2>1
  <1>16. SubSeq(tokens, 2, n + 1) = ArgsAt(c + 1)
    BY <1>13, <1>14, <1>15, SeqEqual
  <1>17. n >= 1 => SubSeq(tokens, 2, n + 1)[1] = source[c + 2]
    <2>1. ASSUME n >= 1 PROVE 1 \in 1..n /\ (c + 1) + 1 = c + 2
      BY <1>1, <1>3, <2>1
    <2>2. QED
      BY <1>13, <1>15, <2>1
  <1>18. \A j \in 1..(Len(tokens) - (n + 1)) :
            SubSeq(tokens, n + 2, Len(tokens))[j] = tokens[(n + 1) + j]
    <2>1. \A j \in (n + 2)..t : j \in 1..t
      BY <1>1, <1>5
    <2>2. \A j \in (n + 2)..t : tokens[j] \in Pieces
      BY <1>1, <1>5, <2>1, ElementOfSeq
    <2>3. t \in Int /\ n + 2 \in Int
      BY <1>1, <1>5
    <2>4. \A j \in 1..(t - (n + 2) + 1) : SubSeq(tokens, n + 2, t)[j] = tokens[(n + 2) + j - 1]
      BY <2>2, <2>3, SubSeqProperties
    <2>5. t - (n + 2) + 1 = t - (n + 1) /\ \A j \in 1..(t - (n + 1)) : (n + 2) + j - 1 = (n + 1) + j
      BY <1>1, <1>5
    <2>6. QED
      BY <1>5, <2>4, <2>5
  <1>19. QED
    BY <1>1, <1>6, <1>11, <1>12, <1>16, <1>17, <1>18 DEF T!Instructions

\* The word that is written stays, or it has its patch.
LEMMA WordRecorded ==
  ASSUME AInv, NEW e, e \in Seq(Nat), Len(e) = Len(out), Written(e), UNCHANGED <<source, labels>>,
         NEW p \in Nat, NEW word \in Word, out' = Append(out, word),
         NEW patch \in Patch,
         LET l == Len(out) + 1 IN
         \/ patches' = patches /\ Final(p, word)
         \/ /\ patches' = Append(patches, patch)
            /\ patch.address = Entry + 2 * (l - 1)
            /\ source[p].val \in Transfers /\ patch.name = source[p + 1].val
            /\ word = Encode(source[p].val, ArgsAt(p), 0)
  PROVE  Written(Append(e, p))'
  <1>1. PICK l, n, f, ws, ps : /\ l = Len(out) /\ n = Len(patches) /\ f = Append(e, p)
                             /\ ws = out' /\ ps = patches'
    OBVIOUS
  <1>2. /\ l \in Nat /\ n \in Nat /\ Len(ws) = l + 1 /\ ws[l + 1] = word /\ f[l + 1] = p
        /\ \A w \in 1..l : ws[w] = out[w] /\ f[w] = e[w]
    <2>1. out \in Seq(Word)
      BY DEF AInv
    <2>2. Len(ws) = l + 1 /\ ws[l + 1] = word /\ \A w \in 1..l : ws[w] = out[w]
      BY <1>1, <2>1, AddLast
    <2>3. f[l + 1] = p /\ \A w \in 1..l : f[w] = e[w]
      BY <1>1, AddLast
    <2>4. l \in Nat /\ n \in Nat
      BY <1>1, InvTypes
    <2>5. QED
      BY <2>2, <2>3, <2>4
  <1>3. \A w \in 1..(l + 1) : w = l + 1 \/ w \in 1..l
    BY <1>2
  <1>4. l + 1 \in 1..(l + 1) /\ \A w \in 1..l : w \in 1..(l + 1)
    BY <1>2
  <1>5. ArgsAt(p)' = ArgsAt(p) /\ \A q : ArgsAt(q)' = ArgsAt(q)
    BY SourceKept
  <1>6. \A q, v : Final(q, v)' <=> Final(q, v)
    BY FinalKept
  <1>7. \A a, q : \A w \in 1..l : Waits(a, q, w)' <=> Waits(a, q, w)
    BY <1>1, <1>2, <1>5 DEF Waits
  <1>8. /\ \A w \in 1..l : \/ Final(e[w], out[w])
                           \/ \E k \in 1..n : Waits(patches[k], e[w], w)
        /\ \A k \in 1..n : \E w \in 1..l : Waits(patches[k], e[w], w)
    BY <1>1 DEF Written
  <1>9. CASE patches' = patches /\ Final(p, word)
    <2>1. Len(ps) = n
      BY <1>1, <1>9
    <2>2. \A w \in 1..(l + 1) : \/ Final(f[w], ws[w])'
                                \/ \E k \in 1..n : Waits(ps[k], f[w], w)'
      <3>1. ASSUME NEW w \in 1..l
            PROVE  Final(f[w], ws[w])' \/ \E k \in 1..n : Waits(ps[k], f[w], w)'
        BY <1>1, <1>2, <1>6, <1>7, <1>8, <1>9
      <3>2. Final(f[l + 1], ws[l + 1])'
        BY <1>2, <1>6, <1>9
      <3>3. QED
        BY <1>3, <3>1, <3>2
    <2>3. \A k \in 1..n : \E w \in 1..(l + 1) : Waits(ps[k], f[w], w)'
      <3>1. ASSUME NEW k \in 1..n PROVE \E w \in 1..(l + 1) : Waits(ps[k], f[w], w)'
        <4>1. PICK w \in 1..l : Waits(patches[k], e[w], w)
          BY <1>8
        <4>2. Waits(ps[k], f[w], w)'
          BY <1>1, <1>2, <1>7, <1>9, <4>1
        <4>3. QED
          BY <1>4, <4>2
      <3>2. QED
        BY <3>1
    <2>4. QED
      BY <1>1, <1>2, <2>1, <2>2, <2>3 DEF Written
  <1>10. CASE /\ patches' = Append(patches, patch)
              /\ patch.address = Entry + 2 * ((Len(out) + 1) - 1)
              /\ source[p].val \in Transfers /\ patch.name = source[p + 1].val
              /\ word = Encode(source[p].val, ArgsAt(p), 0)
    <2>1. /\ Len(ps) = n + 1 /\ ps[n + 1] = patch
          /\ \A k \in 1..n : ps[k] = patches[k]
      BY <1>1, <1>10, AddLast DEF AInv
    <2>2. n + 1 \in 1..(n + 1) /\ \A k \in 1..(n + 1) : k = n + 1 \/ k \in 1..n
      BY <1>2
    <2>3. \A k \in 1..n : k \in 1..(n + 1)
      BY <1>2
    <2>4. Waits(patch, p, l + 1)'
      BY <1>1, <1>2, <1>5, <1>10 DEF Waits
    <2>5. \A w \in 1..(l + 1) : \/ Final(f[w], ws[w])'
                                \/ \E k \in 1..(n + 1) : Waits(ps[k], f[w], w)'
      <3>1. ASSUME NEW w \in 1..l
            PROVE  Final(f[w], ws[w])' \/ \E k \in 1..(n + 1) : Waits(ps[k], f[w], w)'
        BY <1>2, <1>6, <1>7, <1>8, <2>1, <2>3
      <3>2. Waits(ps[n + 1], f[l + 1], l + 1)'
        BY <1>2, <2>1, <2>4
      <3>3. QED
        BY <1>3, <2>2, <3>1, <3>2
    <2>6. \A k \in 1..(n + 1) : \E w \in 1..(l + 1) : Waits(ps[k], f[w], w)'
      <3>1. ASSUME NEW k \in 1..n PROVE \E w \in 1..(l + 1) : Waits(ps[k], f[w], w)'
        BY <1>2, <1>4, <1>7, <1>8, <2>1
      <3>2. Waits(ps[n + 1], f[l + 1], l + 1)'
        BY <1>2, <2>1, <2>4
      <3>3. QED
        BY <1>4, <2>2, <3>1, <3>2
    <2>7. QED
      BY <1>1, <1>2, <2>1, <2>5, <2>6 DEF Written
  <1>11. QED
    BY <1>9, <1>10

LEMMA ProcessInstructionProgress ==
  ASSUME AInv, GInv, ProcessInstruction
  PROVE  Progress'
  <1>1. PICK n, args, name, label, word, patch :
           /\ n = Len(Operands(Name)) /\ args = SubSeq(tokens, 2, n + 1) /\ name = Name
           /\ label = args[1].val
           /\ word = (IF Name \in Transfers THEN Encode(Name, args, LabelAddr(label))
                      ELSE Encode(Name, args, 0))
           /\ patch = [address |-> pc, name |-> label]
    OBVIOUS
  <1>2. /\ At("instruction") /\ Unreadable = {} /\ tokens # <<>> /\ status = "reading"
        /\ out' = Append(out, word)
        /\ name \notin Transfers => patches' = patches
        /\ name \in Transfers => patches' = IF LabelAddr(label) = 0 THEN Append(patches, patch)
                                            ELSE patches
        /\ tokens' = SubSeq(tokens, n + 2, Len(tokens))
        /\ UNCHANGED <<source, lines, line, labels>>
    BY <1>1 DEF ProcessInstruction, At, OutputAddWord, BackpatchHere
  <1>3. PICK start, c, S, e, d : Placed(start, c) /\ Recorded(S, c, e, d) /\ Written(e)
    BY <1>2 DEF GInv, Progress
  <1>4. /\ n \in Nat /\ n + 1 <= Len(tokens) /\ source[c + 1] = Head(tokens)
        /\ c + 1 \in T!Instructions /\ T!Behind(c + 1) \subseteq T!Shown /\ T!Readable(c + 1)
        /\ args = ArgsAt(c + 1)
        /\ n >= 1 => args[1] = source[c + 2]
        /\ \A j \in 1..(Len(tokens) - (n + 1)) : tokens'[j] = tokens[(n + 1) + j]
    BY <1>1, <1>2, <1>3, OperandsRead
  <1>5. name = source[c + 1].val
    BY <1>1, <1>4 DEF Name
  <1>6. name \in Transfers => label = source[c + 2].val
    <2>1. name \in Transfers => Operands(name) = <<"label_addr">>
      BY DEF Operands, Transfers
    <2>2. name \in Transfers => n >= 1
      BY <1>1, <2>1
    <2>3. QED
      BY <1>1, <1>4, <2>2
  <1>7. /\ SourceTyped /\ c \in Nat /\ c + 1 \in Nat /\ Len(tokens) \in Nat /\ Len(out) \in Nat
        /\ pc = Entry + 2 * Len(out) /\ Entry \in Nat
    BY <1>3, InvTypes DEF Placed, AInv
  <1>8. PICK q : q = c + 1 + n
    OBVIOUS
  <1>9. Placed(start, q)'
    <2>1. PICK t : t = Len(tokens')
      OBVIOUS
    <2>2. t = Len(tokens) - (n + 1)
      BY <1>1, <1>2, <2>1, Operated
    <2>3. t \in Nat /\ Len(tokens) = (n + 1) + t /\ n + 1 \in Nat /\ c + (n + 1) = q
      BY <1>4, <1>7, <1>8, <2>2
    <2>4. \A j \in 1..t : tokens'[j] = tokens[(n + 1) + j]
      BY <1>4, <2>2
    <2>5. Placed(start, c + (n + 1))'
      BY <1>2, <1>3, <2>1, <2>3, <2>4, PlacedOn
    <2>6. QED
      BY <2>3, <2>5
  <1>10. /\ ReadUpTo(S, c) /\ Enumerates(e, S) /\ Len(e) = Len(out)
         /\ Enumerates(d, LabelsIn(S, c)) /\ Len(d) = Len(labels)
         /\ \A k \in 1..Len(d) :
               labels[k] = [name |-> source[d[k]].val, address |-> T!AddressAt(S, d[k])]
    BY <1>3 DEF Recorded
  <1>11. PICK R, f : R = S \cup {c + 1} /\ f = Append(e, c + 1)
    OBVIOUS
  <1>12. ReadUpTo(R, q) /\ LabelsIn(R, q) = LabelsIn(S, c)
    <2>1. q = c + 1 + Len(Operands(source[c + 1].val))
      BY <1>1, <1>5, <1>8
    <2>2. QED
      BY <1>4, <1>7, <1>10, <1>11, <2>1, ReadInstruction
  <1>13. Enumerates(f, R) /\ Len(f) = Len(e) + 1
    <2>1. \A p \in S : p < c + 1
      BY <1>7, <1>10, TakenRead
    <2>2. QED
      BY <1>7, <1>10, <1>11, <2>1, EnumerateMore
  <1>14. word \in Word
    BY <1>1, EncodeType
  <1>15. Len(out') = Len(out) + 1
    BY <1>2, <1>14, AddLast DEF AInv
  <1>16. Recorded(R, q, f, d)'
    <2>1. ReadUpTo(R, q)' /\ LabelsIn(R, q)' = LabelsIn(R, q)
      BY <1>2, <1>12, SourceKept
    <2>2. ASSUME NEW k \in 1..Len(d)
          PROVE  labels'[k] = [name |-> source'[d[k]].val, address |-> T!AddressAt(R, d[k])]
      <3>1. PICK r : r = d[k]
        OBVIOUS
      <3>2. r \in LabelsIn(S, c)
        BY <1>10, <3>1 DEF Enumerates
      <3>3. r \in Nat /\ r <= c
        BY <1>7, <3>2, ShownRange DEF LabelsIn
      <3>4. r <= c + 1
        BY <1>7, <3>3
      <3>5. T!AddressAt(R, r) = T!AddressAt(S, r)
        BY <1>7, <1>11, <3>3, <3>4, AddressStays
      <3>6. QED
        BY <1>2, <1>10, <3>1, <3>5
    <2>3. Len(f) = Len(out') /\ Len(d) = Len(labels') /\ Enumerates(d, LabelsIn(R, q)')
      BY <1>2, <1>10, <1>12, <1>13, <1>15, <2>1
    <2>4. QED
      BY <1>13, <2>1, <2>2, <2>3 DEF Recorded
  <1>17. Written(f)'
    <2>1. (c + 1) + 1 = c + 2
      BY <1>7
    <2>2. e \in Seq(Nat)
      BY <1>10 DEF Enumerates
    <2>3. CASE name \notin Transfers
      <3>1. Final(c + 1, word)
        BY <1>1, <1>4, <1>5, <2>3 DEF Final
      <3>2. PICK any : any \in Patch
        <4>1. [address |-> 0, name |-> name] \in Patch
          <5>1. name \in Names
            BY <1>5, <1>7, <1>4, ShownRange DEF Names
          <5>2. QED
            BY <5>1 DEF Patch
        <4>2. QED
          BY <4>1
      <3>3. QED
        BY <1>2, <1>7, <1>10, <1>3, <1>11, <1>14, <2>2, <2>3, <3>1, <3>2, WordRecorded
    <2>4. CASE name \in Transfers
      <3>1. word = Encode(source[c + 1].val, ArgsAt(c + 1), LabelAddr(label))
        BY <1>1, <1>4, <1>5, <2>4
      <3>2. patch \in Patch /\ patch.name = source[(c + 1) + 1].val
            /\ patch.address = Entry + 2 * ((Len(out) + 1) - 1)
        <4>1. label \in Names
          BY <1>1, <1>2, <2>4, LabelNamed
        <4>2. (Len(out) + 1) - 1 = Len(out) /\ pc \in Nat
          BY <1>7
        <4>3. QED
          BY <1>1, <1>6, <1>7, <2>1, <2>4, <4>1, <4>2 DEF Patch
      <3>3. CASE LabelAddr(label) = 0
        BY <1>2, <1>3, <1>5, <1>7, <1>10, <1>11, <1>14, <2>2, <2>4, <3>1, <3>2, <3>3, WordRecorded
      <3>4. CASE LabelAddr(label) # 0
        <4>1. Found(label) # {}
          BY <3>4 DEF LabelAddr
        <4>2. Final(c + 1, word)
          BY <1>5, <1>6, <2>1, <2>4, <3>1, <4>1 DEF Final
        <4>3. QED
          BY <1>2, <1>3, <1>7, <1>10, <1>11, <1>14, <2>2, <2>4, <3>2, <3>4, <4>2, WordRecorded
      <3>5. QED
        BY <3>3, <3>4
    <2>5. QED
      BY <2>3, <2>4
  <1>18. QED
    BY <1>9, <1>16, <1>17 DEF Progress

LEMMA FillBackpatchProgress ==
  ASSUME AInv, GInv, FillBackpatch
  PROVE  Progress'
  <1>1. PICK h, w, word, n, l, ws, ps :
           /\ h = Head(patches) /\ w = WordOf(h.address)
           /\ word = Or16(out[w], LabelAddr(h.name))
           /\ n = Len(patches) /\ l = Len(out) /\ ws = out' /\ ps = patches'
    OBVIOUS
  <1>2. /\ status = "patching" /\ patches # <<>> /\ Found(h.name) # {}
        /\ ws = [out EXCEPT ![w] = word] /\ ps = Tail(patches)
        /\ UNCHANGED <<source, lines, line, tokens, labels>>
    BY <1>1 DEF FillBackpatch
  <1>3. PICK start, c, S, e, d : Placed(start, c) /\ Recorded(S, c, e, d) /\ Written(e)
    BY <1>2 DEF GInv, Progress
  <1>4. /\ n \in Nat /\ n >= 1 /\ l \in Nat /\ h = patches[1] /\ Len(ps) = n - 1
        /\ \A k \in 1..(n - 1) : ps[k] = patches[k + 1]
    <2>1. patches \in Seq(Patch)
      BY DEF AInv
    <2>2. QED
      BY <1>1, <1>2, <2>1, HeadTailProperties, LastIndex, InvTypes
  <1>5. 1 \in 1..n /\ \A k \in 1..n : k = 1 \/ k - 1 \in 1..(n - 1)
    BY <1>4
  <1>6. \A k \in 1..(n - 1) : k + 1 \in 1..n /\ k + 1 # 1
    BY <1>4
  <1>7. /\ \A v \in 1..l : \/ Final(e[v], out[v])
                           \/ \E k \in 1..n : Waits(patches[k], e[v], v)
        /\ \A k \in 1..n : \E v \in 1..l : Waits(patches[k], e[v], v)
    BY <1>1, <1>3 DEF Written
  <1>8. \A j, k \in 1..n : j # k => patches[j].address # patches[k].address
    BY <1>1 DEF AInv, Awaited
  <1>9. w \in 1..l /\ Waits(h, e[w], w)
    <2>1. PICK v \in 1..l : Waits(patches[1], e[v], v)
      BY <1>5, <1>7
    <2>2. h.address = Entry + 2 * (v - 1)
      BY <1>4, <2>1 DEF Waits
    <2>3. v = w
      BY <1>1, <1>4, <2>2, WordOfPatch
    <2>4. QED
      BY <1>4, <2>1, <2>3
  <1>10. Len(ws) = l /\ ws[w] = word /\ \A v \in 1..l : v # w => ws[v] = out[v]
    <2>1. word \in Word /\ out \in Seq(Word)
      BY <1>1, Or16Type DEF AInv
    <2>2. QED
      BY <1>1, <1>2, <1>9, <2>1, ExceptSeq
  <1>11. /\ source[e[w]].val \in Transfers /\ h.name = source[e[w] + 1].val
         /\ out[w] = Encode(source[e[w]].val, ArgsAt(e[w]), 0)
    BY <1>9 DEF Waits
  <1>12. word = Encode(source[e[w]].val, ArgsAt(e[w]), LabelAddr(h.name))
    BY <1>1, <1>11, TransferWord
  <1>13. Final(e[w], word)
    BY <1>2, <1>11, <1>12 DEF Final
  <1>14. \A q : ArgsAt(q)' = ArgsAt(q)
    BY <1>2, SourceKept
  <1>15. \A q, v : Final(q, v)' <=> Final(q, v)
    BY <1>2, FinalKept
  <1>16. \A a, q : \A v \in 1..l : v # w /\ Waits(a, q, v) => Waits(a, q, v)'
    BY <1>1, <1>2, <1>10, <1>14 DEF Waits
  <1>17. Written(e)'
    <2>1. \A k \in 1..(n - 1) : \E v \in 1..l : v # w /\ Waits(ps[k], e[v], v)
      <3>1. ASSUME NEW k \in 1..(n - 1)
            PROVE  \E v \in 1..l : v # w /\ Waits(ps[k], e[v], v)
        <4>1. PICK v \in 1..l : Waits(patches[k + 1], e[v], v)
          BY <1>6, <1>7
        <4>2. patches[k + 1].address # h.address
          BY <1>4, <1>5, <1>6, <1>8
        <4>3. v # w
          BY <1>9, <4>1, <4>2 DEF Waits
        <4>4. QED
          BY <1>4, <4>1, <4>3
      <3>2. QED
        BY <3>1
    <2>2. ASSUME NEW v \in 1..l
          PROVE  Final(e[v], ws[v])' \/ \E k \in 1..(n - 1) : Waits(ps[k], e[v], v)'
      <3>1. CASE v = w
        BY <1>10, <1>13, <1>15, <3>1
      <3>2. CASE v # w /\ Final(e[v], out[v])
        BY <1>10, <1>15, <3>2
      <3>3. CASE v # w /\ \E k \in 1..n : Waits(patches[k], e[v], v)
        <4>1. PICK k \in 1..n : Waits(patches[k], e[v], v)
          BY <3>3
        <4>2. k # 1
          <5>1. ASSUME k = 1 PROVE FALSE
            <6>1. h.address = Entry + 2 * (v - 1) /\ h.address = Entry + 2 * (w - 1)
              BY <1>4, <1>9, <4>1, <5>1 DEF Waits
            <6>2. WordOf(h.address) = v
              BY <1>4, <6>1, WordOfPatch
            <6>3. QED
              BY <1>1, <3>3, <6>2
          <5>2. QED
            BY <5>1
        <4>3. PICK j : j = k - 1
          OBVIOUS
        <4>4. j \in 1..(n - 1) /\ j + 1 = k
          BY <1>4, <4>2, <4>3
        <4>5. Waits(ps[j], e[v], v)
          BY <1>4, <4>1, <4>4
        <4>6. Waits(ps[j], e[v], v)'
          BY <1>16, <3>3, <4>5
        <4>7. QED
          BY <4>4, <4>6
      <3>4. QED
        BY <1>7, <3>1, <3>2, <3>3
    <2>3. \A k \in 1..(n - 1) : \E v \in 1..l : Waits(ps[k], e[v], v)'
      BY <1>16, <2>1
    <2>4. QED
      BY <1>1, <1>4, <1>10, <2>2, <2>3 DEF Written
  <1>18. Placed(start, c)'
    BY <1>2, <1>3, PlacedKept
  <1>19. Recorded(S, c, e, d)'
    BY <1>1, <1>2, <1>3, <1>10, RecordedKept
  <1>20. QED
    BY <1>17, <1>18, <1>19 DEF Progress

LEMMA InitProgress == Init => GInv
  BY DEF Init, GInv

LEMMA StepProgress == AInv /\ GInv /\ [Next]_vars => GInv'
  <1> SUFFICES ASSUME AInv, GInv, [Next]_vars PROVE GInv'
    OBVIOUS
  <1>1. CASE UNCHANGED vars
    <2>1. UNCHANGED <<source, lines, line, tokens, labels, patches, out, status>>
      BY <1>1 DEF vars
    <2>2. Progress => Progress'
      BY <2>1, ProgressKept
    <2>3. QED
      BY <2>1, <2>2 DEF GInv
  <1>2. CASE StrToLines
    <2>1. status' \in {"exited", "wild", "reading"}
      BY <1>2 DEF StrToLines
    <2>2. status' = "reading" => Progress'
      BY <1>2, StrToLinesProgress
    <2>3. QED
      BY <2>1, <2>2 DEF GInv
  <1>3. CASE ReadLine
    <2>1. status' \in {"exited", "reading"}
      BY <1>3 DEF ReadLine
    <2>2. status' = "reading" => Progress'
      BY <1>3, ReadLineProgress
    <2>3. QED
      BY <2>1, <2>2 DEF GInv
  <1>4. CASE NewLabel
    <2>1. status' = "reading"
      BY <1>4 DEF NewLabel, At
    <2>2. Progress'
      BY <1>4, NewLabelProgress
    <2>3. QED
      BY <2>1, <2>2 DEF GInv
  <1>5. CASE ProcessInstruction
    <2>1. status' = "reading"
      BY <1>5 DEF ProcessInstruction, At
    <2>2. Progress'
      BY <1>5, ProcessInstructionProgress
    <2>3. QED
      BY <2>1, <2>2 DEF GInv
  <1>6. CASE EndOfSource
    <2>1. /\ status = "reading" /\ status' = "patching" /\ line = Len(lines) /\ tokens = <<>>
          /\ UNCHANGED <<source, lines, line, tokens, labels, patches, out>>
      BY <1>6 DEF EndOfSource
    <2>2. Progress'
      BY <2>1, ProgressKept DEF GInv
    <2>3. QED
      BY <2>1, <2>2 DEF GInv
  <1>7. CASE FillBackpatch
    <2>1. status = "patching" /\ UNCHANGED <<status, line, lines, tokens>>
      BY <1>7 DEF FillBackpatch
    <2>2. Progress'
      BY <1>7, FillBackpatchProgress
    <2>3. QED
      BY <2>1, <2>2 DEF GInv
  <1>8. CASE ReadWild \/ WrapPc \/ RejectOperand \/ SyntaxError \/ LabelNotFound \/ OutputSave
    <2>1. status' \in {"wild", "wrapped", "crashed", "exited", "saved"}
      BY <1>8 DEF ReadWild, WrapPc, RejectOperand, SyntaxError, LabelNotFound, OutputSave
    <2>2. QED
      BY <2>1 DEF GInv
  <1>9. QED
    BY <1>1, <1>2, <1>3, <1>4, <1>5, <1>6, <1>7, <1>8 DEF Next

LEMMA InductiveProgress == Spec => []GInv
  BY Inductive, InitProgress, StepProgress, PTL DEF Spec

-----------------------------------------------------------------------------
(* Each step that ends in a failure has found an error of the source.      *)

\* No file is promised for the source.
Wrong == \A R \in SUBSET T!Instructions : ~T!Correct(R)

\* A line that is too long.
LEMMA TooLongWrong ==
  ASSUME AInv, Scanned.long
  PROVE  Wrong
  <1>1. SourceTyped /\ Scanned \in Scans
    BY InvTypes, ScannedLayout
  <1>2. PICK start : ScanOf(Scanned, start, Len(source))
    BY <1>1, ScannedLayout
  <1>3. PICK ls, n : ls = Scanned.lines /\ n = Len(source)
    OBVIOUS
  <1>4. ls \in Seq(Seq(Pieces)) /\ n \in Nat
    BY <1>1, <1>3, InvTypes DEF Scans
  <1>5. Layout(start, ls, n) /\ TooLong(ls)
    BY <1>2, <1>3 DEF ScanOf
  <1>6. PICK k \in 1..Len(ls) : Len(ls[k]) > MaxLineLen
    BY <1>5 DEF TooLong
  <1>7. PICK a, t : a = start[k] /\ t = Len(ls[k])
    OBVIOUS
  <1>8. a \in Nat /\ t \in Nat /\ \A j \in 1..t : a + j \in T!Shown
    BY <1>1, <1>3, <1>4, <1>5, <1>6, <1>7, LineAt
  <1>9. MaxLineLen \in Nat /\ t > MaxLineLen
    BY <1>6, <1>7, AsmAssumption
  <1>10. \A p \in (a + 1)..((a + 1) + MaxLineLen) : p \in T!Shown
    <2>1. ASSUME NEW p \in (a + 1)..((a + 1) + MaxLineLen) PROVE p \in T!Shown
      <3>1. p - a \in 1..t /\ p = a + (p - a)
        BY <1>8, <1>9
      <3>2. PICK j \in 1..t : p = a + j
        BY <3>1
      <3>3. QED
        BY <1>8, <3>2
    <2>2. QED
      BY <2>1
  <1>11. a + 1 \in (a + 1)..((a + 1) + MaxLineLen)
    BY <1>8, <1>9
  <1>12. QED
    BY <1>10, <1>11 DEF Wrong, T!Correct

\* A line with what is no token.
LEMMA UnrecognizedWrong ==
  ASSUME AInv, GInv, ReadLine, status' = "exited"
  PROVE  Wrong
  <1>1. /\ status = "reading" /\ line < Len(lines)
        /\ \E j \in DOMAIN lines[line + 1] : Unrecognized(lines[line + 1][j])
    BY DEF ReadLine
  <1>2. PICK start, c : Placed(start, c)
    BY <1>1 DEF GInv, Progress
  <1>3. Layout(start, lines, Len(source)) /\ SourceTyped /\ lines \in Seq(Seq(Pieces))
    BY <1>2, InvTypes DEF Placed, AInv
  <1>4. PICK k : k = line + 1
    OBVIOUS
  <1>5. k \in 1..Len(lines)
    BY <1>1, <1>4, InvTypes DEF AInv
  <1>6. DOMAIN lines[k] = 1..Len(lines[k])
    BY <1>3, <1>5, ElementOfSeq, LenProperties
  <1>7. PICK j \in 1..Len(lines[k]) : Unrecognized(lines[k][j])
    BY <1>1, <1>4, <1>6
  <1>8. start[k] + j \in T!Shown /\ lines[k][j] = source[start[k] + j]
    BY <1>3, <1>5, LineAt
  <1>9. QED
    BY <1>7, <1>8 DEF Wrong, T!Correct

\* The next token cannot be what no label and no readable instruction is.
LEMMA TokenWrong ==
  ASSUME AInv, GInv, SyntaxError \/ RejectOperand
  PROVE  Wrong
  <1>1. /\ status = "reading" /\ tokens # <<>>
        /\ \/ Head(tokens).type \in {"register", "number", "label_addr"}
           \/ Head(tokens).type = "instruction" /\ Unreadable # {}
    BY DEF SyntaxError, RejectOperand, At
  <1>2. PICK start, c, S : Placed(start, c) /\ ReadUpTo(S, c)
    BY <1>1 DEF GInv, Progress, Recorded
  <1>3. PICK t : t = Len(tokens)
    OBVIOUS
  <1>4. SourceTyped /\ c \in Nat /\ t \in Nat /\ t >= 1 /\ Head(tokens) = tokens[1]
    BY <1>1, <1>2, <1>3, HeadInfo, InvTypes DEF Placed
  <1>5. /\ \A j \in 1..t : c + j \in T!Shown /\ tokens[j] = source[c + j]
        /\ c + t + 1 \notin T!Shown
    BY <1>1, <1>2, <1>3 DEF Placed
  <1>6. c + 1 \in T!Shown /\ Head(tokens) = source[c + 1]
    <2>1. 1 \in 1..t
      BY <1>4
    <2>2. QED
      BY <1>4, <1>5, <2>1
  <1>7. ASSUME NEW R \in SUBSET T!Instructions, T!Correct(R)
        PROVE  FALSE
    <2>1. T!Reading(R)
      BY <1>7 DEF T!Correct
    <2>2. c + 1 \in R
      <3>1. c + 1 \in R \/ T!Is(c + 1, "label")
        BY <1>2, <1>4, <1>6, <2>1, ReadingGoesOn
      <3>2. ~T!Is(c + 1, "label")
        BY <1>1, <1>6 DEF T!Is
      <3>3. QED
        BY <3>1, <3>2
    <2>3. T!Is(c + 1, "instruction")
      BY <2>2 DEF T!Instructions
    <2>4. Unreadable # {}
      BY <1>1, <1>6, <2>3 DEF T!Is
    <2>5. Name = source[c + 1].val
      BY <1>6 DEF Name
    <2>6. PICK n : n = Len(Operands(Name))
      OBVIOUS
    <2>7. n \in Nat /\ DOMAIN Operands(Name) = 1..n
      BY <2>6, Arity
    <2>8. T!Behind(c + 1) = ((c + 1) + 1)..((c + 1) + n)
      BY <1>4, <2>5, <2>6, ShownRange
    <2>9. T!Behind(c + 1) \subseteq T!Shown /\ T!Readable(c + 1)
      BY <2>1, <2>2 DEF T!Reading
    <2>10. PICK k \in 1..n : \/ k + 1 > t
                             \/ Operands(Name)[k] \notin {"either", tokens[k + 1].type}
      BY <1>3, <2>4, <2>7 DEF Unreadable
    <2>11. (c + 1) + k \in T!Behind(c + 1) /\ ((c + 1) + k) - (c + 1) = k
      BY <1>4, <2>7, <2>8
    <2>12. k + 1 <= t
      <3>1. ASSUME ~(k + 1 <= t) PROVE FALSE
        <4>1. c + t + 1 \in T!Behind(c + 1)
          BY <1>4, <2>7, <2>8, <3>1
        <4>2. QED
          BY <1>5, <2>9, <4>1
      <3>2. QED
        BY <3>1
    <2>13. tokens[k + 1] = source[(c + 1) + k]
      <3>1. k + 1 \in 1..t /\ c + (k + 1) = (c + 1) + k
        BY <1>4, <2>7, <2>12
      <3>2. QED
        BY <1>5, <3>1
    <2>14. PICK q : q = (c + 1) + k
      OBVIOUS
    <2>15. Operands(Name)[k] = "either" \/ source[q].type = Operands(Name)[k]
      <3>1. \/ Operands(source[c + 1].val)[q - (c + 1)] = "either"
            \/ T!Is(q, Operands(source[c + 1].val)[q - (c + 1)])
        BY <2>9, <2>11, <2>14 DEF T!Readable
      <3>2. QED
        BY <2>5, <2>11, <2>14, <3>1 DEF T!Is
    <2>16. ~(k + 1 > t)
      BY <1>4, <2>7, <2>12
    <2>17. QED
      BY <2>10, <2>13, <2>14, <2>15, <2>16
  <1>8. QED
    BY <1>7 DEF Wrong

\* Nothing is left at the end of the last line.
LEMMA AllRead ==
  ASSUME AInv, NEW start, NEW c, Placed(start, c), line = Len(lines), tokens = <<>>
  PROVE  \A p \in T!Shown : p <= c
  <1>1. SourceTyped /\ c \in Nat /\ Len(source) \in Nat /\ Len(tokens) = 0 /\ c + 0 = c
    BY InvTypes DEF Placed
  <1>2. start[line + 1] = Len(source)
    BY DEF Placed, Layout
  <1>3. \A p \in (c + 1)..Len(source) : p \notin T!Shown
    BY <1>1, <1>2 DEF Placed
  <1>4. ASSUME NEW p \in T!Shown PROVE p <= c
    <2>1. p \in 1..Len(source) /\ p \in Nat
      BY <1>1, ShownRange
    <2>2. p <= c \/ p \in (c + 1)..Len(source)
      BY <1>1, <2>1
    <2>3. QED
      BY <1>3, <2>2
  <1>5. QED
    BY <1>4

\* The labels that are found are the definitions of the name.
LEMMA DefinitionsFound ==
  ASSUME AInv, NEW c \in Nat, NEW S, NEW e, NEW d, Recorded(S, c, e, d),
         \A p \in T!Shown : p <= c, NEW name
  PROVE  /\ T!Definitions(S, name) # {} <=> Found(name) # {}
         /\ Found(name) # {} => T!LabelAddress(S, name) = LabelAddr(name)
  <1>1. PICK l : l = Len(labels)
    OBVIOUS
  <1>2. l \in Nat /\ DOMAIN labels = 1..l /\ SourceTyped
    BY <1>1, InvTypes, LenProperties DEF AInv
  <1>3. /\ \A k \in 1..l : d[k] \in LabelsIn(S, c) /\ d[k] \in Nat
        /\ \A p \in LabelsIn(S, c) : \E k \in 1..l : p = d[k]
        /\ \A j, k \in 1..l : j < k => d[j] < d[k]
        /\ \A k \in 1..l : labels[k].name = source[d[k]].val
        /\ \A k \in 1..l : labels[k].address = T!AddressAt(S, d[k])
    <2>1. Enumerates(d, LabelsIn(S, c)) /\ Len(d) = l
      BY <1>1 DEF Recorded
    <2>2. \A k \in 1..l :
             labels[k] = [name |-> source[d[k]].val, address |-> T!AddressAt(S, d[k])]
      BY <1>1, <2>1 DEF Recorded
    <2>3. \A k \in 1..l : d[k] \in Nat
      BY <2>1, ElementOfSeq DEF Enumerates
    <2>4. /\ \A k \in 1..l : d[k] \in LabelsIn(S, c)
          /\ \A p \in LabelsIn(S, c) : \E k \in 1..l : p = d[k]
          /\ \A j, k \in 1..l : j < k => d[j] < d[k]
      BY <2>1 DEF Enumerates
    <2>5. ASSUME NEW k \in 1..l
          PROVE  labels[k].name = source[d[k]].val /\ labels[k].address = T!AddressAt(S, d[k])
      <3>1. PICK n, a : n = source[d[k]].val /\ a = T!AddressAt(S, d[k])
        OBVIOUS
      <3>2. labels[k] = [name |-> n, address |-> a]
        BY <2>2, <3>1
      <3>3. labels[k].name = n /\ labels[k].address = a
        BY <3>2
      <3>4. QED
        BY <3>1, <3>3
    <2>6. QED
      BY <2>3, <2>4, <2>5
  <1>4. PICK D : D = T!Definitions(S, name)
    OBVIOUS
  <1>5. \A p : p \in D <=> p \in LabelsIn(S, c) /\ source[p].val = name
    BY <1>4 DEF T!Definitions, LabelsIn
  <1>6. \A k : k \in Found(name) <=> k \in 1..l /\ labels[k].name = name
    BY <1>2 DEF Found
  <1>7. \A k \in Found(name) : d[k] \in D
    BY <1>3, <1>5, <1>6
  <1>8. \A p \in D : \E k \in Found(name) : p = d[k]
    <2>1. ASSUME NEW p \in D PROVE \E k \in Found(name) : p = d[k]
      <3>1. PICK k \in 1..l : p = d[k]
        BY <1>3, <1>5
      <3>2. k \in Found(name)
        BY <1>3, <1>5, <1>6, <3>1
      <3>3. QED
        BY <3>1, <3>2
    <2>2. QED
      BY <2>1
  <1>9. ASSUME Found(name) # {} PROVE T!LabelAddress(S, name) = LabelAddr(name)
    <2>1. Found(name) \in SUBSET Nat
      BY <1>2, <1>6
    <2>2. PICK m \in Found(name) : \A k \in Found(name) : ~(k < m)
      BY <1>9, <2>1, LeastNatural
    <2>3. \A k \in Found(name) : m <= k
      BY <2>1, <2>2
    <2>4. Min(Found(name)) = m
      BY <2>1, <2>3, Least
    <2>5. m \in 1..l
      BY <1>6, <2>2
    <2>6. \A p \in D : d[m] <= p
      <3>1. ASSUME NEW k \in Found(name) PROVE d[m] <= d[k]
        <4>1. k \in 1..l /\ m <= k
          BY <1>6, <2>3
        <4>2. d[m] \in Nat /\ d[k] \in Nat
          BY <1>3, <2>5, <4>1
        <4>3. CASE m = k
          BY <4>2, <4>3
        <4>4. CASE m # k
          <5>1. m < k
            BY <2>5, <4>1, <4>4
          <5>2. d[m] < d[k]
            BY <1>3, <2>5, <4>1, <5>1
          <5>3. QED
            BY <4>2, <5>2
        <4>5. QED
          BY <4>3, <4>4
      <3>2. QED
        BY <1>8, <3>1
    <2>7. d[m] \in D /\ D \subseteq Nat /\ d[m] \in Nat
      BY <1>2, <1>3, <1>5, <1>7, <2>5, ShownRange DEF LabelsIn
    <2>8. \A x \in D : (\A q \in D : x <= q) => x = d[m]
      <3>1. ASSUME NEW x \in D, \A q \in D : x <= q PROVE x = d[m]
        <4>1. PICK y : y = d[m]
          OBVIOUS
        <4>2. x \in Nat /\ y \in Nat /\ x <= y /\ y <= x
          BY <2>6, <2>7, <3>1, <4>1
        <4>3. QED
          BY <4>1, <4>2
      <3>2. QED
        BY <3>1
    <2>9. (CHOOSE p \in D : \A q \in D : p <= q) = d[m]
      BY <2>6, <2>7, <2>8
    <2>10. T!LabelAddress(S, name) = T!AddressAt(S, d[m])
      BY <1>4, <2>9 DEF T!LabelAddress
    <2>11. QED
      BY <1>3, <1>9, <2>4, <2>5, <2>10 DEF LabelAddr
  <1>10. QED
    BY <1>4, <1>7, <1>8, <1>9

\* A back patch for a label that is nowhere.
LEMMA LabelWrong ==
  ASSUME AInv, GInv, LabelNotFound
  PROVE  Wrong
  <1>1. /\ status = "patching" /\ patches # <<>> /\ Found(Head(patches).name) = {}
        /\ line = Len(lines) /\ tokens = <<>>
    BY DEF LabelNotFound, GInv
  <1>2. PICK start, c, S, e, d : Placed(start, c) /\ Recorded(S, c, e, d) /\ Written(e)
    BY <1>1 DEF GInv, Progress
  <1>3. SourceTyped /\ c \in Nat /\ ReadUpTo(S, c) /\ Enumerates(e, S) /\ Len(e) = Len(out)
    BY <1>2, InvTypes DEF Placed, Recorded
  <1>4. \A p \in T!Shown : p <= c
    BY <1>1, <1>2, AllRead
  <1>5. PICK w \in 1..Len(out) : Waits(Head(patches), e[w], w)
    <2>1. 1 \in 1..Len(patches) /\ Head(patches) = patches[1]
      BY <1>1, LastIndex, InvTypes DEF AInv
    <2>2. QED
      BY <1>2, <2>1 DEF Written
  <1>6. PICK p, name : p = e[w] /\ name = Head(patches).name
    OBVIOUS
  <1>7. p \in S /\ source[p].val \in Transfers /\ source[p + 1].val = name
    BY <1>3, <1>5, <1>6 DEF Enumerates, Waits
  <1>8. T!Definitions(S, name) = {}
    BY <1>1, <1>2, <1>3, <1>4, <1>6, DefinitionsFound
  <1>9. ASSUME NEW R \in SUBSET T!Instructions, T!Correct(R)
        PROVE  FALSE
    <2>1. T!Reading(R)
      BY <1>9 DEF T!Correct
    <2>2. \A q \in Nat : q <= c => (q \in S <=> q \in R)
      BY <1>3, <2>1, ReadingsAgree
    <2>3. \A q \in T!Instructions : q \in Nat /\ q <= c
      BY <1>3, <1>4, ShownRange
    <2>4. S \subseteq T!Instructions
      BY <1>3 DEF ReadUpTo
    <2>5. R = S
      BY <2>2, <2>3, <2>4
    <2>6. T!Definitions(R, source[p + 1].val) # {}
      BY <1>7, <1>9, <2>5 DEF T!Correct
    <2>7. QED
      BY <1>7, <1>8, <2>5, <2>6
  <1>10. QED
    BY <1>9 DEF Wrong

-----------------------------------------------------------------------------
(* The refinement.                                                         *)

\* What is written at the end are the words that two passes would give.
LEMMA SavedRight ==
  ASSUME AInv, GInv, OutputSave
  PROVE  \E R \in SUBSET T!Instructions : T!Correct(R) /\ out = T!Words(R)
  <1>1. /\ status = "patching" /\ patches = <<>> /\ line = Len(lines) /\ tokens = <<>>
    BY DEF OutputSave, GInv
  <1>2. PICK start, c, S, e, d : Placed(start, c) /\ Recorded(S, c, e, d) /\ Written(e)
    BY <1>1 DEF GInv, Progress
  <1>3. /\ SourceTyped /\ c \in Nat /\ c + 1 \in Nat
        /\ ReadUpTo(S, c) /\ Enumerates(e, S) /\ Len(e) = Len(out)
    BY <1>2, InvTypes DEF Placed, Recorded
  <1>4. \A p \in T!Shown : p <= c
    BY <1>1, <1>2, AllRead
  <1>5. PICK n : n = Len(out)
    OBVIOUS
  <1>6. n \in Nat /\ \A i \in 1..n : e[i] \in S
    BY <1>3, <1>5, InvTypes DEF Enumerates
  <1>7. S \in SUBSET T!Instructions
    BY <1>3 DEF ReadUpTo
  <1>8. \A w \in 1..n : Final(e[w], out[w])
    <2>1. 1..Len(patches) = {}
      BY <1>1
    <2>2. QED
      BY <1>2, <1>5, <2>1 DEF Written
  <1>9. T!Reading(S)
    <2>1. \A p \in S : T!Behind(p) \subseteq T!Shown \ S /\ T!Readable(p)
      BY <1>3 DEF ReadUpTo
    <2>2. \A p \in T!Shown : p \in S \cup T!Taken(S) \/ T!Is(p, "label")
      BY <1>3, <1>4 DEF ReadUpTo
    <2>3. QED
      BY <2>1, <2>2 DEF T!Reading
  <1>10. \A name : /\ T!Definitions(S, name) # {} <=> Found(name) # {}
                   /\ Found(name) # {} => T!LabelAddress(S, name) = LabelAddr(name)
    BY <1>2, <1>3, <1>4, DefinitionsFound
  <1>11. \A p \in S : source[p].val \in Transfers => T!Definitions(S, source[p + 1].val) # {}
    <2>1. ASSUME NEW p \in S, source[p].val \in Transfers
          PROVE  T!Definitions(S, source[p + 1].val) # {}
      <3>1. PICK w \in 1..n : p = e[w]
        BY <1>3, <1>5 DEF Enumerates
      <3>2. Found(source[p + 1].val) # {}
        BY <1>8, <2>1, <3>1 DEF Final
      <3>3. QED
        BY <1>10, <3>2
    <2>2. QED
      BY <2>1
  <1>12. \A p \in T!Shown : ~Unrecognized(source[p])
    <2>1. Len(tokens) = 0 /\ c + 0 = c
      BY <1>1, <1>3
    <2>2. QED
      BY <1>2, <1>4, <2>1 DEF Placed
  <1>13. \A p \in T!Shown : ~(p..(p + MaxLineLen) \subseteq T!Shown)
    <2>1. ASSUME NEW p \in T!Shown PROVE ~(p..(p + MaxLineLen) \subseteq T!Shown)
      <3>1. Layout(start, lines, Len(source)) /\ ~TooLong(lines) /\ lines \in Seq(Seq(Pieces))
        BY <1>2 DEF Placed, AInv
      <3>2. PICK k \in 1..Len(lines) : p \in (start[k] + 1)..start[k + 1]
        BY <1>3, <2>1, <3>1, ShownRange DEF Layout
      <3>3. PICK a, b, t : a = start[k] /\ b = start[k + 1] /\ t = Len(lines[k])
        OBVIOUS
      <3>4. a \in Nat /\ b \in Nat /\ t \in Nat /\ a + t + 1 \notin T!Shown
        BY <1>3, <3>1, <3>2, <3>3, LineAt
      <3>5. p \in Nat /\ a + 1 <= p /\ p <= a + t
        <4>1. p <= a + t
          BY <2>1, <3>1, <3>2, <3>3 DEF Layout
        <4>2. QED
          BY <3>2, <3>3, <3>4, <4>1
      <3>6. ~(t > MaxLineLen) /\ MaxLineLen \in Nat
        BY <3>1, <3>2, <3>3, AsmAssumption DEF TooLong
      <3>7. a + t + 1 \in p..(p + MaxLineLen)
        BY <3>4, <3>5, <3>6
      <3>8. QED
        BY <3>4, <3>7
    <2>2. QED
      BY <2>1
  <1>14. T!Correct(S)
    BY <1>9, <1>11, <1>12, <1>13 DEF T!Correct
  <1>15. T!Cardinality(S) = n
    <2>1. \A p \in S : p < c + 1
      BY <1>3, TakenRead
    <2>2. QED
      BY <1>3, <1>5, <2>1, AddressBehind
  <1>16. ASSUME NEW k \in 1..n
         PROVE  (CHOOSE p \in S : T!AddressAt(S, p) = Entry + 2 * (k - 1)) = e[k]
    <2>1. \A i \in 1..n : T!AddressAt(S, e[i]) = Entry + 2 * (i - 1)
      BY <1>3, <1>5, AddressOfWord
    <2>2. ASSUME NEW p \in S, T!AddressAt(S, p) = Entry + 2 * (k - 1) PROVE p = e[k]
      <3>1. PICK i \in 1..n : p = e[i]
        BY <1>3, <1>5 DEF Enumerates
      <3>2. Entry + 2 * (i - 1) = Entry + 2 * (k - 1)
        BY <2>1, <2>2, <3>1
      <3>3. i = k
        BY <3>2 DEF Entry
      <3>4. QED
        BY <3>1, <3>3
    <2>3. QED
      BY <1>6, <2>1, <2>2
  <1>17. ASSUME NEW k \in 1..n
         PROVE  T!WordAt(S, e[k]) = out[k]
    <2>1. PICK p : p = e[k]
      OBVIOUS
    <2>2. Final(p, out[k])
      BY <1>8, <2>1
    <2>3. CASE source[p].val \notin Transfers
      <3>1. out[k] = Encode(source[p].val, ArgsAt(p), 0)
        BY <2>2, <2>3 DEF Final
      <3>2. QED
        BY <2>1, <2>3, <3>1 DEF T!WordAt, ArgsAt
    <2>4. CASE source[p].val \in Transfers
      <3>1. /\ Found(source[p + 1].val) # {}
            /\ out[k] = Encode(source[p].val, ArgsAt(p), LabelAddr(source[p + 1].val))
        BY <2>2, <2>4 DEF Final
      <3>2. T!LabelAddress(S, source[p + 1].val) = LabelAddr(source[p + 1].val)
        BY <1>10, <3>1
      <3>3. ArgsAt(p)[1] = source[p + 1]
        <4>1. p \in S
          BY <1>6, <2>1
        <4>2. T!Behind(p) \subseteq T!Shown /\ p \in Nat /\ p + 1 \in Int
          BY <1>3, <1>9, <4>1, TakenRead DEF T!Reading
        <4>3. Len(Operands(source[p].val)) = 1
          <5>1. Operands(source[p].val) = <<"label_addr">>
            BY <2>4 DEF Operands, Transfers
          <5>2. QED
            BY <5>1
        <4>4. T!Behind(p) = (p + 1)..(p + 1)
          BY <1>3, <4>3, ShownRange
        <4>5. \A q \in (p + 1)..(p + 1) : source[q] \in Pieces
          BY <1>3, <4>2, <4>4, ShownRange
        <4>6. \A j \in 1..((p + 1) - (p + 1) + 1) :
                 SubSeq(source, p + 1, p + 1)[j] = source[(p + 1) + j - 1]
          BY <4>2, <4>5, SubSeqProperties
        <4>7. 1 \in 1..((p + 1) - (p + 1) + 1) /\ (p + 1) + 1 - 1 = p + 1
          BY <4>2
        <4>8. QED
          BY <4>3, <4>6, <4>7 DEF ArgsAt
      <3>4. QED
        BY <2>1, <2>4, <3>1, <3>2, <3>3 DEF T!WordAt, ArgsAt
    <2>5. QED
      BY <2>3, <2>4
  <1>18. T!Words(S) = [k \in 1..n |-> out[k]]
    BY <1>15, <1>16, <1>17 DEF T!Words
  <1>19. out = [k \in 1..n |-> out[k]]
    BY <1>5, LenProperties DEF AInv
  <1>20. QED
    BY <1>7, <1>14, <1>18, <1>19

LEMMA FailStep ==
  ASSUME status \in {"splitting", "reading", "patching"}, status' \in {"exited", "crashed"},
         UNCHANGED source, Wrong
  PROVE  T!Next
  <1>1. ~\E R \in SUBSET T!Instructions : T!Correct(R)
    BY DEF Wrong
  <1>2. T!Fail
    BY <1>1 DEF T!Fail
  <1>3. QED
    BY <1>2 DEF T!Next

LEMMA StutterStep ==
  ASSUME UNCHANGED source, status \notin {"saved", "exited", "crashed"},
         status' \notin {"saved", "exited", "crashed"}
  PROVE  UNCHANGED <<source, IF status = "saved" THEN out ELSE <<>>,
                     IF status = "saved" THEN "saved"
                     ELSE IF status \in {"exited", "crashed"} THEN "failed" ELSE "none">>
  OBVIOUS

\* What TwoPass sees of a state.
Seen == <<source, IF status = "saved" THEN out ELSE <<>>,
          IF status = "saved" THEN "saved"
          ELSE IF status \in {"exited", "crashed"} THEN "failed" ELSE "none">>

LEMMA InitMaps == Init => T!Init
  BY DEF Init, T!Init

LEMMA StepMaps == AInv /\ GInv /\ [Next]_vars => [T!Next]_Seen
  <1> SUFFICES ASSUME AInv, GInv, [Next]_vars PROVE [T!Next]_Seen
    OBVIOUS
  <1>1. CASE UNCHANGED vars
    BY <1>1 DEF vars, Seen
  <1>2. CASE StrToLines
    <2>1. /\ status = "splitting" /\ UNCHANGED source
          /\ \/ status' = "exited" /\ Scanned.long
             \/ status' \in {"wild", "reading"}
      BY <1>2 DEF StrToLines
    <2>2. QED
      BY <2>1, TooLongWrong, FailStep, StutterStep DEF Seen
  <1>3. CASE ReadLine
    <2>1. /\ status = "reading" /\ UNCHANGED source
          /\ status' \in {"exited", "reading"}
      BY <1>3 DEF ReadLine
    <2>2. QED
      BY <1>3, <2>1, UnrecognizedWrong, FailStep, StutterStep DEF Seen
  <1>4. CASE \/ ReadWild \/ NewLabel \/ ProcessInstruction \/ WrapPc
             \/ EndOfSource \/ FillBackpatch
    <2>1. /\ status \in {"reading", "patching"} /\ UNCHANGED source
          /\ status' \in {"reading", "wild", "wrapped", "patching"}
      BY <1>4 DEF ReadWild, NewLabel, ProcessInstruction, WrapPc, EndOfSource,
                  FillBackpatch, At
    <2>2. QED
      BY <2>1, StutterStep DEF Seen
  <1>5. CASE RejectOperand \/ SyntaxError
    <2>1. status = "reading" /\ status' \in {"exited", "crashed"} /\ UNCHANGED source
      BY <1>5 DEF RejectOperand, SyntaxError, At
    <2>2. QED
      BY <1>5, <2>1, TokenWrong, FailStep
  <1>6. CASE LabelNotFound
    <2>1. status = "patching" /\ status' = "exited" /\ UNCHANGED source
      BY <1>6 DEF LabelNotFound
    <2>2. QED
      BY <1>6, <2>1, LabelWrong, FailStep
  <1>7. CASE OutputSave
    <2>1. status = "patching" /\ status' = "saved" /\ UNCHANGED <<source, out>>
      BY <1>7 DEF OutputSave
    <2>2. \E R \in SUBSET T!Instructions : T!Correct(R) /\ out' = T!Words(R)
      BY <1>7, <2>1, SavedRight
    <2>3. T!Succeed
      BY <2>1, <2>2 DEF T!Succeed
    <2>4. QED
      BY <2>3 DEF T!Next
  <1>8. QED
    BY <1>1, <1>2, <1>3, <1>4, <1>5, <1>6, <1>7 DEF Next

\* The assembler in one pass, with labels that are filled in when the source is at
\* its end, implements the two passes of TwoPass: it saves the words they give for a
\* source without errors, and it exits, or crashes, without a file only for a source that
\* has one.  For every set of sources that fit in memory and every length of a line.
THEOREM AssemblerCorrect == Spec => ImplementsTwoPass
  <1>1. AInv /\ GInv /\ [Next]_vars =>
           [T!Next]_<<source, IF status = "saved" THEN out ELSE <<>>,
                      IF status = "saved" THEN "saved"
                      ELSE IF status \in {"exited", "crashed"} THEN "failed" ELSE "none">>
    BY StepMaps DEF Seen
  <1>2. QED
    BY <1>1, InitMaps, Inductive, InductiveProgress, PTL DEF Spec, ImplementsTwoPass, T!Spec

-----------------------------------------------------------------------------
(* Or-ing hexadecimal digits into a word.                                  *)

\* The bits of a byte, one by one.
LEMMA BitWeights ==
  ASSUME NEW n
  PROVE  Bits(n) = { k \in 0..7 : (n \div Weight(k)) % 2 = 1 }
  BY DEF Bits, Weight

LEMMA InBits ==
  ASSUME NEW n
  PROVE  /\ 0 \in Bits(n) <=> (n \div 1) % 2 = 1
         /\ 1 \in Bits(n) <=> (n \div 2) % 2 = 1
         /\ 2 \in Bits(n) <=> (n \div 4) % 2 = 1
         /\ 3 \in Bits(n) <=> (n \div 8) % 2 = 1
         /\ 4 \in Bits(n) <=> (n \div 16) % 2 = 1
         /\ 5 \in Bits(n) <=> (n \div 32) % 2 = 1
         /\ 6 \in Bits(n) <=> (n \div 64) % 2 = 1
         /\ 7 \in Bits(n) <=> (n \div 128) % 2 = 1
         /\ Bits(n) \subseteq 0..7
  BY BitWeights, Powers

\* A number below 16 has its bits below 4, and 16 times such a number has them above.
LEMMA NibbleBits ==
  ASSUME NEW p \in 0..15
  PROVE  /\ 4 \notin Bits(p) /\ 5 \notin Bits(p) /\ 6 \notin Bits(p) /\ 7 \notin Bits(p)
         /\ 0 \notin Bits(p * 16) /\ 1 \notin Bits(p * 16)
         /\ 2 \notin Bits(p * 16) /\ 3 \notin Bits(p * 16)
         /\ 4 \in Bits(p * 16) <=> 0 \in Bits(p)
         /\ 5 \in Bits(p * 16) <=> 1 \in Bits(p)
         /\ 6 \in Bits(p * 16) <=> 2 \in Bits(p)
         /\ 7 \in Bits(p * 16) <=> 3 \in Bits(p)
  <1>1. p \div 16 = 0 /\ p \div 32 = 0 /\ p \div 64 = 0 /\ p \div 128 = 0 /\ 0 % 2 = 0
    OBVIOUS
  <1>2. ((p * 16) \div 1) % 2 = 0 /\ ((p * 16) \div 2) % 2 = 0
    OBVIOUS
  <1>3. ((p * 16) \div 4) % 2 = 0 /\ ((p * 16) \div 8) % 2 = 0
    OBVIOUS
  <1>4. (p * 16) \div 16 = p \div 1 /\ (p * 16) \div 32 = p \div 2
    OBVIOUS
  <1>5. (p * 16) \div 64 = p \div 4 /\ (p * 16) \div 128 = p \div 8
    OBVIOUS
  <1>6. 4 \notin Bits(p) /\ 5 \notin Bits(p) /\ 6 \notin Bits(p) /\ 7 \notin Bits(p)
    BY <1>1, InBits
  <1>7. /\ 0 \notin Bits(p * 16) /\ 1 \notin Bits(p * 16)
        /\ 2 \notin Bits(p * 16) /\ 3 \notin Bits(p * 16)
    <2>1. 0 # 1
      OBVIOUS
    <2>2. QED
      BY <1>2, <1>3, <2>1, InBits
  <1>8. /\ 4 \in Bits(p * 16) <=> 0 \in Bits(p)
        /\ 5 \in Bits(p * 16) <=> 1 \in Bits(p)
        /\ 6 \in Bits(p * 16) <=> 2 \in Bits(p)
        /\ 7 \in Bits(p * 16) <=> 3 \in Bits(p)
    BY <1>4, <1>5, InBits
  <1>9. QED
    BY <1>6, <1>7, <1>8

\* A byte is made of the bits of its two hexadecimal digits.
LEMMA DigitBits ==
  ASSUME NEW p \in 0..15, NEW q \in 0..15, NEW S,
         /\ 0 \in S <=> (q \div 1) % 2 = 1
         /\ 1 \in S <=> (q \div 2) % 2 = 1
         /\ 2 \in S <=> (q \div 4) % 2 = 1
         /\ 3 \in S <=> (q \div 8) % 2 = 1
         /\ 4 \in S <=> (p \div 1) % 2 = 1
         /\ 5 \in S <=> (p \div 2) % 2 = 1
         /\ 6 \in S <=> (p \div 4) % 2 = 1
         /\ 7 \in S <=> (p \div 8) % 2 = 1
  PROVE  ByteOf(S) = p * 16 + q
  <1>1. PICK q0, q1, q2, q3 \in 0..1 :
           /\ q0 = (q \div 1) % 2 /\ q1 = (q \div 2) % 2
           /\ q2 = (q \div 4) % 2 /\ q3 = (q \div 8) % 2
    OBVIOUS
  <1>2. PICK p0, p1, p2, p3 \in 0..1 :
           /\ p0 = (p \div 1) % 2 /\ p1 = (p \div 2) % 2
           /\ p2 = (p \div 4) % 2 /\ p3 = (p \div 8) % 2
    OBVIOUS
  <1>3. q = q0 + 2 * q1 + 4 * q2 + 8 * q3
    BY <1>1
  <1>4. p = p0 + 2 * p1 + 4 * p2 + 8 * p3
    BY <1>2
  <1>5. ByteOf(S) = q0 + 2 * q1 + 4 * q2 + 8 * q3 + 16 * p0 + 32 * p1 + 64 * p2 + 128 * p3
    BY <1>1, <1>2 DEF ByteOf
  <1>6. QED
    BY <1>3, <1>4, <1>5

\* Or-ing the two hexadecimal digits of a byte.
LEMMA OrNibbles ==
  ASSUME NEW p \in 0..15, NEW q \in 0..15
  PROVE  Or8(p * 16, q) = p * 16 + q /\ Or8(q, p * 16) = p * 16 + q
  <1> DEFINE S == Bits(p * 16) \cup Bits(q)
  <1>1. /\ 0 \in S <=> (q \div 1) % 2 = 1
        /\ 1 \in S <=> (q \div 2) % 2 = 1
        /\ 2 \in S <=> (q \div 4) % 2 = 1
        /\ 3 \in S <=> (q \div 8) % 2 = 1
    BY NibbleBits, InBits
  <1>2. /\ 4 \in S <=> (p \div 1) % 2 = 1
        /\ 5 \in S <=> (p \div 2) % 2 = 1
        /\ 6 \in S <=> (p \div 4) % 2 = 1
        /\ 7 \in S <=> (p \div 8) % 2 = 1
    BY NibbleBits, InBits
  <1>3. Bits(q) \cup Bits(p * 16) = S
    OBVIOUS
  <1> HIDE DEF S
  <1>4. ByteOf(S) = p * 16 + q
    BY <1>1, <1>2, DigitBits
  <1>5. QED
    BY <1>3, <1>4 DEF Or8, S

\* Or-ing two words byte by byte.
LEMMA OrWords ==
  ASSUME NEW h \in Byte, NEW l \in Byte, NEW p \in Byte, NEW q \in Byte
  PROVE  Or16(h * 256 + l, p * 256 + q) = Or8(h, p) * 256 + Or8(l, q)
  <1>1. (h * 256 + l) \div 256 = h /\ (h * 256 + l) % 256 = l
    BY DEF Byte
  <1>2. (p * 256 + q) \div 256 = p /\ (p * 256 + q) % 256 = q
    BY DEF Byte
  <1>3. QED
    BY <1>1, <1>2 DEF Or16

\* The two digits of a byte.
LEMMA Hexadecimal ==
  ASSUME NEW n \in Byte
  PROVE  \E p \in 0..15, q \in 0..15 : n = p * 16 + q
  <1>1. n \in Int /\ 0 <= n /\ n <= 255
    BY DEF Byte
  <1>2. n = 16 * (n \div 16) + (n % 16)
    BY <1>1
  <1>3. n \div 16 \in 0..15
    BY <1>1
  <1>4. n % 16 \in 0..15
    BY <1>1
  <1>5. PICK p, q : p = n \div 16 /\ q = n % 16
    OBVIOUS
  <1>6. p \in 0..15 /\ q \in 0..15 /\ n = 16 * p + q
    BY <1>2, <1>3, <1>4, <1>5
  <1>7. n = p * 16 + q
    BY <1>6
  <1>8. QED
    BY <1>6, <1>7

\* Or-ing a byte with zero.
LEMMA OrNothing ==
  ASSUME NEW n \in Byte
  PROVE  Or8(n, 0) = n /\ Or8(0, n) = n
  <1>1. PICK p \in 0..15, q \in 0..15 : n = p * 16 + q
    BY Hexadecimal
  <1>2. /\ 0 \notin Bits(0) /\ 1 \notin Bits(0) /\ 2 \notin Bits(0) /\ 3 \notin Bits(0)
        /\ Bits(0) = {}
    BY BitsOf
  <1>3. Or8(n, 0) = ByteOf(Bits(n)) /\ Or8(0, n) = ByteOf(Bits(n))
    <2>1. Bits(n) \cup Bits(0) = Bits(n) /\ Bits(0) \cup Bits(n) = Bits(n)
      BY <1>2
    <2>2. QED
      BY <2>1 DEF Or8
  <1>4. ByteOf(Bits(n)) = n
    <2>1. /\ (n \div 1) % 2 = (q \div 1) % 2
          /\ (n \div 2) % 2 = (q \div 2) % 2
      BY <1>1
    <2>2. /\ (n \div 4) % 2 = (q \div 4) % 2
          /\ (n \div 8) % 2 = (q \div 8) % 2
      BY <1>1
    <2>3. n \div 16 = p \div 1 /\ n \div 32 = p \div 2
      BY <1>1
    <2>4. n \div 64 = p \div 4 /\ n \div 128 = p \div 8
      BY <1>1
    <2>5. PICK S : S = Bits(n)
      OBVIOUS
    <2>6. /\ 0 \in S <=> (q \div 1) % 2 = 1
          /\ 1 \in S <=> (q \div 2) % 2 = 1
          /\ 2 \in S <=> (q \div 4) % 2 = 1
          /\ 3 \in S <=> (q \div 8) % 2 = 1
          /\ 4 \in S <=> (p \div 1) % 2 = 1
          /\ 5 \in S <=> (p \div 2) % 2 = 1
          /\ 6 \in S <=> (p \div 4) % 2 = 1
          /\ 7 \in S <=> (p \div 8) % 2 = 1
      BY <2>1, <2>2, <2>3, <2>4, <2>5, InBits
    <2>7. ByteOf(S) = p * 16 + q
      BY <2>6, DigitBits
    <2>8. QED
      BY <1>1, <2>5, <2>7
  <1>5. QED
    BY <1>3, <1>4

-----------------------------------------------------------------------------
(* The word with four hexadecimal digits.                                  *)

\* The word with these four hexadecimal digits.
Code(c, x, y, n) == c * 4096 + x * 256 + y * 16 + n

LEMMA CodeDigits ==
  ASSUME NEW opcode \in Word
  PROVE  \E c, x, y, n \in Reg : opcode = Code(c, x, y, n)
  <1> USE DEF Reg
  <1>1. opcode \in Int /\ 0 <= opcode /\ opcode <= 65535
    BY WordRange
  <1>2. opcode = 256 * (opcode \div 256) + (opcode % 256)
    BY <1>1
  <1>3. opcode \div 256 \in Byte
    BY <1>1 DEF Byte
  <1>4. opcode % 256 \in Byte
    BY <1>1 DEF Byte
  <1>5. PICK h, l : h = opcode \div 256 /\ l = opcode % 256
    OBVIOUS
  <1>6. h \in Byte /\ l \in Byte /\ opcode = 256 * h + l
    BY <1>2, <1>3, <1>4, <1>5
  <1>7. PICK c \in Reg, x \in Reg : h = c * 16 + x
    BY <1>6, Hexadecimal
  <1>8. PICK y \in Reg, n \in Reg : l = y * 16 + n
    BY <1>6, Hexadecimal
  <1>9. opcode = Code(c, x, y, n)
    BY <1>6, <1>7, <1>8 DEF Code
  <1>10. QED
    BY <1>9, Zenon

\* What disasm takes a word apart into are its digits.
LEMMA CodeFields ==
  ASSUME NEW c \in Reg, NEW x \in Reg, NEW y \in Reg, NEW n \in Reg
  PROVE  /\ Class(Code(c, x, y, n)) = c
         /\ X(Code(c, x, y, n)) = x
         /\ Y(Code(c, x, y, n)) = y
         /\ Nib(Code(c, x, y, n)) = n
         /\ Imm(Code(c, x, y, n)) = y * 16 + n
         /\ Addr(Code(c, x, y, n)) = x * 256 + y * 16 + n
  <1> USE DEF Reg
  <1>1. Class(Code(c, x, y, n)) = c
    BY DEF Class, Code
  <1>2. X(Code(c, x, y, n)) = x
    <2>1. Code(c, x, y, n) \div 256 = c * 16 + x
      BY DEF Code
    <2>2. QED
      BY <2>1 DEF X
  <1>3. Y(Code(c, x, y, n)) = y
    <2>1. Code(c, x, y, n) \div 16 = (c * 16 + x) * 16 + y
      BY DEF Code
    <2>2. QED
      BY <2>1 DEF Y
  <1>4. Nib(Code(c, x, y, n)) = n
    BY DEF Nib, Code
  <1>5. Imm(Code(c, x, y, n)) = y * 16 + n
    BY DEF Imm, Code
  <1>6. Addr(Code(c, x, y, n)) = x * 256 + y * 16 + n
    BY DEF Addr, Code
  <1>7. QED
    BY <1>1, <1>2, <1>3, <1>4, <1>5, <1>6

\* Or-ing a digit, or two, into the place of zeros.
\* One digit, or two, is or-ed into a word that has zeros there.
WithX(c, x, y, n)  == Or16(Code(c, 0, y, n), x * 256)
WithY(c, x, y, n)  == Or16(Code(c, x, 0, n), y * 16)
WithYN(c, x, y, n) == Or16(Code(c, x, 0, 0), y * 16 + n)
WithN(c, x, y, n)  == Or16(Code(c, x, y, 0), n)

LEMMA OrX ==
  ASSUME NEW c \in Reg, NEW x \in Reg, NEW y \in Reg, NEW n \in Reg
  PROVE  WithX(c, x, y, n) = Code(c, x, y, n)
  <1> USE DEF Reg
  <1>1. PICK h, l, g : h = c * 16 + x /\ l = y * 16 + n /\ g = c * 16
    OBVIOUS
  <1>2. h \in Byte /\ l \in Byte /\ g \in Byte /\ x \in Byte /\ 0 \in Byte
    BY <1>1 DEF Byte
  <1>3. /\ Code(c, x, y, n) = h * 256 + l
        /\ Code(c, 0, y, n) = g * 256 + l
        /\ x * 256 = x * 256 + 0
    BY <1>1 DEF Code
  <1>4. Or8(g, x) = h /\ Or8(l, 0) = l
    BY <1>1, <1>2, OrNibbles, OrNothing
  <1>5. Or16(g * 256 + l, x * 256 + 0) = h * 256 + l
    BY <1>2, <1>4, OrWords
  <1>6. QED
    BY <1>3, <1>5 DEF WithX

LEMMA OrY ==
  ASSUME NEW c \in Reg, NEW x \in Reg, NEW y \in Reg, NEW n \in Reg
  PROVE  WithY(c, x, y, n) = Code(c, x, y, n)
  <1> USE DEF Reg
  <1>1. PICK h, l, m : h = c * 16 + x /\ l = y * 16 + n /\ m = y * 16
    OBVIOUS
  <1>2. h \in Byte /\ m \in Byte /\ n \in Byte /\ 0 \in Byte
    BY <1>1 DEF Byte
  <1>3. /\ Code(c, x, y, n) = h * 256 + l
        /\ Code(c, x, 0, n) = h * 256 + n
        /\ y * 16 = 0 * 256 + m
    BY <1>1 DEF Code
  <1>4. Or8(n, m) = l /\ Or8(h, 0) = h
    BY <1>1, <1>2, OrNibbles, OrNothing
  <1>5. Or16(h * 256 + n, 0 * 256 + m) = h * 256 + l
    BY <1>2, <1>4, OrWords
  <1>6. QED
    BY <1>3, <1>5 DEF WithY

LEMMA OrYN ==
  ASSUME NEW c \in Reg, NEW x \in Reg, NEW y \in Reg, NEW n \in Reg
  PROVE  WithYN(c, x, y, n) = Code(c, x, y, n)
  <1> USE DEF Reg
  <1>1. PICK h, l : h = c * 16 + x /\ l = y * 16 + n
    OBVIOUS
  <1>2. h \in Byte /\ l \in Byte /\ 0 \in Byte
    BY <1>1 DEF Byte
  <1>3. /\ Code(c, x, y, n) = h * 256 + l
        /\ Code(c, x, 0, 0) = h * 256 + 0
        /\ y * 16 + n = 0 * 256 + l
    BY <1>1 DEF Code
  <1>4. Or8(0, l) = l /\ Or8(h, 0) = h
    BY <1>2, OrNothing
  <1>5. Or16(h * 256 + 0, 0 * 256 + l) = h * 256 + l
    BY <1>2, <1>4, OrWords
  <1>6. QED
    BY <1>3, <1>5 DEF WithYN

LEMMA OrN ==
  ASSUME NEW c \in Reg, NEW x \in Reg, NEW y \in Reg, NEW n \in Reg
  PROVE  WithN(c, x, y, n) = Code(c, x, y, n)
  <1> USE DEF Reg
  <1>1. PICK h, l, m : h = c * 16 + x /\ l = y * 16 + n /\ m = y * 16
    OBVIOUS
  <1>2. h \in Byte /\ m \in Byte /\ n \in Byte /\ 0 \in Byte
    BY <1>1 DEF Byte
  <1>3. /\ Code(c, x, y, n) = h * 256 + l
        /\ Code(c, x, y, 0) = h * 256 + m
        /\ n = 0 * 256 + n
    BY <1>1 DEF Code
  <1>4. Or8(m, n) = l /\ Or8(h, 0) = h
    BY <1>1, <1>2, OrNibbles, OrNothing
  <1>5. Or16(h * 256 + m, 0 * 256 + n) = h * 256 + l
    BY <1>2, <1>4, OrWords
  <1>6. QED
    BY <1>3, <1>5 DEF WithN

-----------------------------------------------------------------------------
(* hexStrToInt.                                                            *)

LEMMA Greatest ==
  ASSUME NEW S \in SUBSET Nat, NEW m \in S, \A k \in S : k <= m
  PROVE  Max(S) = m
  <1>1. \A x \in S : (\A k \in S : x >= k) => x = m
    OBVIOUS
  <1>2. QED
    BY <1>1 DEF Max

\* The next digit.
AddDigit(value, d) == Or16((value * 16) % WordSize, d)

\* A number of at most three digits is read from its first digit on.
LEMMA HexUnfolds ==
  ASSUME NEW str, NEW S, str \in Seq(S), NEW digits \in 1..3, Len(str) <= digits, str # <<>>
  PROVE  \E f : /\ f[{}] = 0
                /\ f[{1}] = AddDigit(f[{}], str[1])
                /\ Len(str) >= 2 => f[1..2] = AddDigit(f[{1}], str[2])
                /\ Len(str) >= 3 => f[1..3] = AddDigit(f[1..2], str[3])
                /\ HexStrToInt(str, digits) = f[1..Len(str)]
  <1>1. PICK k : k = Len(str)
    OBVIOUS
  <1>2. k \in 1..3 /\ DOMAIN str = 1..k
    BY <1>1, LastIndex, LenProperties
  <1>3. SubSeq(str, 1, Min({digits, Len(str)})) = str
    <2>1. {digits, k} \in SUBSET Nat /\ k \in {digits, k} /\ \A m \in {digits, k} : k <= m
      BY <1>1, <1>2
    <2>2. Min({digits, k}) = k
      BY <2>1, Least
    <2>3. SubSeq(str, 1, k) = str
      BY <1>1, SubSeqFull
    <2>4. QED
      BY <1>1, <2>2, <2>3
  <1> DEFINE D == 1..k
             One(s)   == IF 1 \in s THEN AddDigit(0, str[1]) ELSE 0
             Two(s)   == IF 2 \in s THEN AddDigit(One(s), str[2]) ELSE One(s)
             Three(s) == IF 3 \in s THEN AddDigit(Two(s), str[3]) ELSE Two(s)
             h == [s \in SUBSET D |-> Three(s)]
             iter == CHOOSE g : g = [s \in SUBSET D |->
                                       IF s = {} THEN 0
                                       ELSE AddDigit(g[s \ {Max(s)}], str[Max(s)])]
  <1>4. HexStrToInt(str, digits) = iter[D]
    BY <1>2, <1>3 DEF HexStrToInt, FoldLeft, MapThenFoldSet, AddDigit
  <1>5. ASSUME NEW s \in SUBSET D, s # {}
        PROVE  h[s] = AddDigit(h[s \ {Max(s)}], str[Max(s)])
    <2>1. /\ s \in SUBSET Nat /\ \A i \in s : i \in 1..3
          /\ \A i : s \ {i} \in SUBSET D
      <3>1. \A i \in 1..k : i \in 1..3 /\ i \in Nat
        BY <1>2
      <3>2. \A i \in s : i \in 1..k
        BY <1>5
      <3> HIDE DEF D
      <3>3. QED
        BY <3>1, <3>2
    <2> HIDE DEF D
    <2>2. \A r \in SUBSET D : h[r] = Three(r)
      OBVIOUS
    <2>3. CASE 3 \in s
      <3>1. Max(s) = 3
        BY <2>1, <2>3, Greatest
      <3>2. h[s \ {3}] = Two(s) /\ h[s] = AddDigit(Two(s), str[3])
        BY <2>1, <2>2, <2>3
      <3>3. QED
        BY <3>1, <3>2
    <2>4. CASE 3 \notin s /\ 2 \in s
      <3>1. \A i \in s : i <= 2
        BY <2>1, <2>4
      <3>2. Max(s) = 2
        BY <2>1, <2>4, <3>1, Greatest
      <3>3. h[s \ {2}] = One(s) /\ h[s] = AddDigit(One(s), str[2])
        BY <2>1, <2>2, <2>4
      <3>4. QED
        BY <3>2, <3>3
    <2>5. CASE 3 \notin s /\ 2 \notin s
      <3>1. s = {1}
        <4>1. \A i \in 1..3 : i = 1 \/ i = 2 \/ i = 3
          OBVIOUS
        <4>2. QED
          BY <1>5, <2>1, <2>5, <4>1
      <3>2. Max(s) = 1
        BY <2>1, <3>1, Greatest
      <3>3. h[s \ {1}] = 0 /\ h[s] = AddDigit(0, str[1])
        BY <2>1, <2>2, <3>1
      <3>4. QED
        BY <3>2, <3>3
    <2>6. QED
      BY <2>3, <2>4, <2>5
  <1>6. h = [s \in SUBSET D |-> IF s = {} THEN 0 ELSE AddDigit(h[s \ {Max(s)}], str[Max(s)])]
    <2>1. h[{}] = 0 /\ h = [s \in SUBSET D |-> h[s]]
      OBVIOUS
    <2> HIDE DEF h
    <2>2. QED
      BY <1>5, <2>1
  <1>7. iter = [s \in SUBSET D |-> IF s = {} THEN 0
                                  ELSE AddDigit(iter[s \ {Max(s)}], str[Max(s)])]
    BY <1>6
  <1> HIDE DEF iter
  <1>8. iter[{}] = 0
    BY <1>7
  <1>9. iter[{1}] = AddDigit(iter[{}], str[1])
    <2>1. {1} \in SUBSET D /\ {1} # {} /\ {1} \ {1} = {} /\ {1} \in SUBSET Nat
      BY <1>2
    <2>2. Max({1}) = 1
      BY <2>1, Greatest
    <2>3. QED
      BY <1>7, <2>1, <2>2
  <1>10. k >= 2 => iter[1..2] = AddDigit(iter[{1}], str[2])
    <2> SUFFICES ASSUME k >= 2 PROVE iter[1..2] = AddDigit(iter[{1}], str[2])
      OBVIOUS
    <2>1. 1..2 \in SUBSET D /\ 1..2 # {} /\ (1..2) \ {2} = {1} /\ 1..2 \in SUBSET Nat
      BY <1>2
    <2>2. Max(1..2) = 2
      BY <2>1, Greatest
    <2>3. QED
      BY <1>7, <2>1, <2>2
  <1>11. k >= 3 => iter[1..3] = AddDigit(iter[1..2], str[3])
    <2> SUFFICES ASSUME k >= 3 PROVE iter[1..3] = AddDigit(iter[1..2], str[3])
      OBVIOUS
    <2>1. 1..3 \in SUBSET D /\ 1..3 # {} /\ (1..3) \ {3} = 1..2 /\ 1..3 \in SUBSET Nat
      BY <1>2
    <2>2. Max(1..3) = 3
      BY <2>1, Greatest
    <2>3. QED
      BY <1>7, <2>1, <2>2
  <1>12. QED
    BY <1>1, <1>4, <1>8, <1>9, <1>10, <1>11

\* The values of one, two and three digits.
LEMMA FirstDigit ==
  ASSUME NEW d \in Reg
  PROVE  AddDigit(0, d) = d
  <1> USE DEF Reg
  <1>1. 0 \in Reg
    OBVIOUS
  <1>2. (0 * 16) % WordSize = 0
    BY DEF WordSize
  <1>3. Code(0, 0, 0, 0) = 0 /\ Code(0, 0, 0, d) = d
    BY DEF Code
  <1>4. WithN(0, 0, 0, d) = Code(0, 0, 0, d)
    BY <1>1, OrN, Zenon
  <1>5. QED
    BY <1>2, <1>3, <1>4 DEF AddDigit, WithN

LEMMA SecondDigit ==
  ASSUME NEW d \in Reg, NEW e \in Reg
  PROVE  AddDigit(d, e) = d * 16 + e
  <1> USE DEF Reg
  <1>1. 0 \in Reg
    OBVIOUS
  <1>2. (d * 16) % WordSize = d * 16
    BY DEF WordSize
  <1>3. Code(0, 0, d, 0) = d * 16 /\ Code(0, 0, d, e) = d * 16 + e
    BY DEF Code
  <1>4. WithN(0, 0, d, e) = Code(0, 0, d, e)
    BY <1>1, OrN, Zenon
  <1>5. QED
    BY <1>2, <1>3, <1>4 DEF AddDigit, WithN

LEMMA ThirdDigit ==
  ASSUME NEW x \in Reg, NEW y \in Reg, NEW n \in Reg
  PROVE  AddDigit(x * 16 + y, n) = x * 256 + y * 16 + n
  <1> USE DEF Reg
  <1>1. 0 \in Reg
    OBVIOUS
  <1>2. ((x * 16 + y) * 16) % WordSize = (x * 16 + y) * 16
    BY DEF WordSize
  <1>3. Code(0, x, y, 0) = (x * 16 + y) * 16 /\ Code(0, x, y, n) = x * 256 + y * 16 + n
    BY DEF Code
  <1>4. WithN(0, x, y, n) = Code(0, x, y, n)
    BY <1>1, OrN, Zenon
  <1>5. QED
    BY <1>2, <1>3, <1>4 DEF AddDigit, WithN

\* The operands of a disassembled instruction, and what they are read as.
\* The texts of a byte and of an address.
ImmToken(y, n)     == Number(<<y, n>>)
AddrToken(x, y, n) == Number(<<x, y, n>>)

LEMMA OneDigit ==
  ASSUME NEW d \in Reg
  PROVE  RegisterOf(Register(d)) = d /\ NumberOf(Number(<<d>>)) = d
  <1> USE DEF Reg
  <1>1. PICK s : s = <<d>>
    OBVIOUS
  <1>2. s \in Seq(Reg) /\ Len(s) = 1 /\ s # <<>> /\ s[1] = d /\ 1..1 = {1}
    BY <1>1
  <1>3. ASSUME NEW digits \in 1..3 PROVE HexStrToInt(s, digits) = d
    <2>1. Len(s) <= digits
      BY <1>2
    <2>2. PICK f : /\ f[{}] = 0 /\ f[{1}] = AddDigit(f[{}], s[1])
                   /\ HexStrToInt(s, digits) = f[1..Len(s)]
      BY <1>2, <2>1, HexUnfolds
    <2>3. QED
      BY <1>2, <2>2, FirstDigit
  <1>4. 1 \in 1..3 /\ 3 \in 1..3 /\ d % 256 = d
    OBVIOUS
  <1>5. Register(d).val = s /\ Number(<<d>>).val = s
    BY <1>1 DEF Register, Number, Token
  <1>6. QED
    BY <1>3, <1>4, <1>5 DEF RegisterOf, NumberOf

LEMMA TwoDigits ==
  ASSUME NEW y \in Reg, NEW n \in Reg
  PROVE  NumberOf(ImmToken(y, n)) = y * 16 + n
  <1> USE DEF Reg
  <1>1. PICK s : s = <<y, n>>
    OBVIOUS
  <1>2. /\ s \in Seq(Reg) /\ Len(s) = 2 /\ s # <<>> /\ s[1] = y /\ s[2] = n
        /\ 3 \in 1..3 /\ Len(s) <= 3 /\ Len(s) >= 2
    BY <1>1
  <1>3. PICK f : /\ f[{}] = 0 /\ f[{1}] = AddDigit(f[{}], s[1])
                 /\ f[1..2] = AddDigit(f[{1}], s[2])
                 /\ HexStrToInt(s, 3) = f[1..Len(s)]
    BY <1>2, HexUnfolds
  <1>4. f[{1}] = y
    BY <1>2, <1>3, FirstDigit
  <1>5. AddDigit(y, n) = y * 16 + n
    BY SecondDigit
  <1>6. HexStrToInt(s, 3) = y * 16 + n
    BY <1>2, <1>3, <1>4, <1>5
  <1>7. ImmToken(y, n).val = s
    BY <1>1 DEF ImmToken, Number, Token
  <1>8. (y * 16 + n) % 256 = y * 16 + n
    OBVIOUS
  <1>9. QED
    BY <1>6, <1>7, <1>8 DEF NumberOf

\* The number is cut to a byte.
LEMMA ThreeDigits ==
  ASSUME NEW x \in Reg, NEW y \in Reg, NEW n \in Reg
  PROVE  NumberOf(AddrToken(x, y, n)) = y * 16 + n
  <1> USE DEF Reg
  <1>1. PICK s : s = <<x, y, n>>
    OBVIOUS
  <1>2. /\ s \in Seq(Reg) /\ Len(s) = 3 /\ s # <<>> /\ s[1] = x /\ s[2] = y /\ s[3] = n
        /\ 3 \in 1..3 /\ Len(s) <= 3 /\ Len(s) >= 2 /\ Len(s) >= 3
    BY <1>1
  <1>3. PICK f : /\ f[{}] = 0 /\ f[{1}] = AddDigit(f[{}], s[1])
                 /\ f[1..2] = AddDigit(f[{1}], s[2])
                 /\ f[1..3] = AddDigit(f[1..2], s[3])
                 /\ HexStrToInt(s, 3) = f[1..Len(s)]
    BY <1>2, HexUnfolds
  <1>4. f[{1}] = x
    BY <1>2, <1>3, FirstDigit
  <1>5. f[1..2] = x * 16 + y
    <2>1. AddDigit(x, y) = x * 16 + y
      BY SecondDigit
    <2>2. QED
      BY <1>2, <1>3, <1>4, <2>1
  <1>6. AddDigit(x * 16 + y, n) = x * 256 + y * 16 + n
    BY ThirdDigit
  <1>7. HexStrToInt(s, 3) = x * 256 + y * 16 + n
    BY <1>2, <1>3, <1>5, <1>6
  <1>8. AddrToken(x, y, n).val = s
    BY <1>1 DEF AddrToken, Number, Token
  <1>9. (x * 256 + y * 16 + n) % 256 = y * 16 + n
    <2>1. PICK l : l = y * 16 + n
      OBVIOUS
    <2>2. l \in Int /\ 0 <= l /\ l <= 255
      BY <2>1
    <2>3. (x * 256 + l) % 256 = l
      BY <2>2
    <2>4. QED
      BY <2>1, <2>3
  <1>10. QED
    BY <1>7, <1>8, <1>9 DEF NumberOf

-----------------------------------------------------------------------------
(* What the assembler makes of the text of one instruction.                *)

\* The tables of the disassembler.
LEMMA MathTable ==
  /\ DOMAIN MathNames = {0, 1, 2, 3, 4, 5, 6, 7, 14}
  /\ MathNames[0] = "ldv" /\ MathNames[1] = "or" /\ MathNames[2] = "and"
  /\ MathNames[3] = "xor" /\ MathNames[4] = "add" /\ MathNames[5] = "sub"
  /\ MathNames[6] = "shift_r" /\ MathNames[7] = "sub2" /\ MathNames[14] = "shift_l"
  BY DEF MathNames

LEMMA Misc2Table ==
  /\ DOMAIN Misc2Names = {7, 10, 21, 24, 30, 41, 51, 85, 101}
  /\ Misc2Names[7] = "get_delay" /\ Misc2Names[10] = "get_key" /\ Misc2Names[21] = "set_delay"
  /\ Misc2Names[24] = "set_sound" /\ Misc2Names[30] = "add_i" /\ Misc2Names[41] = "get_sprite"
  /\ Misc2Names[51] = "bcd" /\ Misc2Names[85] = "dump_reg" /\ Misc2Names[101] = "load_reg"
  BY DEF Misc2Names

\* The tables of the assembler, with the codes taken apart into digits.
LEMMA FormTables ==
  /\ DOMAIN RegisterForm = {"ldv", "add", "skip_eq", "skip_ne"}
  /\ RegisterForm["ldv"] = Code(8, 0, 0, 0) /\ RegisterForm["add"] = Code(8, 0, 0, 4)
  /\ RegisterForm["skip_eq"] = Code(5, 0, 0, 0) /\ RegisterForm["skip_ne"] = Code(9, 0, 0, 0)
  /\ NumberForm["ldv"] = Code(6, 0, 0, 0) /\ NumberForm["add"] = Code(7, 0, 0, 0)
  /\ NumberForm["skip_eq"] = Code(3, 0, 0, 0) /\ NumberForm["skip_ne"] = Code(4, 0, 0, 0)
  BY DEF RegisterForm, NumberForm, Code

LEMMA BaseTable ==
  /\ Base["clear"] = Code(0, 0, 14, 0) /\ Base["ret"] = Code(0, 0, 14, 14)
  /\ Base["or"] = Code(8, 0, 0, 1) /\ Base["and"] = Code(8, 0, 0, 2) /\ Base["xor"] = Code(8, 0, 0, 3)
  /\ Base["sub"] = Code(8, 0, 0, 5) /\ Base["sub2"] = Code(8, 0, 0, 7)
  /\ Base["draw"] = Code(13, 0, 0, 0) /\ Base["rand"] = Code(12, 0, 0, 0)
  /\ Base["ldi"] = Code(10, 0, 0, 0)
  BY DEF Base, Code

LEMMA Misc2BaseTable ==
  /\ Base["skip_key_up"] = Code(14, 0, 9, 14) /\ Base["skip_key_down"] = Code(14, 0, 10, 1)
  /\ Base["get_delay"] = Code(15, 0, 0, 7) /\ Base["set_delay"] = Code(15, 0, 1, 5)
  /\ Base["set_sound"] = Code(15, 0, 0, 10) /\ Base["add_i"] = Code(15, 0, 1, 14)
  /\ Base["get_sprite"] = Code(15, 0, 2, 9) /\ Base["bcd"] = Code(15, 0, 3, 3)
  /\ Base["dump_reg"] = Code(15, 0, 5, 5) /\ Base["load_reg"] = Code(15, 0, 6, 5)
  BY DEF Base, Code

\* The names that the assembler knows.
LEMMA KnownNames ==
  InstructionNames = {"clear", "ret", "get_sound", "jmp", "call", "jmp_i", "or", "and", "xor",
                      "sub", "sub2", "shift_r", "shift_l", "draw", "rand", "ldi", "skip_key_up",
                      "skip_key_down", "get_delay", "set_delay", "set_sound", "add_i",
                      "get_sprite", "bcd", "dump_reg", "load_reg",
                      "ldv", "add", "skip_eq", "skip_ne"}
  BY DEF InstructionNames, Base, RegisterForm

\* What the operands must be.
LEMMA Shapes ==
  ASSUME NEW name
  PROVE  /\ name \in {"ldv", "add", "skip_eq", "skip_ne"} => Operands(name) = <<"register", "either">>
         /\ name \in {"or", "and", "xor", "sub", "sub2", "shift_r", "shift_l"} =>
               Operands(name) = <<"register", "register">>
         /\ name = "draw" => Operands(name) = <<"register", "register", "number">>
         /\ name = "rand" => Operands(name) = <<"register", "number">>
         /\ name = "ldi" => Operands(name) = <<"number">>
         /\ name \in {"clear", "ret", "get_sound"} => Operands(name) = <<>>
         /\ name \in {"skip_key_up", "skip_key_down", "get_delay", "set_delay", "set_sound", "add_i",
                      "get_sprite", "bcd", "dump_reg", "load_reg"} =>
               Operands(name) = <<"register">>
  BY DEF Operands

LEMMA EncodeForms ==
  ASSUME NEW name \in {"ldv", "add", "skip_eq", "skip_ne"}, NEW args
  PROVE  /\ args[2].type = "register" =>
               Encode(name, args, 0) = Or16(Or16(RegisterForm[name], RegisterOf(args[1]) * 256),
                                            RegisterOf(args[2]) * 16)
         /\ args[2].type = "number" =>
               Encode(name, args, 0) = Or16(Or16(NumberForm[name], RegisterOf(args[1]) * 256),
                                            NumberOf(args[2]))
  <1>1. name \in DOMAIN RegisterForm
    BY FormTables
  <1>2. name \notin Transfers /\ name # "ldi" /\ name # "rand" /\ name # "draw"
    BY DEF Transfers
  <1>3. Operands(name) # <<"register", "register">> /\ Operands(name) # <<"register">>
    <2>1. Operands(name) = <<"register", "either">>
      BY Shapes
    <2>2. QED
      BY <2>1
  <1>4. QED
    BY <1>1, <1>2, <1>3 DEF Encode

LEMMA EncodeOther ==
  ASSUME NEW args
  PROVE  /\ Encode("ldi", args, 0) = Or16(Base["ldi"], NumberOf(args[1]))
         /\ Encode("rand", args, 0) = Or16(Or16(Base["rand"], RegisterOf(args[1]) * 256),
                                           NumberOf(args[2]))
         /\ Encode("draw", args, 0) = Or16(Or16(Or16(Base["draw"], RegisterOf(args[1]) * 256),
                                                RegisterOf(args[2]) * 16), NumberOf(args[3]))
         /\ Encode("clear", args, 0) = Base["clear"]
         /\ Encode("ret", args, 0) = Base["ret"]
  <1>1. {"ldi", "rand", "draw", "clear", "ret"} \cap (Transfers \cup DOMAIN RegisterForm) = {}
    BY FormTables DEF Transfers
  <1>2. ASSUME NEW name \in {"ldi", "rand", "draw", "clear", "ret"}
        PROVE  Operands(name) # <<"register", "register">> /\ Operands(name) # <<"register">>
    <2>1. Operands(name) \in {<<"number">>, <<"register", "number">>,
                              <<"register", "register", "number">>, <<>>}
      BY Shapes
    <2>2. QED
      BY <2>1
  <1>3. Encode("ldi", args, 0) = Or16(Base["ldi"], NumberOf(args[1]))
    BY <1>1, <1>2 DEF Encode
  <1>4. Encode("rand", args, 0) = Or16(Or16(Base["rand"], RegisterOf(args[1]) * 256),
                                       NumberOf(args[2]))
    BY <1>1, <1>2 DEF Encode
  <1>5. Encode("draw", args, 0) = Or16(Or16(Or16(Base["draw"], RegisterOf(args[1]) * 256),
                                            RegisterOf(args[2]) * 16), NumberOf(args[3]))
    BY <1>1, <1>2 DEF Encode
  <1>6. Encode("clear", args, 0) = Base["clear"] /\ Encode("ret", args, 0) = Base["ret"]
    BY <1>1, <1>2 DEF Encode
  <1>7. QED
    BY <1>3, <1>4, <1>5, <1>6

LEMMA EncodeRegisters ==
  ASSUME NEW name, NEW args
  PROVE  /\ name \in {"or", "and", "xor", "sub", "sub2"} =>
               Encode(name, args, 0) = Or16(Or16(Base[name], RegisterOf(args[1]) * 256),
                                            RegisterOf(args[2]) * 16)
         /\ name \in {"skip_key_up", "skip_key_down", "get_delay", "set_delay", "set_sound", "add_i",
                      "get_sprite", "bcd", "dump_reg", "load_reg"} =>
               Encode(name, args, 0) = Or16(Base[name], RegisterOf(args[1]) * 256)
  <1>1. ASSUME name \in {"or", "and", "xor", "sub", "sub2"}
        PROVE  Encode(name, args, 0) = Or16(Or16(Base[name], RegisterOf(args[1]) * 256),
                                            RegisterOf(args[2]) * 16)
    <2>1. name \notin Transfers /\ name \notin DOMAIN RegisterForm
          /\ name # "ldi" /\ name # "rand" /\ name # "draw"
      BY <1>1, FormTables DEF Transfers
    <2>2. Operands(name) = <<"register", "register">> /\ <<"register", "register">> # <<"register">>
      BY <1>1, Shapes
    <2>3. QED
      BY <2>1, <2>2 DEF Encode
  <1>2. ASSUME name \in {"skip_key_up", "skip_key_down", "get_delay", "set_delay", "set_sound",
                         "add_i", "get_sprite", "bcd", "dump_reg", "load_reg"}
        PROVE  Encode(name, args, 0) = Or16(Base[name], RegisterOf(args[1]) * 256)
    <2>1. name \notin Transfers /\ name \notin DOMAIN RegisterForm
          /\ name # "ldi" /\ name # "rand" /\ name # "draw"
      BY <1>2, FormTables DEF Transfers
    <2>2. Operands(name) = <<"register">> /\ <<"register", "register">> # <<"register">>
      BY <1>2, Shapes
    <2>3. QED
      BY <2>1, <2>2 DEF Encode
  <1>3. QED
    BY <1>1, <1>2

\* The word whose digits are or-ed in one after another.
WithXYN(c, x, y, n) == Or16(Or16(Code(c, 0, 0, 0), x * 256), y * 16 + n)
WithXY(c, x, y, n)  == Or16(Or16(Code(c, 0, 0, n), x * 256), y * 16)
WithXYAndN(c, x, y, n) == Or16(Or16(Or16(Code(c, 0, 0, 0), x * 256), y * 16), n)

LEMMA DigitsIn ==
  ASSUME NEW c \in Reg, NEW x \in Reg, NEW y \in Reg, NEW n \in Reg
  PROVE  /\ WithXYN(c, x, y, n) = Code(c, x, y, n)
         /\ WithXY(c, x, y, n) = Code(c, x, y, n)
         /\ WithXYAndN(c, x, y, n) = Code(c, x, y, n)
  <1>0. 0 \in Reg
    BY DEF Reg
  <1>1. WithX(c, x, 0, 0) = Code(c, x, 0, 0) /\ WithX(c, x, 0, n) = Code(c, x, 0, n)
    BY <1>0, OrX
  <1>2. WithYN(c, x, y, n) = Code(c, x, y, n)
    BY OrYN
  <1>3. WithY(c, x, y, n) = Code(c, x, y, n) /\ WithY(c, x, y, 0) = Code(c, x, y, 0)
    BY <1>0, OrY
  <1>4. WithN(c, x, y, n) = Code(c, x, y, n)
    BY OrN
  <1>5. WithXYN(c, x, y, n) = Code(c, x, y, n)
    BY <1>1, <1>2 DEF WithX, WithYN, WithXYN
  <1>6. WithXY(c, x, y, n) = Code(c, x, y, n)
    BY <1>1, <1>3 DEF WithX, WithY, WithXY
  <1>7. WithXYAndN(c, x, y, n) = Code(c, x, y, n)
    BY <1>1, <1>3, <1>4 DEF WithX, WithY, WithN, WithXYAndN
  <1>8. QED
    BY <1>5, <1>6, <1>7

\* What the operands that disasm writes become, for each form of an instruction.
LEMMA NumberTexts ==
  ASSUME NEW x \in Reg, NEW y \in Reg, NEW n \in Reg, NEW args,
         args[1] = Register(x), args[2] = ImmToken(y, n)
  PROVE  /\ Encode("skip_eq", args, 0) = Code(3, x, y, n)
         /\ Encode("skip_ne", args, 0) = Code(4, x, y, n)
         /\ Encode("ldv", args, 0) = Code(6, x, y, n)
         /\ Encode("add", args, 0) = Code(7, x, y, n)
         /\ Encode("rand", args, 0) = Code(12, x, y, n)
  <1>1. /\ RegisterOf(args[1]) = x /\ NumberOf(args[2]) = y * 16 + n
        /\ args[2].type = "number"
    <2>1. RegisterOf(args[1]) = x /\ NumberOf(args[2]) = y * 16 + n
      BY OneDigit, TwoDigits
    <2>2. QED
      BY <2>1 DEF ImmToken, Number, Token
  <1>2. /\ Encode("skip_eq", args, 0) = WithXYN(3, x, y, n)
        /\ Encode("skip_ne", args, 0) = WithXYN(4, x, y, n)
        /\ Encode("ldv", args, 0) = WithXYN(6, x, y, n)
        /\ Encode("add", args, 0) = WithXYN(7, x, y, n)
    BY <1>1, EncodeForms, FormTables DEF WithXYN
  <1>3. Encode("rand", args, 0) = WithXYN(12, x, y, n)
    BY <1>1, EncodeOther, BaseTable DEF WithXYN
  <1>4. ASSUME NEW c \in {3, 4, 6, 7, 12} PROVE WithXYN(c, x, y, n) = Code(c, x, y, n)
    <2>1. c \in Reg
      BY DEF Reg
    <2>2. QED
      BY <2>1, DigitsIn
  <1>5. QED
    BY <1>2, <1>3, <1>4

LEMMA RegisterTexts ==
  ASSUME NEW x \in Reg, NEW y \in Reg, NEW args,
         args[1] = Register(x), args[2] = Register(y)
  PROVE  /\ Encode("skip_eq", args, 0) = Code(5, x, y, 0)
         /\ Encode("skip_ne", args, 0) = Code(9, x, y, 0)
         /\ Encode("ldv", args, 0) = Code(8, x, y, 0)
         /\ Encode("add", args, 0) = Code(8, x, y, 4)
         /\ Encode("or", args, 0) = Code(8, x, y, 1)
         /\ Encode("and", args, 0) = Code(8, x, y, 2)
         /\ Encode("xor", args, 0) = Code(8, x, y, 3)
         /\ Encode("sub", args, 0) = Code(8, x, y, 5)
         /\ Encode("sub2", args, 0) = Code(8, x, y, 7)
  <1>1. /\ RegisterOf(args[1]) = x /\ RegisterOf(args[2]) = y
        /\ args[2].type = "register"
    BY OneDigit DEF Register, Token
  <1>2. /\ Encode("skip_eq", args, 0) = WithXY(5, x, y, 0)
        /\ Encode("skip_ne", args, 0) = WithXY(9, x, y, 0)
        /\ Encode("ldv", args, 0) = WithXY(8, x, y, 0)
        /\ Encode("add", args, 0) = WithXY(8, x, y, 4)
    BY <1>1, EncodeForms, FormTables DEF WithXY
  <1>3. /\ Encode("or", args, 0) = WithXY(8, x, y, 1)
        /\ Encode("and", args, 0) = WithXY(8, x, y, 2)
        /\ Encode("xor", args, 0) = WithXY(8, x, y, 3)
        /\ Encode("sub", args, 0) = WithXY(8, x, y, 5)
        /\ Encode("sub2", args, 0) = WithXY(8, x, y, 7)
    BY <1>1, EncodeRegisters, BaseTable DEF WithXY
  <1>4. ASSUME NEW c \in {5, 8, 9}, NEW n \in {0, 1, 2, 3, 4, 5, 7}
        PROVE  WithXY(c, x, y, n) = Code(c, x, y, n)
    <2>1. c \in Reg /\ n \in Reg
      BY DEF Reg
    <2>2. QED
      BY <2>1, DigitsIn
  <1>5. QED
    BY <1>2, <1>3, <1>4

LEMMA DrawText ==
  ASSUME NEW x \in Reg, NEW y \in Reg, NEW n \in Reg, NEW args,
         args[1] = Register(x), args[2] = Register(y), args[3] = Number(<<n>>)
  PROVE  Encode("draw", args, 0) = Code(13, x, y, n)
  <1>1. RegisterOf(args[1]) = x /\ RegisterOf(args[2]) = y /\ NumberOf(args[3]) = n
    BY OneDigit
  <1>2. Encode("draw", args, 0) = WithXYAndN(13, x, y, n)
    BY <1>1, EncodeOther, BaseTable DEF WithXYAndN
  <1>3. 13 \in Reg
    BY DEF Reg
  <1>4. QED
    BY <1>2, <1>3, DigitsIn

\* The first digit of the address is lost.
LEMMA AddressText ==
  ASSUME NEW x \in Reg, NEW y \in Reg, NEW n \in Reg, NEW args,
         args[1] = AddrToken(x, y, n)
  PROVE  Encode("ldi", args, 0) = Code(10, 0, y, n)
  <1>1. NumberOf(args[1]) = y * 16 + n
    BY ThreeDigits
  <1>2. Encode("ldi", args, 0) = WithYN(10, 0, y, n)
    BY <1>1, EncodeOther, BaseTable DEF WithYN
  <1>3. 10 \in Reg /\ 0 \in Reg
    BY DEF Reg
  <1>4. QED
    BY <1>2, <1>3, OrYN

LEMMA OneRegisterTexts ==
  ASSUME NEW x \in Reg, NEW args, args[1] = Register(x)
  PROVE  /\ Encode("skip_key_up", args, 0) = Code(14, x, 9, 14)
         /\ Encode("skip_key_down", args, 0) = Code(14, x, 10, 1)
         /\ Encode("get_delay", args, 0) = Code(15, x, 0, 7)
         /\ Encode("set_delay", args, 0) = Code(15, x, 1, 5)
         /\ Encode("set_sound", args, 0) = Code(15, x, 0, 10)
         /\ Encode("add_i", args, 0) = Code(15, x, 1, 14)
         /\ Encode("get_sprite", args, 0) = Code(15, x, 2, 9)
         /\ Encode("bcd", args, 0) = Code(15, x, 3, 3)
         /\ Encode("dump_reg", args, 0) = Code(15, x, 5, 5)
         /\ Encode("load_reg", args, 0) = Code(15, x, 6, 5)
  <1>1. RegisterOf(args[1]) = x
    BY OneDigit
  <1>2. /\ Encode("skip_key_up", args, 0) = WithX(14, x, 9, 14)
        /\ Encode("skip_key_down", args, 0) = WithX(14, x, 10, 1)
        /\ Encode("get_delay", args, 0) = WithX(15, x, 0, 7)
        /\ Encode("set_delay", args, 0) = WithX(15, x, 1, 5)
        /\ Encode("set_sound", args, 0) = WithX(15, x, 0, 10)
    BY <1>1, EncodeRegisters, Misc2BaseTable DEF WithX
  <1>3. /\ Encode("add_i", args, 0) = WithX(15, x, 1, 14)
        /\ Encode("get_sprite", args, 0) = WithX(15, x, 2, 9)
        /\ Encode("bcd", args, 0) = WithX(15, x, 3, 3)
        /\ Encode("dump_reg", args, 0) = WithX(15, x, 5, 5)
        /\ Encode("load_reg", args, 0) = WithX(15, x, 6, 5)
    BY <1>1, EncodeRegisters, Misc2BaseTable DEF WithX
  <1>4. ASSUME NEW c \in {14, 15}, NEW y \in {0, 1, 2, 3, 5, 6, 9, 10},
               NEW n \in {1, 3, 5, 7, 9, 10, 14}
        PROVE  WithX(c, x, y, n) = Code(c, x, y, n)
    <2>1. c \in Reg /\ y \in Reg /\ n \in Reg
      BY DEF Reg
    <2>2. QED
      BY <2>1, OrX
  <1>5. QED
    BY <1>2, <1>3, <1>4

-----------------------------------------------------------------------------
(* The text of each class of opcodes.                                      *)

\* The operands that disasm writes.
Operand == { Register(x) : x \in Reg } \cup { Number(ds) : ds \in Seq(Reg) } \cup { Use(a) : a \in Nat }

Text(name, args) == <<Instr(name)>> \o args

\* The digits of an opcode.
IsCode(opcode, c, x, y, n) ==
    /\ opcode = Code(c, x, y, n)
    /\ Class(opcode) = c /\ X(opcode) = x /\ Y(opcode) = y /\ Nib(opcode) = n
    /\ Imm(opcode) = y * 16 + n /\ Addr(opcode) = x * 256 + y * 16 + n

\* The text for each class.
LEMMA DecodeNumber ==
  ASSUME NEW opcode, NEW c, NEW x, NEW y, NEW n, IsCode(opcode, c, x, y, n)
  PROVE  /\ c = 3  => Decode(opcode) = Text("skip_eq", <<Register(x), ImmToken(y, n)>>)
         /\ c = 4  => Decode(opcode) = Text("skip_ne", <<Register(x), ImmToken(y, n)>>)
         /\ c = 6  => Decode(opcode) = Text("ldv", <<Register(x), ImmToken(y, n)>>)
         /\ c = 7  => Decode(opcode) = Text("add", <<Register(x), ImmToken(y, n)>>)
         /\ c = 12 => Decode(opcode) = Text("rand", <<Register(x), ImmToken(y, n)>>)
  <1> USE DEF OP_MISC, OP_JMP, OP_CALL, OP_SKIP1, OP_SKIP2, OP_SKIP3, OP_MOV_IMM, OP_ADD_IMM,
              OP_MATH, OP_SKIP4, OP_STORE, OP_JMP_INDEX, OP_RAND, OP_DRAW, OP_IN, OP_MISC2
  <1>1. c = 3  => Decode(opcode) = Text("skip_eq", <<Register(x), ImmToken(y, n)>>)
    BY DEF IsCode, Decode, Text, ImmToken
  <1>2. c = 4  => Decode(opcode) = Text("skip_ne", <<Register(x), ImmToken(y, n)>>)
    BY DEF IsCode, Decode, Text, ImmToken
  <1>3. c = 6  => Decode(opcode) = Text("ldv", <<Register(x), ImmToken(y, n)>>)
    BY DEF IsCode, Decode, Text, ImmToken
  <1>4. c = 7  => Decode(opcode) = Text("add", <<Register(x), ImmToken(y, n)>>)
    BY DEF IsCode, Decode, Text, ImmToken
  <1>5. c = 12 => Decode(opcode) = Text("rand", <<Register(x), ImmToken(y, n)>>)
    BY DEF IsCode, Decode, Text, ImmToken
  <1>6. QED
    BY <1>1, <1>2, <1>3, <1>4, <1>5

LEMMA DecodeRegisters ==
  ASSUME NEW opcode, NEW c, NEW x, NEW y, NEW n, IsCode(opcode, c, x, y, n)
  PROVE  /\ c = 5  => Decode(opcode) = Text("skip_eq", <<Register(x), Register(y)>>)
         /\ c = 9  => Decode(opcode) = Text("skip_ne", <<Register(x), Register(y)>>)
         /\ c = 13 => Decode(opcode) = Text("draw", <<Register(x), Register(y), Number(<<n>>)>>)
  <1> USE DEF OP_MISC, OP_JMP, OP_CALL, OP_SKIP1, OP_SKIP2, OP_SKIP3, OP_MOV_IMM, OP_ADD_IMM,
              OP_MATH, OP_SKIP4, OP_STORE, OP_JMP_INDEX, OP_RAND, OP_DRAW, OP_IN, OP_MISC2
  <1>1. c = 5  => Decode(opcode) = Text("skip_eq", <<Register(x), Register(y)>>)
    BY DEF IsCode, Decode, Text
  <1>2. c = 9  => Decode(opcode) = Text("skip_ne", <<Register(x), Register(y)>>)
    BY DEF IsCode, Decode, Text
  <1>3. c = 13 => Decode(opcode) = Text("draw", <<Register(x), Register(y), Number(<<n>>)>>)
    BY DEF IsCode, Decode, Text
  <1>4. QED
    BY <1>1, <1>2, <1>3

LEMMA DecodeAddress ==
  ASSUME NEW opcode, NEW c, NEW x, NEW y, NEW n, IsCode(opcode, c, x, y, n)
  PROVE  /\ c = 1  => Decode(opcode) = Text("jmp", <<Use(Addr(opcode))>>)
         /\ c = 2  => Decode(opcode) = Text("call", <<Use(Addr(opcode))>>)
         /\ c = 10 => Decode(opcode) = Text("ldi", <<AddrToken(x, y, n)>>)
         /\ c = 11 => Decode(opcode) = Text("jmp", <<Register(0)>>)
  <1> USE DEF OP_MISC, OP_JMP, OP_CALL, OP_SKIP1, OP_SKIP2, OP_SKIP3, OP_MOV_IMM, OP_ADD_IMM,
              OP_MATH, OP_SKIP4, OP_STORE, OP_JMP_INDEX, OP_RAND, OP_DRAW, OP_IN, OP_MISC2
  <1>1. c = 1  => Decode(opcode) = Text("jmp", <<Use(Addr(opcode))>>)
    BY DEF IsCode, Decode, Text
  <1>2. c = 2  => Decode(opcode) = Text("call", <<Use(Addr(opcode))>>)
    BY DEF IsCode, Decode, Text
  <1>3. c = 10 => Decode(opcode) = Text("ldi", <<AddrToken(x, y, n)>>)
    BY DEF IsCode, Decode, Text, AddrToken
  <1>4. c = 11 => Decode(opcode) = Text("jmp", <<Register(0)>>)
    BY DEF IsCode, Decode, Text
  <1>5. QED
    BY <1>1, <1>2, <1>3, <1>4

LEMMA DecodeMath ==
  ASSUME NEW opcode, NEW c, NEW x, NEW y, NEW n, IsCode(opcode, c, x, y, n)
  PROVE  /\ c = 8 /\ n \in {6, 14} => Decode(opcode) = Text(MathNames[n], <<Register(x)>>)
         /\ c = 8 /\ n \notin DOMAIN MathNames => Decode(opcode) = <<Junk>>
  <1> USE DEF OP_MISC, OP_JMP, OP_CALL, OP_SKIP1, OP_SKIP2, OP_SKIP3, OP_MOV_IMM, OP_ADD_IMM,
              OP_MATH, OP_SKIP4, OP_STORE, OP_JMP_INDEX, OP_RAND, OP_DRAW, OP_IN, OP_MISC2
  <1>1. c = 8 /\ n \in {6, 14} => Decode(opcode) = Text(MathNames[n], <<Register(x)>>)
    BY MathTable DEF IsCode, Decode, Text
  <1>2. c = 8 /\ n \notin DOMAIN MathNames => Decode(opcode) = <<Junk>>
    BY MathTable DEF IsCode, Decode, Text
  <1>3. QED
    BY <1>1, <1>2

LEMMA DecodeMathTwo ==
  ASSUME NEW opcode, NEW c, NEW x, NEW y, NEW n, IsCode(opcode, c, x, y, n),
         c = 8, n \in {0, 1, 2, 3, 4, 5, 7}
  PROVE  Decode(opcode) = Text(MathNames[n], <<Register(x), Register(y)>>)
  BY MathTable DEF IsCode, Decode, Text, OP_MISC, OP_JMP, OP_CALL, OP_SKIP1, OP_SKIP2, OP_SKIP3,
                   OP_MOV_IMM, OP_ADD_IMM, OP_MATH, OP_SKIP4, OP_STORE, OP_JMP_INDEX, OP_RAND,
                   OP_DRAW, OP_IN, OP_MISC2

LEMMA DecodeMisc ==
  ASSUME NEW opcode, NEW c, NEW x, NEW y, NEW n, IsCode(opcode, c, x, y, n), c = 0
  PROVE  /\ Imm(opcode) = 224 => Decode(opcode) = Text("clear", <<>>)
         /\ Imm(opcode) = 238 => Decode(opcode) = Text("ret", <<>>)
  BY DEF IsCode, Decode, Text, OP_MISC, OP_JMP, OP_CALL, OP_SKIP1, OP_SKIP2, OP_SKIP3, OP_MOV_IMM,
         OP_ADD_IMM, OP_MATH, OP_SKIP4, OP_STORE, OP_JMP_INDEX, OP_RAND, OP_DRAW, OP_IN, OP_MISC2

LEMMA DecodeIn ==
  ASSUME NEW opcode, NEW c, NEW x, NEW y, NEW n, IsCode(opcode, c, x, y, n), c = 14
  PROVE  /\ Imm(opcode) = 158 => Decode(opcode) = Text("skip_key_down", <<Register(x)>>)
         /\ Imm(opcode) = 161 => Decode(opcode) = Text("skip_key_up", <<Register(x)>>)
  BY DEF IsCode, Decode, Text, OP_MISC, OP_JMP, OP_CALL, OP_SKIP1, OP_SKIP2, OP_SKIP3, OP_MOV_IMM,
         OP_ADD_IMM, OP_MATH, OP_SKIP4, OP_STORE, OP_JMP_INDEX, OP_RAND, OP_DRAW, OP_IN, OP_MISC2

LEMMA DecodeJunk ==
  ASSUME NEW opcode, NEW c, NEW x, NEW y, NEW n, IsCode(opcode, c, x, y, n),
         \/ c = 0 /\ Imm(opcode) \notin {224, 238}
         \/ c = 14 /\ Imm(opcode) \notin {158, 161}
  PROVE  Decode(opcode) = <<Junk>>
  BY DEF IsCode, Decode, OP_MISC, OP_JMP, OP_CALL, OP_SKIP1, OP_SKIP2, OP_SKIP3, OP_MOV_IMM,
         OP_ADD_IMM, OP_MATH, OP_SKIP4, OP_STORE, OP_JMP_INDEX, OP_RAND, OP_DRAW, OP_IN, OP_MISC2

LEMMA DecodeMisc2 ==
  ASSUME NEW opcode, NEW c, NEW x, NEW y, NEW n, IsCode(opcode, c, x, y, n)
  PROVE  /\ c = 15 /\ Imm(opcode) \in DOMAIN Misc2Names =>
               Decode(opcode) = Text(Misc2Names[Imm(opcode)], <<Register(x)>>)
         /\ c = 15 /\ Imm(opcode) \notin DOMAIN Misc2Names => Decode(opcode) = <<Junk>>
  <1> USE DEF OP_MISC, OP_JMP, OP_CALL, OP_SKIP1, OP_SKIP2, OP_SKIP3, OP_MOV_IMM, OP_ADD_IMM,
              OP_MATH, OP_SKIP4, OP_STORE, OP_JMP_INDEX, OP_RAND, OP_DRAW, OP_IN, OP_MISC2
  <1>1. c = 15 /\ Imm(opcode) \in DOMAIN Misc2Names =>
               Decode(opcode) = Text(Misc2Names[Imm(opcode)], <<Register(x)>>)
    BY Misc2Table DEF IsCode, Decode, Text
  <1>2. c = 15 /\ Imm(opcode) \notin DOMAIN Misc2Names => Decode(opcode) = <<Junk>>
    BY Misc2Table DEF IsCode, Decode, Text
  <1>3. QED
    BY <1>1, <1>2

-----------------------------------------------------------------------------
(* The assembler accepts the operands.                                     *)

\* No label, and the number and types of operands that the instruction has.
Fits(name, args) ==
    /\ name \in InstructionNames \ Transfers
    /\ Len(args) = Len(Operands(name))
    /\ \A k \in 1..Len(args) : Operands(name)[k] \in {"either", args[k].type}

LEMMA OperandTypes ==
  /\ \A x : Register(x).type = "register"
  /\ \A n : Number(<<n>>).type = "number"
  /\ \A y, n : ImmToken(y, n).type = "number"
  /\ \A x, y, n : AddrToken(x, y, n).type = "number"
  BY DEF Register, Number, ImmToken, AddrToken, Token

LEMMA FitsTwo ==
  ASSUME NEW name, NEW p, NEW q, p.type = "register",
         \/ /\ q.type \in {"register", "number"}
            /\ name \in {"ldv", "add", "skip_eq", "skip_ne"}
         \/ q.type = "number" /\ name = "rand"
         \/ q.type = "register" /\ name \in {"or", "and", "xor", "sub", "sub2"}
  PROVE  Fits(name, <<p, q>>)
  <1>1. name \in InstructionNames \ Transfers
    BY KnownNames DEF Transfers
  <1>2. Operands(name) \in {<<"register", "either">>, <<"register", "number">>,
                            <<"register", "register">>}
    BY Shapes
  <1>3. \/ Operands(name) = <<"register", "either">>
        \/ Operands(name) = <<"register", "number">> /\ q.type = "number"
        \/ Operands(name) = <<"register", "register">> /\ q.type = "register"
    BY Shapes
  <1>4. PICK args, shape : args = <<p, q>> /\ shape = Operands(name)
    OBVIOUS
  <1>5. /\ Len(args) = 2 /\ args[1] = p /\ args[2] = q /\ Len(shape) = 2
        /\ shape[1] = "register" /\ shape[2] \in {"either", q.type}
        /\ 1..2 = {1, 2}
    BY <1>3, <1>4
  <1>6. QED
    BY <1>1, <1>4, <1>5 DEF Fits

LEMMA FitsOne ==
  ASSUME NEW name, NEW p,
         \/ p.type = "number" /\ name = "ldi"
         \/ /\ p.type = "register"
            /\ name \in {"skip_key_up", "skip_key_down", "get_delay", "set_delay", "set_sound",
                         "add_i", "get_sprite", "bcd", "dump_reg", "load_reg"}
  PROVE  Fits(name, <<p>>)
  <1>1. name \in InstructionNames \ Transfers
    BY KnownNames DEF Transfers
  <1>2. Operands(name) = <<p.type>>
    BY Shapes
  <1>3. PICK args, shape : args = <<p>> /\ shape = Operands(name)
    OBVIOUS
  <1>4. /\ Len(args) = 1 /\ args[1] = p /\ Len(shape) = 1 /\ shape[1] = p.type /\ 1..1 = {1}
    BY <1>2, <1>3
  <1>5. QED
    BY <1>1, <1>3, <1>4 DEF Fits

LEMMA FitsNone ==
  ASSUME NEW name \in {"clear", "ret"}
  PROVE  Fits(name, <<>>)
  <1>1. name \in InstructionNames \ Transfers
    BY KnownNames DEF Transfers
  <1>2. Operands(name) = <<>> /\ Len(<<>>) = 0
    BY Shapes
  <1>3. QED
    BY <1>1, <1>2 DEF Fits

LEMMA FitsDraw ==
  ASSUME NEW p, NEW q, NEW r, p.type = "register", q.type = "register", r.type = "number"
  PROVE  Fits("draw", <<p, q, r>>)
  <1>1. "draw" \in InstructionNames \ Transfers
    BY KnownNames DEF Transfers
  <1>2. Operands("draw") = <<"register", "register", "number">>
    BY Shapes
  <1>3. PICK args, shape : args = <<p, q, r>> /\ shape = Operands("draw")
    OBVIOUS
  <1>4. /\ Len(args) = 3 /\ args[1] = p /\ args[2] = q /\ args[3] = r
        /\ Len(shape) = 3 /\ shape[1] = p.type /\ shape[2] = q.type /\ shape[3] = r.type
        /\ 1..3 = {1, 2, 3}
    BY <1>2, <1>3
  <1>5. QED
    BY <1>1, <1>3, <1>4 DEF Fits

\* Labels, names that are unknown, and shifts of one register are not accepted.
LEMMA FitsNot ==
  ASSUME NEW p
  PROVE  /\ ~Fits("jmp", <<p>>) /\ ~Fits("call", <<p>>) /\ ~Fits("get_key", <<p>>)
         /\ ~Fits("shift_r", <<p>>) /\ ~Fits("shift_l", <<p>>)
  <1>1. "jmp" \in Transfers /\ "call" \in Transfers /\ "get_key" \notin InstructionNames
    BY KnownNames DEF Transfers
  <1>2. /\ Operands("shift_r") = <<"register", "register">>
        /\ Operands("shift_l") = <<"register", "register">>
    BY Shapes
  <1>3. Len(<<"register", "register">>) = 2 /\ Len(<<p>>) = 1
    OBVIOUS
  <1>4. QED
    BY <1>1, <1>2, <1>3 DEF Fits

-----------------------------------------------------------------------------
(* The text of each opcode: is it accepted, and what is made of it.        *)

LEMMA OperandsWritten ==
  /\ \A x \in Reg : Register(x) \in Operand
  /\ \A n \in Reg : Number(<<n>>) \in Operand
  /\ \A y, n \in Reg : ImmToken(y, n) \in Operand
  /\ \A x, y, n \in Reg : AddrToken(x, y, n) \in Operand
  /\ \A a \in Nat : Use(a) \in Operand
  <1>1. \A x, y, n \in Reg : <<n>> \in Seq(Reg) /\ <<y, n>> \in Seq(Reg) /\ <<x, y, n>> \in Seq(Reg)
    OBVIOUS
  <1>2. \A y, n \in Reg : ImmToken(y, n) \in Operand
    BY <1>1 DEF Operand, ImmToken
  <1>3. \A x, y, n \in Reg : AddrToken(x, y, n) \in Operand
    BY <1>1 DEF Operand, AddrToken
  <1>4. /\ \A x \in Reg : Register(x) \in Operand
        /\ \A n \in Reg : Number(<<n>>) \in Operand
        /\ \A a \in Nat : Use(a) \in Operand
    BY <1>1 DEF Operand
  <1>5. QED
    BY <1>2, <1>3, <1>4

\* The excepted opcodes of each class.
LEMMA ExceptedAt ==
  ASSUME NEW opcode, NEW c, NEW x, NEW y, NEW n, IsCode(opcode, c, x, y, n)
  PROVE  /\ c \in {3, 4, 6, 7, 12, 13} => ~NotReassembled(opcode)
         /\ c \in {1, 2, 11, 14} => NotReassembled(opcode)
         /\ c \in {5, 9} => (NotReassembled(opcode) <=> n # 0)
         /\ c = 8 => (NotReassembled(opcode) <=> n \notin {0, 1, 2, 3, 4, 5, 7})
         /\ c = 10 => (NotReassembled(opcode) <=> Addr(opcode) > 255)
         /\ c = 0 => (NotReassembled(opcode) <=> opcode \notin {224, 238})
         /\ c = 15 => (NotReassembled(opcode) <=> Imm(opcode) \notin {7, 21, 30, 41, 51, 85, 101})
  <1> USE DEF OP_MISC, OP_JMP, OP_CALL, OP_SKIP1, OP_SKIP2, OP_SKIP3, OP_MOV_IMM, OP_ADD_IMM,
              OP_MATH, OP_SKIP4, OP_STORE, OP_JMP_INDEX, OP_RAND, OP_DRAW, OP_IN, OP_MISC2
  <1>1. c \in {3, 4, 6, 7, 12, 13} => ~NotReassembled(opcode)
    BY DEF IsCode, NotReassembled
  <1>2. c \in {1, 2, 11, 14} => NotReassembled(opcode)
    BY DEF IsCode, NotReassembled
  <1>3. c \in {5, 9} => (NotReassembled(opcode) <=> n # 0)
    BY DEF IsCode, NotReassembled
  <1>4. c = 8 => (NotReassembled(opcode) <=> n \notin {0, 1, 2, 3, 4, 5, 7})
    BY DEF IsCode, NotReassembled
  <1>5. c = 10 => (NotReassembled(opcode) <=> Addr(opcode) > 255)
    BY DEF IsCode, NotReassembled
  <1>6. c = 0 => (NotReassembled(opcode) <=> opcode \notin {224, 238})
    BY DEF IsCode, NotReassembled
  <1>7. c = 15 => (NotReassembled(opcode) <=> Imm(opcode) \notin {7, 21, 30, 41, 51, 85, 101})
    BY Misc2Table DEF IsCode, NotReassembled
  <1>8. QED
    BY <1>1, <1>2, <1>3, <1>4, <1>5, <1>6, <1>7

\* The text is of this form, and the assembler makes the same opcode of it, unless the
\* opcode is excepted.
Answers(opcode, name, args) ==
    /\ args \in Seq(Operand) /\ Len(args) <= 3
    /\ Decode(opcode) = Text(name, args)
    /\ NotReassembled(opcode) <=> ~(Fits(name, args) /\ Encode(name, args, 0) = opcode)

LEMMA AnswerNumber ==
  ASSUME NEW opcode, NEW c \in {3, 4, 6, 7, 12}, NEW x \in Reg, NEW y \in Reg, NEW n \in Reg,
         IsCode(opcode, c, x, y, n)
  PROVE  \E name, args : Answers(opcode, name, args)
  <1>1. PICK args : args = <<Register(x), ImmToken(y, n)>>
    OBVIOUS
  <1>2. args[1] = Register(x) /\ args[2] = ImmToken(y, n) /\ Len(args) <= 3 /\ args \in Seq(Operand)
    BY <1>1, OperandsWritten
  <1>3. opcode = Code(c, x, y, n) /\ ~NotReassembled(opcode)
    BY ExceptedAt DEF IsCode
  <1>4. \A name \in {"skip_eq", "skip_ne", "ldv", "add", "rand"} : Fits(name, args)
    BY <1>1, FitsTwo, OperandTypes
  <1>5. PICK name \in {"skip_eq", "skip_ne", "ldv", "add", "rand"} :
           Decode(opcode) = Text(name, args) /\ Encode(name, args, 0) = Code(c, x, y, n)
    BY <1>1, <1>2, DecodeNumber, NumberTexts
  <1>6. Answers(opcode, name, args)
    BY <1>2, <1>3, <1>4, <1>5 DEF Answers
  <1>7. QED
    BY <1>6

LEMMA AnswerRegisters ==
  ASSUME NEW opcode, NEW c \in {5, 9}, NEW x \in Reg, NEW y \in Reg, NEW n \in Reg,
         IsCode(opcode, c, x, y, n)
  PROVE  \E name, args : Answers(opcode, name, args)
  <1>1. PICK args : args = <<Register(x), Register(y)>>
    OBVIOUS
  <1>2. args[1] = Register(x) /\ args[2] = Register(y) /\ Len(args) <= 3 /\ args \in Seq(Operand)
    BY <1>1, OperandsWritten
  <1>3. opcode = Code(c, x, y, n) /\ (NotReassembled(opcode) <=> n # 0)
    BY ExceptedAt DEF IsCode
  <1>4. \A name \in {"skip_eq", "skip_ne"} : Fits(name, args)
    BY <1>1, FitsTwo, OperandTypes
  <1>5. PICK name \in {"skip_eq", "skip_ne"} :
           Decode(opcode) = Text(name, args) /\ Encode(name, args, 0) = Code(c, x, y, 0)
    <2>1. /\ Encode("skip_eq", args, 0) = Code(5, x, y, 0)
          /\ Encode("skip_ne", args, 0) = Code(9, x, y, 0)
      BY <1>2, RegisterTexts
    <2>2. /\ c = 5 => Decode(opcode) = Text("skip_eq", args)
          /\ c = 9 => Decode(opcode) = Text("skip_ne", args)
      BY <1>1, DecodeRegisters
    <2>3. QED
      BY <2>1, <2>2
  <1>6. Code(c, x, y, 0) = Code(c, x, y, n) <=> n = 0
    BY DEF Code, Reg
  <1>7. Answers(opcode, name, args)
    BY <1>2, <1>3, <1>4, <1>5, <1>6 DEF Answers
  <1>8. QED
    BY <1>7

LEMMA AnswerMath ==
  ASSUME NEW opcode, NEW c, c = 8, NEW x \in Reg, NEW y \in Reg, NEW n \in Reg,
         IsCode(opcode, c, x, y, n), n \in DOMAIN MathNames
  PROVE  \E name, args : Answers(opcode, name, args)
  <1>1. opcode = Code(8, x, y, n)
    BY DEF IsCode
  <1>2. CASE n \in {6, 14}
    <2>1. PICK args : args = <<Register(x)>>
      OBVIOUS
    <2>2. Len(args) <= 3 /\ args \in Seq(Operand) /\ NotReassembled(opcode)
      BY <1>2, <2>1, OperandsWritten, ExceptedAt
    <2>3. Decode(opcode) = Text(MathNames[n], args) /\ MathNames[n] \in {"shift_r", "shift_l"}
      BY <1>2, <2>1, DecodeMath, MathTable
    <2>4. ~Fits(MathNames[n], args)
      BY <2>1, <2>3, FitsNot
    <2>5. Answers(opcode, MathNames[n], args)
      BY <2>2, <2>3, <2>4 DEF Answers
    <2>6. QED
      BY <2>5
  <1>3. CASE n \in {0, 1, 2, 3, 4, 5, 7}
    <2>1. PICK args : args = <<Register(x), Register(y)>>
      OBVIOUS
    <2>2. args[1] = Register(x) /\ args[2] = Register(y) /\ Len(args) <= 3 /\ args \in Seq(Operand)
      BY <2>1, OperandsWritten
    <2>3. ~NotReassembled(opcode)
      BY <1>3, ExceptedAt
    <2>4. PICK name : name = MathNames[n]
      OBVIOUS
    <2>5. name \in {"ldv", "or", "and", "xor", "add", "sub", "sub2"}
      BY <1>3, <2>4, MathTable
    <2>6. Decode(opcode) = Text(name, args)
      <3>1. Decode(opcode) = Text(MathNames[n], <<Register(x), Register(y)>>)
        BY <1>3, DecodeMathTwo
      <3>2. QED
        BY <2>1, <2>4, <3>1
    <2>7. Encode(name, args, 0) = Code(8, x, y, n)
      BY <1>3, <2>2, <2>4, MathTable, RegisterTexts
    <2>8. Fits(name, args)
      BY <2>1, <2>5, FitsTwo, OperandTypes
    <2>9. Answers(opcode, name, args)
      BY <1>1, <2>2, <2>3, <2>6, <2>7, <2>8 DEF Answers
    <2>10. QED
      BY <2>9
  <1>4. QED
    BY <1>2, <1>3, MathTable

LEMMA AnswerDraw ==
  ASSUME NEW opcode, NEW x \in Reg, NEW y \in Reg, NEW n \in Reg,
         IsCode(opcode, 13, x, y, n)
  PROVE  \E name, args : Answers(opcode, name, args)
  <1>1. PICK args : args = <<Register(x), Register(y), Number(<<n>>)>>
    OBVIOUS
  <1>2. /\ args[1] = Register(x) /\ args[2] = Register(y) /\ args[3] = Number(<<n>>)
        /\ Len(args) <= 3 /\ args \in Seq(Operand)
    BY <1>1, OperandsWritten
  <1>3. opcode = Code(13, x, y, n) /\ ~NotReassembled(opcode)
    BY ExceptedAt DEF IsCode
  <1>4. Fits("draw", args)
    BY <1>1, FitsDraw, OperandTypes
  <1>5. Decode(opcode) = Text("draw", args) /\ Encode("draw", args, 0) = Code(13, x, y, n)
    BY <1>1, <1>2, DecodeRegisters, DrawText
  <1>6. Answers(opcode, "draw", args)
    BY <1>2, <1>3, <1>4, <1>5 DEF Answers
  <1>7. QED
    BY <1>6

LEMMA AnswerAddress ==
  ASSUME NEW opcode, NEW c \in {1, 2, 10, 11}, NEW x \in Reg, NEW y \in Reg, NEW n \in Reg,
         IsCode(opcode, c, x, y, n)
  PROVE  \E name, args : Answers(opcode, name, args)
  <1>1. CASE c = 10
    <2>1. PICK args : args = <<AddrToken(x, y, n)>>
      OBVIOUS
    <2>2. args[1] = AddrToken(x, y, n) /\ Len(args) <= 3 /\ args \in Seq(Operand)
      BY <2>1, OperandsWritten
    <2>3. opcode = Code(10, x, y, n) /\ (NotReassembled(opcode) <=> x * 256 + y * 16 + n > 255)
      BY <1>1, ExceptedAt DEF IsCode
    <2>4. Decode(opcode) = Text("ldi", args) /\ Encode("ldi", args, 0) = Code(10, 0, y, n)
      <3>1. Encode("ldi", args, 0) = Code(10, 0, y, n)
        BY <2>2, AddressText
      <3>2. Decode(opcode) = Text("ldi", args)
        BY <1>1, <2>1, DecodeAddress
      <3>3. QED
        BY <3>1, <3>2
    <2>5. Fits("ldi", args)
      BY <2>1, FitsOne, OperandTypes
    <2>6. /\ Code(10, 0, y, n) = Code(10, x, y, n) <=> x = 0
          /\ x * 256 + y * 16 + n > 255 <=> x # 0
      BY DEF Code, Reg
    <2>7. Answers(opcode, "ldi", args)
      BY <2>2, <2>3, <2>4, <2>5, <2>6 DEF Answers
    <2>8. QED
      BY <2>7
  <1>2. CASE c \in {1, 2, 11}
    <2>1. NotReassembled(opcode) /\ Addr(opcode) \in Nat /\ 0 \in Reg
      BY <1>2, ExceptedAt DEF IsCode, Reg
    <2>2. PICK name \in {"jmp", "call"}, t \in {Use(Addr(opcode)), Register(0)} :
             Decode(opcode) = Text(name, <<t>>)
      BY <1>2, DecodeAddress
    <2>3. PICK args : args = <<t>>
      OBVIOUS
    <2>4. args \in Seq(Operand) /\ Len(args) <= 3
      BY <2>1, <2>2, <2>3, OperandsWritten
    <2>5. ~Fits(name, args)
      BY <2>2, <2>3, FitsNot
    <2>6. Answers(opcode, name, args)
      BY <2>1, <2>2, <2>3, <2>4, <2>5 DEF Answers
    <2>7. QED
      BY <2>6
  <1>3. QED
    BY <1>1, <1>2

\* The two codes of class 0 that have a name.
LEMMA LowCodes ==
  ASSUME NEW x \in Reg, NEW y \in Reg, NEW n \in Reg
  PROVE  /\ Code(0, x, y, n) = 224 <=> x = 0 /\ y * 16 + n = 224
         /\ Code(0, x, y, n) = 238 <=> x = 0 /\ y * 16 + n = 238
  BY DEF Code, Reg

LEMMA BareTexts ==
  ASSUME NEW args
  PROVE  Encode("clear", args, 0) = 224 /\ Encode("ret", args, 0) = 238
  <1>1. Code(0, 0, 14, 0) = 224 /\ Code(0, 0, 14, 14) = 238
    BY DEF Code
  <1>2. Encode("clear", args, 0) = Base["clear"] /\ Encode("ret", args, 0) = Base["ret"]
    BY EncodeOther
  <1>3. QED
    BY <1>1, <1>2, BaseTable

LEMMA AnswerMisc ==
  ASSUME NEW opcode, NEW c, c = 0, NEW x \in Reg, NEW y \in Reg, NEW n \in Reg,
         IsCode(opcode, c, x, y, n), Imm(opcode) \in {224, 238}
  PROVE  \E name, args : Answers(opcode, name, args)
  <1>1. PICK imm : imm = y * 16 + n /\ imm = Imm(opcode) /\ imm \in {224, 238}
    BY DEF IsCode
  <1>2. opcode = Code(0, x, y, n)
    BY DEF IsCode
  <1>3. NotReassembled(opcode) <=> opcode # imm
    <2>1. NotReassembled(opcode) <=> opcode \notin {224, 238}
      BY ExceptedAt
    <2>2. opcode = 224 <=> x = 0 /\ imm = 224
      BY <1>1, <1>2, LowCodes
    <2>3. opcode = 238 <=> x = 0 /\ imm = 238
      BY <1>1, <1>2, LowCodes
    <2>4. opcode \in {224, 238} <=> opcode = imm
      BY <1>1, <2>2, <2>3
    <2>5. QED
      BY <2>1, <2>4
  <1>4. PICK args : args = <<>>
    OBVIOUS
  <1>5. args \in Seq(Operand) /\ Len(args) <= 3
    BY <1>4
  <1>6. /\ imm = 224 => Decode(opcode) = Text("clear", args)
        /\ imm = 238 => Decode(opcode) = Text("ret", args)
    <2>1. /\ Imm(opcode) = 224 => Decode(opcode) = Text("clear", <<>>)
          /\ Imm(opcode) = 238 => Decode(opcode) = Text("ret", <<>>)
      BY DecodeMisc
    <2>2. QED
      BY <1>1, <1>4, <2>1
  <1>7. Encode("clear", args, 0) = 224 /\ Encode("ret", args, 0) = 238
    BY BareTexts
  <1>8. Fits("clear", args) /\ Fits("ret", args)
    BY <1>4, FitsNone
  <1>9. CASE imm = 224
    <2>1. Answers(opcode, "clear", args)
      BY <1>3, <1>5, <1>6, <1>7, <1>8, <1>9 DEF Answers
    <2>2. QED
      BY <2>1
  <1>10. CASE imm = 238
    <2>1. Answers(opcode, "ret", args)
      BY <1>3, <1>5, <1>6, <1>7, <1>8, <1>10 DEF Answers
    <2>2. QED
      BY <2>1
  <1>11. QED
    BY <1>1, <1>9, <1>10

LEMMA AnswerIn ==
  ASSUME NEW opcode, NEW c, c = 14, NEW x \in Reg, NEW y \in Reg, NEW n \in Reg,
         IsCode(opcode, c, x, y, n), Imm(opcode) \in {158, 161}
  PROVE  \E name, args : Answers(opcode, name, args)
  <1>1. PICK args : args = <<Register(x)>>
    OBVIOUS
  <1>2. args[1] = Register(x) /\ Len(args) <= 3 /\ args \in Seq(Operand)
    BY <1>1, OperandsWritten
  <1>3. opcode = Code(14, x, y, n) /\ Imm(opcode) = y * 16 + n /\ NotReassembled(opcode)
    BY ExceptedAt DEF IsCode
  <1>4. /\ Encode("skip_key_up", args, 0) = Code(14, x, 9, 14)
        /\ Encode("skip_key_down", args, 0) = Code(14, x, 10, 1)
    BY <1>2, OneRegisterTexts
  <1>5. CASE Imm(opcode) = 158
    <2>1. Decode(opcode) = Text("skip_key_down", args)
      BY <1>1, <1>5, DecodeIn
    <2>2. Code(14, x, 10, 1) # Code(14, x, y, n)
      BY <1>3, <1>5 DEF Code, Reg
    <2>3. Answers(opcode, "skip_key_down", args)
      BY <1>2, <1>3, <1>4, <2>1, <2>2 DEF Answers
    <2>4. QED
      BY <2>3
  <1>6. CASE Imm(opcode) = 161
    <2>1. Decode(opcode) = Text("skip_key_up", args)
      BY <1>1, <1>6, DecodeIn
    <2>2. Code(14, x, 9, 14) # Code(14, x, y, n)
      BY <1>3, <1>6 DEF Code, Reg
    <2>3. Answers(opcode, "skip_key_up", args)
      BY <1>2, <1>3, <1>4, <2>1, <2>2 DEF Answers
    <2>4. QED
      BY <2>3
  <1>7. QED
    BY <1>5, <1>6

\* The low byte of a code of class 15 fixes its last two digits.
LEMMA LowByte ==
  ASSUME NEW x \in Reg, NEW y \in Reg, NEW n \in Reg
  PROVE  /\ y * 16 + n = 7 => Code(15, x, 0, 7) = Code(15, x, y, n)
         /\ y * 16 + n = 21 => Code(15, x, 1, 5) = Code(15, x, y, n)
         /\ y * 16 + n = 24 => Code(15, x, 0, 10) # Code(15, x, y, n)
         /\ y * 16 + n = 30 => Code(15, x, 1, 14) = Code(15, x, y, n)
         /\ y * 16 + n = 41 => Code(15, x, 2, 9) = Code(15, x, y, n)
         /\ y * 16 + n = 51 => Code(15, x, 3, 3) = Code(15, x, y, n)
         /\ y * 16 + n = 85 => Code(15, x, 5, 5) = Code(15, x, y, n)
         /\ y * 16 + n = 101 => Code(15, x, 6, 5) = Code(15, x, y, n)
  BY DEF Code, Reg

LEMMA AnswerMisc2 ==
  ASSUME NEW opcode, NEW c, c = 15, NEW x \in Reg, NEW y \in Reg, NEW n \in Reg,
         IsCode(opcode, c, x, y, n), Imm(opcode) \in DOMAIN Misc2Names
  PROVE  \E name, args : Answers(opcode, name, args)
  <1>1. PICK args, name, imm :
           args = <<Register(x)>> /\ name = Misc2Names[Imm(opcode)] /\ imm = Imm(opcode)
    OBVIOUS
  <1>2. args[1] = Register(x) /\ Len(args) <= 3 /\ args \in Seq(Operand)
    BY <1>1, OperandsWritten
  <1>3. opcode = Code(15, x, y, n) /\ imm = y * 16 + n
    BY <1>1 DEF IsCode
  <1>4. NotReassembled(opcode) <=> imm \notin {7, 21, 30, 41, 51, 85, 101}
    BY <1>1, ExceptedAt
  <1>5. Decode(opcode) = Text(name, args)
    BY <1>1, DecodeMisc2
  <1>6. imm \in {7, 10, 21, 24, 30, 41, 51, 85, 101}
    BY <1>1, Misc2Table
  <1>7. CASE imm = 10
    <2>1. ~Fits(name, args)
      BY <1>1, <1>7, Misc2Table, FitsNot
    <2>2. Answers(opcode, name, args)
      BY <1>2, <1>4, <1>5, <1>7, <2>1 DEF Answers
    <2>3. QED
      BY <2>2
  <1>8. CASE imm # 10
    <2>1. name \in {"get_delay", "set_delay", "set_sound", "add_i", "get_sprite", "bcd",
                    "dump_reg", "load_reg"}
      BY <1>1, <1>6, <1>8, Misc2Table
    <2>2. Fits(name, args)
      BY <1>1, <2>1, FitsOne, OperandTypes
    <2>3. Encode(name, args, 0) = opcode <=> imm # 24
      <3>1. /\ imm = 7 => Encode(name, args, 0) = Code(15, x, 0, 7)
            /\ imm = 21 => Encode(name, args, 0) = Code(15, x, 1, 5)
            /\ imm = 24 => Encode(name, args, 0) = Code(15, x, 0, 10)
            /\ imm = 30 => Encode(name, args, 0) = Code(15, x, 1, 14)
            /\ imm = 41 => Encode(name, args, 0) = Code(15, x, 2, 9)
            /\ imm = 51 => Encode(name, args, 0) = Code(15, x, 3, 3)
            /\ imm = 85 => Encode(name, args, 0) = Code(15, x, 5, 5)
            /\ imm = 101 => Encode(name, args, 0) = Code(15, x, 6, 5)
        BY <1>1, <1>2, Misc2Table, OneRegisterTexts
      <3>2. QED
        BY <1>3, <1>6, <1>8, <3>1, LowByte
    <2>4. Answers(opcode, name, args)
      BY <1>2, <1>4, <1>5, <1>6, <1>8, <2>2, <2>3 DEF Answers
    <2>5. QED
      BY <2>4
  <1>9. QED
    BY <1>7, <1>8

\* The text of an opcode is no text of the assembler's, or that of an instruction.
LEMMA Answered ==
  ASSUME NEW opcode \in Word
  PROVE  \/ Decode(opcode) = <<Junk>> /\ NotReassembled(opcode)
         \/ \E name, args : Answers(opcode, name, args)
  <1>1. PICK c \in Reg, x \in Reg, y \in Reg, n \in Reg : IsCode(opcode, c, x, y, n)
    BY CodeDigits, CodeFields DEF IsCode
  <1>2. CASE c = 0
    <2>1. CASE Imm(opcode) \in {224, 238}
      BY <1>1, <1>2, <2>1, AnswerMisc
    <2>2. CASE Imm(opcode) \notin {224, 238}
      <3>1. Decode(opcode) = <<Junk>>
        BY <1>1, <1>2, <2>2, DecodeJunk
      <3>2. opcode \notin {224, 238}
        <4>1. opcode = Code(0, x, y, n) /\ Imm(opcode) = y * 16 + n
          BY <1>1, <1>2 DEF IsCode
        <4>2. QED
          BY <2>2, <4>1, LowCodes
      <3>3. QED
        BY <1>1, <1>2, <3>1, <3>2, ExceptedAt
    <2>3. QED
      BY <2>1, <2>2
  <1>3. CASE c \in {1, 2, 10, 11}
    BY <1>1, <1>3, AnswerAddress
  <1>4. CASE c \in {3, 4, 6, 7, 12}
    BY <1>1, <1>4, AnswerNumber
  <1>5. CASE c \in {5, 9}
    BY <1>1, <1>5, AnswerRegisters
  <1>6. CASE c = 8
    <2>1. CASE n \in DOMAIN MathNames
      BY <1>1, <1>6, <2>1, AnswerMath
    <2>2. CASE n \notin DOMAIN MathNames
      <3>1. Decode(opcode) = <<Junk>>
        BY <1>1, <1>6, <2>2, DecodeMath
      <3>2. n \notin {0, 1, 2, 3, 4, 5, 7}
        BY <2>2, MathTable
      <3>3. QED
        BY <1>1, <1>6, <3>1, <3>2, ExceptedAt
    <2>3. QED
      BY <2>1, <2>2
  <1>7. CASE c = 13
    BY <1>1, <1>7, AnswerDraw
  <1>8. CASE c = 14
    <2>1. CASE Imm(opcode) \in {158, 161}
      BY <1>1, <1>8, <2>1, AnswerIn
    <2>2. CASE Imm(opcode) \notin {158, 161}
      <3>1. Decode(opcode) = <<Junk>>
        BY <1>1, <1>8, <2>2, DecodeJunk
      <3>2. QED
        BY <1>1, <1>8, <3>1, ExceptedAt
    <2>3. QED
      BY <2>1, <2>2
  <1>9. CASE c = 15
    <2>1. CASE Imm(opcode) \in DOMAIN Misc2Names
      BY <1>1, <1>9, <2>1, AnswerMisc2
    <2>2. CASE Imm(opcode) \notin DOMAIN Misc2Names
      <3>1. Decode(opcode) = <<Junk>>
        BY <1>1, <1>9, <2>2, DecodeMisc2
      <3>2. Imm(opcode) \notin {7, 21, 30, 41, 51, 85, 101}
        BY <2>2, Misc2Table
      <3>3. QED
        BY <1>1, <1>9, <3>1, <3>2, ExceptedAt
    <2>3. QED
      BY <2>1, <2>2
  <1>10. QED
    BY <1>1, <1>2, <1>3, <1>4, <1>5, <1>6, <1>7, <1>8, <1>9 DEF Reg

-----------------------------------------------------------------------------
(* What two passes make of the text of one instruction.                    *)

LEMMA OperandKinds ==
  ASSUME NEW t \in Operand
  PROVE  /\ t.type \in {"register", "number", "label_addr"}
         /\ t # Newline /\ t # Semicolon /\ t # Junk
  <1>1. t.type \in {"register", "number", "label_addr"}
    BY DEF Operand, Register, Number, Use, Token
  <1>2. Newline.type = "newline" /\ Semicolon.type = "semicolon" /\ Junk.type = "junk"
    BY DEF Newline, Semicolon, Junk, Token
  <1>3. QED
    BY <1>1, <1>2

LEMMA InstrKind ==
  ASSUME NEW name
  PROVE  /\ Instr(name).type = "instruction" /\ Instr(name).val = name
         /\ Instr(name) # Newline /\ Instr(name) # Semicolon /\ Instr(name) # Junk
  <1>1. Instr(name).type = "instruction" /\ Instr(name).val = name
    BY DEF Instr, Token
  <1>2. Newline.type = "newline" /\ Semicolon.type = "semicolon" /\ Junk.type = "junk"
    BY DEF Newline, Semicolon, Junk, Token
  <1>3. QED
    BY <1>1, <1>2

LEMMA TextPieces ==
  ASSUME NEW name, NEW args \in Seq(Operand), NEW n, n = Len(args)
  PROVE  /\ n \in Nat /\ DOMAIN Text(name, args) = 1..(n + 1)
         /\ Text(name, args)[1] = Instr(name)
         /\ \A k \in 1..n : args[k] \in Operand /\ Text(name, args)[k + 1] = args[k]
  <1>1. PICK S : S = Operand \cup {Instr(name)}
    OBVIOUS
  <1>2. <<Instr(name)>> \in Seq(S) /\ args \in Seq(S) /\ Len(<<Instr(name)>>) = 1
        /\ <<Instr(name)>>[1] = Instr(name)
    BY <1>1
  <1>3. PICK text : text = Text(name, args)
    OBVIOUS
  <1>4. /\ text \in Seq(S) /\ Len(text) = 1 + n
        /\ \A i \in 1..(1 + n) : text[i] = IF i <= 1 THEN Instr(name) ELSE args[i - 1]
    BY <1>2, <1>3, ConcatProperties DEF Text
  <1>5. n \in Nat /\ DOMAIN text = 1..(n + 1)
    BY <1>4, LenProperties
  <1>6. ASSUME NEW k \in 1..n PROVE args[k] \in Operand /\ text[k + 1] = args[k]
    <2>1. k + 1 \in 1..(1 + n) /\ ~(k + 1 <= 1) /\ (k + 1) - 1 = k
      BY <1>5
    <2>2. args[k] \in Operand
      BY ElementOfSeq
    <2>3. QED
      BY <1>4, <2>1, <2>2
  <1>7. text[1] = Instr(name)
    BY <1>4, <1>5
  <1>8. QED
    BY <1>3, <1>5, <1>6, <1>7

\* All of it is shown, and only its first token can begin a word.
LEMMA TextShown ==
  ASSUME NEW name, NEW args \in Seq(Operand), NEW n, n = Len(args),
         source = Text(name, args)
  PROVE  T!Shown = 1..(n + 1) /\ T!Instructions = {1}
  <1>1. /\ n \in Nat /\ DOMAIN source = 1..(n + 1)
        /\ source[1] = Instr(name)
        /\ \A k \in 1..n : args[k] \in Operand /\ source[k + 1] = args[k]
    BY TextPieces
  <1>2. ASSUME NEW p \in 1..(n + 1)
        PROVE  /\ source[p] # Newline /\ source[p] # Semicolon
               /\ source[p].type = "instruction" <=> p = 1
    <2>1. CASE p = 1
      BY <1>1, <2>1, InstrKind
    <2>2. CASE p # 1
      <3>1. PICK k \in 1..n : p = k + 1
        <4>1. p - 1 \in 1..n /\ p = (p - 1) + 1
          BY <1>1, <2>2
        <4>2. QED
          BY <4>1
      <3>2. source[p] \in Operand
        BY <1>1, <3>1
      <3>3. source[p].type \in {"register", "number", "label_addr"}
            /\ source[p] # Newline /\ source[p] # Semicolon
        BY <3>2, OperandKinds
      <3>4. QED
        BY <2>2, <3>3
    <2>3. QED
      BY <2>1, <2>2
  <1>3. T!Shown = 1..(n + 1)
    <2>1. ASSUME NEW p \in 1..(n + 1) PROVE p \in T!Shown
      <3>1. \A q \in 1..p : q \in 1..(n + 1)
        BY <1>1
      <3>2. QED
        BY <1>1, <1>2, <3>1 DEF T!Shown
    <2>2. T!Shown \subseteq 1..(n + 1)
      BY <1>1 DEF T!Shown
    <2>3. QED
      BY <2>1, <2>2
  <1>4. 1 \in 1..(n + 1)
    BY <1>1
  <1>5. T!Instructions = {1}
    BY <1>2, <1>3, <1>4 DEF T!Instructions, T!Is
  <1>6. QED
    BY <1>3, <1>5

\* What is said of the text of an instruction below.
Described(name, args, n) ==
    /\ args \in Seq(Operand) /\ n = Len(args) /\ n <= 3
    /\ source = Text(name, args)

LEMMA DescribedPieces ==
  ASSUME NEW name, NEW args, NEW n, Described(name, args, n)
  PROVE  /\ n \in Nat /\ DOMAIN source = 1..(n + 1)
         /\ source[1].type = "instruction" /\ source[1].val = name
         /\ source[1] # Junk
         /\ T!Shown = 1..(n + 1) /\ T!Instructions = {1}
         /\ T!Behind(1) = 2..(1 + Len(Operands(name)))
         /\ \A R \in SUBSET T!Instructions : R = {} \/ R = {1}
         /\ T!Taken({}) = {} /\ T!Taken({1}) = T!Behind(1)
  <1>1. /\ n \in Nat /\ DOMAIN source = 1..(n + 1)
        /\ source[1] = Instr(name)
    BY TextPieces DEF Described
  <1>2. T!Shown = 1..(n + 1) /\ T!Instructions = {1}
    BY TextShown DEF Described
  <1>3. /\ source[1].type = "instruction" /\ source[1].val = name
        /\ source[1] # Junk
    BY <1>1, InstrKind
  <1>4. T!Behind(1) = 2..(1 + Len(Operands(name)))
    BY <1>3 DEF T!Behind
  <1>5. T!Taken({}) = {} /\ T!Taken({1}) = T!Behind(1)
    BY DEF T!Taken
  <1>6. QED
    BY <1>1, <1>2, <1>3, <1>4, <1>5

LEMMA DescribedOperands ==
  ASSUME NEW name, NEW args, NEW n, Described(name, args, n), NEW k \in 1..n
  PROVE  /\ args[k] = source[k + 1]
         /\ source[k + 1].type \in {"register", "number", "label_addr"}
         /\ source[k + 1] # Junk
         /\ k + 1 \in 2..(n + 1)
  <1>1. n \in Nat /\ args[k] \in Operand /\ args[k] = source[k + 1]
    BY TextPieces DEF Described
  <1>2. QED
    BY <1>1, OperandKinds

\* The two passes read the text only in the way it is written, and only when it fits.
LEMMA TextRead ==
  ASSUME NEW name, NEW args, NEW n, Described(name, args, n),
         NEW R \in SUBSET T!Instructions, T!Correct(R)
  PROVE  R = {1} /\ Fits(name, args)
  <1>1. PICK m : m = Len(Operands(name))
    OBVIOUS
  <1>2. m \in Nat /\ DOMAIN Operands(name) = 1..m
    BY <1>1, Arity
  <1>3. /\ n \in Nat /\ DOMAIN source = 1..(n + 1)
        /\ source[1].type = "instruction" /\ source[1].val = name
        /\ source[1] # Junk
        /\ T!Shown = 1..(n + 1) /\ T!Instructions = {1}
        /\ T!Behind(1) = 2..(1 + m)
        /\ R = {} \/ R = {1}
        /\ T!Taken({}) = {} /\ T!Taken({1}) = T!Behind(1)
    BY <1>1, DescribedPieces
  <1>4. 1 \in T!Shown
    BY <1>3
  <1>5. /\ \A p \in R : T!Behind(p) \subseteq T!Shown \ R /\ T!Readable(p)
        /\ \A p \in T!Shown \ (R \cup T!Taken(R)) : source[p].type = "label"
        /\ \A p \in R : source[p].val \in Transfers => T!Definitions(R, source[p + 1].val) # {}
        /\ \A p \in T!Shown : ~Unrecognized(source[p])
    BY DEF T!Correct, T!Reading, T!Is
  <1>6. R = {1}
    BY <1>3, <1>4, <1>5
  <1>7. \A k \in 1..n : /\ args[k] = source[k + 1]
                        /\ source[k + 1].type \in {"register", "number", "label_addr"}
                        /\ k + 1 \in 2..(n + 1)
    BY DescribedOperands
  <1>8. \A p \in T!Shown : source[p].type # "label"
    <2>1. ASSUME NEW p \in T!Shown PROVE source[p].type # "label"
      <3>1. p = 1 \/ (p - 1 \in 1..n /\ (p - 1) + 1 = p)
        BY <1>3
      <3>2. CASE p = 1
        BY <1>3, <3>2
      <3>3. CASE p - 1 \in 1..n /\ (p - 1) + 1 = p
        <4>1. PICK k \in 1..n : p = k + 1
          BY <3>3
        <4>2. source[p].type \in {"register", "number", "label_addr"}
          BY <1>7, <4>1
        <4>3. QED
          BY <4>2
      <3>4. QED
        BY <3>1, <3>2, <3>3
    <2>2. QED
      BY <2>1
  <1>9. m = n
    <2>1. 2..(1 + m) \subseteq 1..(n + 1)
      BY <1>3, <1>5, <1>6
    <2>2. 1..(n + 1) \subseteq {1} \cup 2..(1 + m)
      BY <1>3, <1>5, <1>6, <1>8
    <2>3. m <= n
      <3>1. ASSUME m > n PROVE FALSE
        <4>1. 1 + m \in 2..(1 + m) /\ 1 + m \notin 1..(n + 1)
          BY <1>2, <1>3, <3>1
        <4>2. QED
          BY <2>1, <4>1
      <3>2. QED
        BY <1>2, <1>3, <3>1
    <2>4. n <= m
      <3>1. ASSUME n > m PROVE FALSE
        <4>1. n + 1 \in 1..(n + 1) /\ n + 1 \notin {1} \cup 2..(1 + m)
          BY <1>2, <1>3, <3>1
        <4>2. QED
          BY <2>2, <4>1
      <3>2. QED
        BY <1>2, <1>3, <3>1
    <2>5. QED
      BY <1>2, <1>3, <2>3, <2>4
  <1>10. name \notin Transfers
    <2>1. ASSUME name \in Transfers PROVE FALSE
      <3>1. PICK p \in T!Definitions(R, source[2].val) : TRUE
        <4>1. T!Definitions(R, source[1 + 1].val) # {} /\ 1 + 1 = 2
          BY <1>3, <1>5, <1>6, <2>1
        <4>2. QED
          BY <4>1
      <3>2. p \in T!Shown /\ source[p].type = "label"
        BY <3>1 DEF T!Definitions, T!Is
      <3>3. QED
        BY <1>8, <3>2
    <2>2. QED
      BY <2>1
  <1>11. name \in InstructionNames
    BY <1>3, <1>4, <1>5 DEF Unrecognized
  <1>12. ASSUME NEW k \in 1..n PROVE Operands(name)[k] \in {"either", args[k].type}
    <2>1. k + 1 \in T!Behind(1) /\ (k + 1) - 1 = k
      BY <1>3, <1>9
    <2>2. T!Readable(1)
      BY <1>5, <1>6
    <2>3. Operands(name)[k] = "either" \/ source[k + 1].type = Operands(name)[k]
      <3>1. PICK q : q = k + 1
        OBVIOUS
      <3>2. \/ Operands(source[1].val)[q - 1] = "either"
            \/ source[q].type = Operands(source[1].val)[q - 1]
        BY <2>1, <2>2, <3>1 DEF T!Readable, T!Is
      <3>3. QED
        BY <1>3, <2>1, <3>1, <3>2
    <2>4. QED
      BY <1>7, <2>3
  <1>13. Len(args) = n
    BY DEF Described
  <1>14. Fits(name, args)
    BY <1>1, <1>9, <1>10, <1>11, <1>12, <1>13 DEF Fits
  <1>15. QED
    BY <1>6, <1>14

LEMMA TextCorrect ==
  ASSUME NEW name, NEW args, NEW n, Described(name, args, n), Fits(name, args)
  PROVE  T!Correct({1})
  <1>1. /\ n = Len(Operands(name)) /\ n = Len(args) /\ n <= 3
        /\ name \in InstructionNames /\ name \notin Transfers
        /\ \A k \in 1..n : Operands(name)[k] \in {"either", args[k].type}
    BY DEF Described, Fits
  <1>2. /\ n \in Nat /\ source[1].type = "instruction" /\ source[1].val = name
        /\ source[1] # Junk
        /\ T!Shown = 1..(n + 1)
        /\ T!Behind(1) = 2..(1 + n) /\ T!Taken({1}) = T!Behind(1)
    BY <1>1, DescribedPieces
  <1>3. \A k \in 1..n : /\ args[k] = source[k + 1]
                        /\ source[k + 1].type \in {"register", "number", "label_addr"}
                        /\ source[k + 1] # Junk
    BY DescribedOperands
  <1>4. \A q \in 2..(1 + n) : q - 1 \in 1..n /\ q = (q - 1) + 1
    BY <1>2
  <1>5. T!Readable(1)
    <2>1. ASSUME NEW q \in T!Behind(1)
          PROVE  Operands(name)[q - 1] = "either" \/ source[q].type = Operands(name)[q - 1]
      <3>1. PICK k \in 1..n : k = q - 1 /\ q = k + 1
        BY <1>2, <1>4
      <3>2. QED
        BY <1>1, <1>3, <3>1
    <2>2. QED
      BY <1>2, <2>1 DEF T!Readable, T!Is
  <1>6. T!Reading({1})
    <2>1. T!Behind(1) \subseteq T!Shown \ {1}
      BY <1>2
    <2>2. T!Shown \ ({1} \cup T!Taken({1})) = {}
      BY <1>2
    <2>3. QED
      BY <1>5, <2>1, <2>2 DEF T!Reading
  <1>7. \A p \in T!Shown : ~Unrecognized(source[p])
    <2>1. ~Unrecognized(source[1])
      BY <1>1, <1>2 DEF Unrecognized
    <2>2. ASSUME NEW q \in 2..(1 + n) PROVE ~Unrecognized(source[q])
      <3>1. PICK k \in 1..n : q = k + 1
        BY <1>4
      <3>2. source[q].type # "instruction" /\ source[q] # Junk
        BY <1>3, <3>1
      <3>3. QED
        BY <3>2 DEF Unrecognized
    <2>3. \A p \in T!Shown : p = 1 \/ p \in 2..(1 + n)
      BY <1>2
    <2>4. QED
      BY <2>1, <2>2, <2>3
  <1>8. \A p \in T!Shown : ~(p..(p + MaxLineLen) \subseteq T!Shown)
    <2>1. ASSUME NEW p \in T!Shown PROVE ~(p..(p + MaxLineLen) \subseteq T!Shown)
      <3>1. p \in 1..(n + 1) /\ MaxLineLen \in Nat /\ MaxLineLen >= 4
        BY <1>2, AsmAssumption, LineAssumption
      <3>2. p + MaxLineLen \in p..(p + MaxLineLen) /\ p + MaxLineLen \notin 1..(n + 1)
        BY <1>1, <1>2, <3>1
      <3>3. QED
        BY <1>2, <3>2
    <2>2. QED
      BY <2>1
  <1>9. QED
    BY <1>1, <1>2, <1>6, <1>7, <1>8 DEF T!Correct

LEMMA TextWords ==
  ASSUME NEW name, NEW args, NEW n, Described(name, args, n), Fits(name, args)
  PROVE  T!Words({1}) = <<Encode(name, args, 0)>>
  <1>1. n = Len(Operands(name)) /\ n = Len(args) /\ name \notin Transfers /\ args \in Seq(Operand)
    BY DEF Described, Fits
  <1>2. n \in Nat /\ source[1].val = name
    BY DescribedPieces
  <1>3. \A k \in 1..n : args[k] = source[k + 1]
    BY DescribedOperands
  <1>4. T!Cardinality({1}) = 1
    BY SameCardinality, FS_Singleton
  <1>5. (CHOOSE p \in {1} : T!AddressAt({1}, p) = Entry + 2 * (1 - 1)) = 1
    <2>1. { q \in {1} : q < 1 } = {}
      OBVIOUS
    <2>2. T!Cardinality({}) = 0
      BY SameCardinality, FS_EmptySet
    <2>3. T!AddressAt({1}, 1) = Entry + 2 * 0
      BY <2>1, <2>2 DEF T!AddressAt
    <2>4. QED
      BY <2>3
  <1>6. SubSeq(source, 2, 1 + n) = args
    <2>1. ASSUME NEW i \in 2..(1 + n) PROVE source[i] \in Operand
      <3>1. PICK k \in 1..n : i = k + 1
        <4>1. i - 1 \in 1..n /\ i = (i - 1) + 1
          BY <1>2
        <4>2. QED
          BY <4>1
      <3>2. args[k] \in Operand
        BY <1>1, ElementOfSeq
      <3>3. QED
        BY <1>3, <3>1, <3>2
    <2>2. PICK part : part = SubSeq(source, 2, 1 + n)
      OBVIOUS
    <2>3. /\ part \in Seq(Operand) /\ Len(part) = IF 2 <= 1 + n THEN (1 + n) - 2 + 1 ELSE 0
          /\ \A i \in 1..((1 + n) - 2 + 1) : part[i] = source[2 + i - 1]
      BY <1>2, <2>1, <2>2, SubSeqProperties
    <2>4. Len(part) = n
      BY <1>2, <2>3
    <2>5. \A i \in 1..n : part[i] = args[i]
      <3>1. ASSUME NEW i \in 1..n PROVE part[i] = args[i]
        <4>1. i \in 1..((1 + n) - 2 + 1) /\ 2 + i - 1 = i + 1
          BY <1>2
        <4>2. QED
          BY <1>3, <2>3, <4>1
      <3>2. QED
        BY <3>1
    <2>6. part = args
      BY <1>1, <2>3, <2>4, <2>5, SeqEqual
    <2>7. QED
      BY <2>2, <2>6
  <1>7. T!WordAt({1}, 1) = Encode(name, args, 0)
    <2>1. SubSeq(source, 1 + 1, 1 + Len(Operands(source[1].val))) = args
      <3>1. 1 + 1 = 2
        OBVIOUS
      <3>2. QED
        BY <1>1, <1>2, <1>6, <3>1
    <2>2. source[1].val \notin Transfers
      BY <1>1, <1>2
    <2>3. QED
      BY <1>2, <2>1, <2>2, Zenon DEF T!WordAt
  <1>8. PICK word : word = Encode(name, args, 0)
    OBVIOUS
  <1>9. T!Words({1}) = [k \in 1..1 |-> word]
    <2>1. \A k \in 1..1 : k = 1
      OBVIOUS
    <2>2. \A k \in 1..1 :
             T!WordAt({1}, CHOOSE p \in {1} : T!AddressAt({1}, p) = Entry + 2 * (k - 1)) = word
      BY <1>5, <1>7, <1>8, <2>1
    <2>3. T!Words({1}) =
            [k \in 1..1 |->
               T!WordAt({1}, CHOOSE p \in {1} : T!AddressAt({1}, p) = Entry + 2 * (k - 1))]
      BY <1>4 DEF T!Words
    <2>4. QED
      BY <2>2, <2>3
  <1>10. [k \in 1..1 |-> word] = <<word>>
    OBVIOUS
  <1>11. QED
    BY <1>8, <1>9, <1>10

\* What two passes make of the text of an opcode.
LEMMA TextOutcome ==
  ASSUME NEW opcode \in Word, source = Decode(opcode)
  PROVE  /\ NotReassembled(opcode) =>
               \A R \in SUBSET T!Instructions : T!Correct(R) => T!Words(R) # <<opcode>>
         /\ ~NotReassembled(opcode) =>
               /\ \E R \in SUBSET T!Instructions : T!Correct(R)
               /\ \A R \in SUBSET T!Instructions : T!Correct(R) => T!Words(R) = <<opcode>>
  <1>1. CASE source = <<Junk>> /\ NotReassembled(opcode)
    <2>1. 1 \in T!Shown
      <3>1. DOMAIN source = 1..1 /\ source[1] = Junk /\ \A q \in 1..1 : q = 1
        BY <1>1
      <3>2. Junk # Newline /\ Junk # Semicolon
        <4>1. Newline.type = "newline" /\ Semicolon.type = "semicolon" /\ Junk.type = "junk"
          BY DEF Newline, Semicolon, Junk, Token
        <4>2. QED
          BY <4>1
      <3>3. 1 \in DOMAIN source
        BY <3>1
      <3>4. QED
        BY <3>1, <3>2, <3>3 DEF T!Shown
    <2>2. Unrecognized(source[1])
      BY <1>1 DEF Unrecognized
    <2>3. \A R \in SUBSET T!Instructions : ~T!Correct(R)
      BY <2>1, <2>2 DEF T!Correct
    <2>4. QED
      BY <1>1, <2>3
  <1>2. CASE \E name, args : Answers(opcode, name, args)
    <2>1. PICK name, args : Answers(opcode, name, args)
      BY <1>2
    <2>2. PICK n, word : n = Len(args) /\ word = Encode(name, args, 0)
      OBVIOUS
    <2>3. /\ Described(name, args, n)
          /\ NotReassembled(opcode) <=> ~(Fits(name, args) /\ word = opcode)
      BY <2>1, <2>2 DEF Answers, Described
    <2>4. ASSUME NEW R \in SUBSET T!Instructions, T!Correct(R)
          PROVE  Fits(name, args) /\ T!Words(R) = <<word>>
      <3>1. R = {1} /\ Fits(name, args)
        BY <2>3, <2>4, TextRead
      <3>2. QED
        BY <2>2, <2>3, <3>1, TextWords
    <2>5. CASE NotReassembled(opcode)
      <3>1. ASSUME NEW R \in SUBSET T!Instructions, T!Correct(R), T!Words(R) = <<opcode>>
            PROVE  FALSE
        <4>1. Fits(name, args) /\ <<word>> = <<opcode>>
          BY <2>4, <3>1
        <4>2. word = opcode
          BY <4>1
        <4>3. QED
          BY <2>3, <2>5, <4>1, <4>2
      <3>2. QED
        BY <2>5, <3>1
    <2>6. CASE ~NotReassembled(opcode)
      <3>1. Fits(name, args) /\ word = opcode
        BY <2>3, <2>6
      <3>2. T!Correct({1})
        BY <2>3, <3>1, TextCorrect
      <3>3. {1} \in SUBSET T!Instructions
        BY <2>3, DescribedPieces
      <3>4. \A R \in SUBSET T!Instructions : T!Correct(R) => T!Words(R) = <<opcode>>
        BY <2>4, <3>1
      <3>5. QED
        BY <2>6, <3>2, <3>3, <3>4
    <2>7. QED
      BY <2>5, <2>6
  <1>3. QED
    BY <1>1, <1>2, Answered

LEMMA WrongJudged ==
  ASSUME Wrong, NEW opcode \in Opcodes, source = Decode(opcode)
  PROVE  NotReassembled(opcode)
  <1>1. opcode \in Word
    BY AsmAssumption
  <1>2. \A R \in SUBSET T!Instructions : ~T!Correct(R)
    BY DEF Wrong
  <1>3. QED
    BY <1>1, <1>2, TextOutcome

LEMMA SavedJudged ==
  ASSUME NEW R \in SUBSET T!Instructions, T!Correct(R), out = T!Words(R),
         NEW opcode \in Opcodes, source = Decode(opcode)
  PROVE  NotReassembled(opcode) <=> out # <<opcode>>
  <1>1. opcode \in Word
    BY AsmAssumption
  <1>2. QED
    BY <1>1, TextOutcome

\* A run that ends without a file.
LEMMA FailJudged ==
  ASSUME Wrong, UNCHANGED source, status' \in {"exited", "crashed"}
  PROVE  Reassembles'
  <1>1. ASSUME NEW opcode \in Opcodes, source = Decode(opcode)
        PROVE  NotReassembled(opcode)
    BY <1>1, WrongJudged
  <1>2. QED
    BY <1>1 DEF Reassembles

\* A step that does not end the run.
LEMMA GoesOnJudged ==
  ASSUME status' \notin {"saved", "exited", "crashed"}
  PROVE  Reassembles'
  BY DEF Reassembles

LEMMA StepReassembles == AInv /\ GInv /\ Reassembles /\ [Next]_vars => Reassembles'
  <1> SUFFICES ASSUME AInv, GInv, Reassembles, [Next]_vars PROVE Reassembles'
    OBVIOUS
  <1>1. CASE UNCHANGED vars
    BY <1>1 DEF vars, Reassembles
  <1>2. CASE StrToLines
    <2>1. /\ UNCHANGED source
          /\ \/ status' = "exited" /\ Scanned.long
             \/ status' \in {"wild", "reading"}
      BY <1>2 DEF StrToLines
    <2>2. QED
      BY <2>1, TooLongWrong, FailJudged, GoesOnJudged
  <1>3. CASE ReadLine
    <2>1. UNCHANGED source /\ status' \in {"exited", "reading"}
      BY <1>3 DEF ReadLine
    <2>2. QED
      BY <1>3, <2>1, UnrecognizedWrong, FailJudged, GoesOnJudged
  <1>4. CASE \/ ReadWild \/ NewLabel \/ ProcessInstruction \/ WrapPc
             \/ EndOfSource \/ FillBackpatch
    <2>1. status' \in {"reading", "wild", "wrapped", "patching"}
      BY <1>4 DEF ReadWild, NewLabel, ProcessInstruction, WrapPc, EndOfSource,
                  FillBackpatch, At
    <2>2. QED
      BY <2>1, GoesOnJudged
  <1>5. CASE RejectOperand \/ SyntaxError
    <2>1. status' \in {"exited", "crashed"} /\ UNCHANGED source
      BY <1>5 DEF RejectOperand, SyntaxError
    <2>2. QED
      BY <1>5, <2>1, TokenWrong, FailJudged
  <1>6. CASE LabelNotFound
    <2>1. status' = "exited" /\ UNCHANGED source
      BY <1>6 DEF LabelNotFound
    <2>2. QED
      BY <1>6, <2>1, LabelWrong, FailJudged
  <1>7. CASE OutputSave
    <2>1. status' = "saved" /\ UNCHANGED <<source, out>>
      BY <1>7 DEF OutputSave
    <2>2. PICK R \in SUBSET T!Instructions : T!Correct(R) /\ out = T!Words(R)
      BY <1>7, SavedRight
    <2>3. \A opcode \in Opcodes :
             source = Decode(opcode) => (NotReassembled(opcode) <=> out # <<opcode>>)
      BY <2>2, SavedJudged
    <2>4. QED
      BY <2>1, <2>3 DEF Reassembles
  <1>8. QED
    BY <1>1, <1>2, <1>3, <1>4, <1>5, <1>6, <1>7 DEF Next

\* Assembling the text that the disassembler prints of an instruction gives the
\* instruction back, for every opcode but the excepted ones, and for none of these.
THEOREM ReassemblyCorrect == Spec => []Reassembles
  <1>1. Init => Reassembles
    BY DEF Init, Reassembles
  <1>2. AInv /\ GInv /\ Reassembles /\ [Next]_vars => Reassembles'
    BY StepReassembles
  <1>3. QED
    BY <1>1, <1>2, Inductive, InductiveProgress, PTL DEF Spec

=============================================================================
