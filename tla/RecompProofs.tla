----------------------------- MODULE RecompProofs -----------------------------
(***************************************************************************)
(* TLAPS proofs about the printed and compiled program, for every set of ROMs *)
(* and tables and arenas of every size: its types, where its skips land, and  *)
(* that it implements the interpreter.                                     *)
(***************************************************************************)
EXTENDS RecompRefines, GrabProofs, FiniteSetTheorems

-----------------------------------------------------------------------------
(* The lines of a function, as equations.                                  *)

Lines == [type : {"if", "do", "end"}, at : Int, opcode : Word]

Line(f, type, n) == [type |-> type, at |-> Node(f, n), opcode |-> f.opcodes[n]]

\* The n-th instruction does not take another one with it.
Single(f, n) == n <= Size(f) /\ ~IsSkip(f.opcodes[n])

\* What is printed from the n-th instruction on, when `next` is printed from the one
\* behind it on and `after` from the second one behind it.
Parsed(f, n, next, after) ==
    IF Single(f, n) THEN << Line(f, "do", n) >> \o next
    ELSE IF Single(f, n + 1)
    THEN << Line(f, "if", n) >> \o << Line(f, "do", n + 1) >> \o << Line(f, "end", n) >> \o after
    ELSE << Line(f, "if", n) >> \o next \o << Line(f, "end", n) >>

\* g[n] is printed from the n-th instruction on.
Parses(f, g) ==
    /\ \A n \in 1..(Size(f) + 1) : g[n] \in Seq(Lines)
    /\ g[Size(f) + 1] = <<>>
    /\ \A n \in 1..Size(f) : g[n] = Parsed(f, n, g[n + 1], g[n + 2])

LEMMA FunctionFacts ==
  ASSUME NEW f \in Entries
  PROVE  /\ Size(f) \in Nat /\ f.offset \in Nat
         /\ f.opcodes \in Seq(Word) /\ DOMAIN f.opcodes = 1..Size(f)
         /\ \A n \in 1..Size(f) : f.opcodes[n] \in Word
         /\ \A n \in Int : Node(f, n) \in Int
  <1>1. f.offset \in Word /\ f.opcodes \in Seq(Word)
    BY DEF Entries
  <1>2. f.offset \in Nat
    BY <1>1, Ranges
  <1>3. Size(f) \in Nat /\ DOMAIN f.opcodes = 1..Size(f)
    BY <1>1 DEF Size
  <1>4. \A n \in 1..Size(f) : f.opcodes[n] \in Word
    BY <1>1 DEF Size
  <1>5. \A n \in Int : Node(f, n) \in Int
    BY <1>2 DEF Node
  <1>6. QED
    BY <1>1, <1>2, <1>3, <1>4, <1>5

LEMMA LineType ==
  ASSUME NEW f \in Entries, NEW n \in 1..Size(f), NEW type \in {"if", "do", "end"}
  PROVE  /\ Line(f, type, n) \in Lines
         /\ Line(f, type, n).type = type
         /\ Line(f, type, n).at = Node(f, n)
         /\ Line(f, type, n).opcode = f.opcodes[n]
  <1>1. f.opcodes[n] \in Word /\ Node(f, n) \in Int
    BY FunctionFacts
  <1>2. QED
    BY <1>1 DEF Line, Lines

LEMMA ParsedType ==
  ASSUME NEW f \in Entries, NEW n \in 1..Size(f), NEW next \in Seq(Lines), NEW after \in Seq(Lines)
  PROVE  Parsed(f, n, next, after) \in Seq(Lines)
  <1>1. Line(f, "do", n) \in Lines /\ Line(f, "if", n) \in Lines /\ Line(f, "end", n) \in Lines
    BY LineType
  <1>2. Single(f, n + 1) => n + 1 \in 1..Size(f)
    BY FunctionFacts DEF Single
  <1>3. Single(f, n + 1) => Line(f, "do", n + 1) \in Lines
    BY <1>2, LineType
  <1>4. \A line \in Lines : << line >> \in Seq(Lines)
    OBVIOUS
  <1>5. << Line(f, "do", n) >> \o next \in Seq(Lines)
    BY <1>1, <1>4, ConcatProperties
  <1>6. << Line(f, "if", n) >> \o next \o << Line(f, "end", n) >> \in Seq(Lines)
    BY <1>1, <1>4, ConcatProperties
  <1>7. Single(f, n + 1) =>
          << Line(f, "if", n) >> \o << Line(f, "do", n + 1) >> \o << Line(f, "end", n) >> \o after
             \in Seq(Lines)
    BY <1>1, <1>3, <1>4, ConcatProperties
  <1>8. QED
    BY <1>5, <1>6, <1>7 DEF Parsed

\* One round of the recursion in Body.
Round(f, g, n) ==
    IF n > Size(f) THEN <<>>
    ELSE IF Single(f, n) THEN << Line(f, "do", n) >> \o g[n + 1]
    ELSE << Line(f, "if", n) >>
             \o (IF Single(f, n + 1) THEN << Line(f, "do", n + 1) >> ELSE g[n + 1])
             \o << Line(f, "end", n) >> \o g[Behind(f, n + 1)]

LEMMA RoundParses ==
  ASSUME NEW f \in Entries, NEW g, NEW n \in 1..Size(f),
         \A k \in 1..(Size(f) + 1) : g[k] \in Seq(Lines), g[Size(f) + 1] = <<>>
  PROVE  Round(f, g, n) = Parsed(f, n, g[n + 1], g[n + 2])
  <1>0. Size(f) \in Nat
    BY FunctionFacts
  <1>1. n \in Nat /\ ~(n > Size(f)) /\ n + 1 \in 1..(Size(f) + 1) /\ (n + 1) + 1 = n + 2
    BY <1>0
  <1>2. CASE Single(f, n)
    BY <1>1, <1>2 DEF Round, Parsed
  <1>3. CASE ~Single(f, n) /\ Single(f, n + 1)
    <2>1. Behind(f, n + 1) = n + 2
      BY <1>1, <1>3 DEF Behind, Single, Size
    <2>2. QED
      BY <1>1, <1>3, <2>1 DEF Round, Parsed
  <1>4. CASE ~Single(f, n) /\ ~Single(f, n + 1)
    <2>1. Behind(f, n + 1) = Size(f) + 1
      BY <1>1, <1>4 DEF Behind, Single, Size
    <2> DEFINE q == << Line(f, "if", n) >> \o g[n + 1] \o << Line(f, "end", n) >>
    <2>2. q \in Seq(Lines)
      <3>1. g[n + 1] \in Seq(Lines)
        BY <1>1
      <3>2. << Line(f, "if", n) >> \in Seq(Lines) /\ << Line(f, "end", n) >> \in Seq(Lines)
        BY LineType
      <3>3. QED
        BY <3>1, <3>2, ConcatProperties
    <2>3. Round(f, g, n) = q \o <<>>
      BY <1>1, <1>4, <2>1 DEF Round
    <2>4. QED
      BY <1>4, <2>2, <2>3, ConcatEmptySeq DEF Parsed
  <1>5. QED
    BY <1>2, <1>3, <1>4

\* Body is the sequence from the first instruction on of one that meets the equations.
LEMMA BodyParses ==
  ASSUME NEW f \in Entries
  PROVE  \E g : Parses(f, g) /\ Body(f) = g[1]
  <1> DEFINE m == Size(f)
             P == [now : Seq(Lines), after : Seq(Lines)]
             none == [now |-> <<>>, after |-> <<>>]
             step == [k \in 1..m |-> [e \in P |->
                        [now |-> Parsed(f, m + 1 - k, e.now, e.after), after |-> e.now]]]
  <1>1. m \in Nat
    BY FunctionFacts
  <1>2. \A k \in 1..m : m + 1 - k \in 1..m
    BY <1>1
  <1>3. step \in [1..m -> [P -> P]]
    BY <1>2, ParsedType
  <1>4. none \in P
    OBVIOUS
  <1> HIDE DEF step
  <1>5. PICK h \in [0..m -> P] : Iterates(h, m, none, step)
    BY <1>1, <1>3, <1>4, Iteration
  <1> DEFINE g == [n \in 1..(m + 1) |-> h[m + 1 - n].now]
  <1>6. \A n \in 1..(m + 1) : m + 1 - n \in 0..m /\ g[n] = h[m + 1 - n].now
    BY <1>1
  <1>7. \A n \in 1..(m + 1) : g[n] \in Seq(Lines)
    BY <1>5, <1>6
  <1>8. g[m + 1] = <<>>
    <2>1. m + 1 - (m + 1) = 0 /\ m + 1 \in 1..(m + 1)
      BY <1>1
    <2>2. h[0] = none
      BY <1>5 DEF Iterates
    <2>3. QED
      BY <1>6, <2>1, <2>2
  <1>9. ASSUME NEW n \in 1..m PROVE g[n] = Parsed(f, n, g[n + 1], g[n + 2])
    <2> DEFINE k == m + 1 - n
    <2>1. /\ k \in 1..m /\ k - 1 \in 0..m /\ m + 1 - k = n /\ m + 1 - (n + 1) = k - 1
          /\ n + 1 \in 1..(m + 1) /\ n \in 1..(m + 1)
      BY <1>1
    <2>2. h[k - 1] \in P /\ g[n + 1] = h[k - 1].now /\ g[n] = h[k].now
      BY <1>5, <1>6, <2>1
    <2>3. h[k] = [now |-> Parsed(f, n, h[k - 1].now, h[k - 1].after), after |-> h[k - 1].now]
      BY <1>5, <2>1, <2>2 DEF Iterates, step
    <2>4. Single(f, n + 1) => h[k - 1].after = g[n + 2]
      <3> SUFFICES ASSUME Single(f, n + 1) PROVE h[k - 1].after = g[n + 2]
        OBVIOUS
      <3>1. n + 1 <= m
        BY DEF Single
      <3>2. /\ k - 1 \in 1..m /\ (k - 1) - 1 \in 0..m /\ m + 1 - (n + 2) = (k - 1) - 1
            /\ n + 2 \in 1..(m + 1)
        BY <1>1, <2>1, <3>1
      <3>3. h[(k - 1) - 1] \in P /\ g[n + 2] = h[(k - 1) - 1].now
        BY <1>5, <1>6, <3>2
      <3>4. h[k - 1] = step[k - 1][h[(k - 1) - 1]]
        BY <1>5, <3>2 DEF Iterates
      <3>5. QED
        BY <3>2, <3>3, <3>4 DEF step
    <2> HIDE DEF g, k
    <2>5. g[n] = Parsed(f, n, g[n + 1], h[k - 1].after)
      BY <2>2, <2>3
    <2>6. QED
      BY <2>4, <2>5 DEF Parsed
  <1>10. g = [n \in 1..(m + 1) |-> Round(f, g, n)]
    <2>1. \A n \in 1..(m + 1) : n = m + 1 \/ n \in 1..m
      BY <1>1
    <2>2. Round(f, g, m + 1) = <<>>
      BY <1>1 DEF Round
    <2>3. \A n \in 1..m : g[n] = Round(f, g, n)
      BY <1>7, <1>8, <1>9, RoundParses
    <2>4. \A n \in 1..(m + 1) : g[n] = Round(f, g, n)
      BY <1>8, <2>1, <2>2, <2>3
    <2>5. DOMAIN g = 1..(m + 1) /\ g = [n \in 1..(m + 1) |-> g[n]]
      OBVIOUS
    <2> HIDE DEF g
    <2>6. QED
      BY <2>4, <2>5
  <1> HIDE DEF g
  <1> DEFINE parse == CHOOSE x : x = [n \in 1..(m + 1) |-> Round(f, x, n)]
  <1>11. parse = [n \in 1..(m + 1) |-> Round(f, parse, n)]
    BY <1>10
  <1>12. Body(f) = parse[1]
    BY DEF Body, Round, Single, Line, Node, Size
  <1> HIDE DEF parse
  <1> DEFINE Q == { k \in Nat : \A n \in (m + 1 - k)..(m + 1) : n \in 1..(m + 1) => parse[n] = g[n] }
  <1>13. \A n \in 1..(m + 1) : parse[n] = Round(f, parse, n) /\ g[n] = Round(f, g, n)
    BY <1>10, <1>11
  <1>14. 0 \in Q
    <2>1. \A n \in (m + 1 - 0)..(m + 1) : n = m + 1
      BY <1>1
    <2>2. m + 1 \in 1..(m + 1) /\ m + 1 > m
      BY <1>1
    <2>3. parse[m + 1] = <<>> /\ g[m + 1] = <<>>
      BY <1>13, <2>2 DEF Round
    <2>4. QED
      BY <2>1, <2>3
  <1>15. ASSUME NEW k \in 1..m, k - 1 \in Q PROVE k \in Q
    <2> DEFINE n == m + 1 - k
    <2>1. /\ n \in 1..(m + 1) /\ n + 1 \in 1..(m + 1) /\ k \in Nat /\ n <= m
          /\ \A j \in (m + 1 - k)..(m + 1) : j = n \/ j \in (m + 1 - (k - 1))..(m + 1)
          /\ n + 1 \in (m + 1 - (k - 1))..(m + 1)
      BY <1>1
    <2>2. \A j \in (m + 1 - (k - 1))..(m + 1) : j \in 1..(m + 1) => parse[j] = g[j]
      BY <1>15
    <2>3. parse[n + 1] = g[n + 1]
      BY <2>1, <2>2
    <2>4. Behind(f, n + 1) = m + 1 \/ (Behind(f, n + 1) = n + 2 /\ n + 1 <= m)
      BY DEF Behind, Size
    <2>5. Behind(f, n + 1) \in (m + 1 - (k - 1))..(m + 1) /\ Behind(f, n + 1) \in 1..(m + 1)
      BY <1>1, <2>4
    <2>6. parse[Behind(f, n + 1)] = g[Behind(f, n + 1)]
      BY <2>2, <2>5
    <2> HIDE DEF n
    <2>7. parse[n] = g[n]
      BY <1>13, <2>1, <2>3, <2>6 DEF Round
    <2>8. QED
      BY <2>1, <2>2, <2>7
  <1> HIDE DEF Q
  <1>16. m \in Q
    <2>1. m \in 0..m
      BY <1>1
    <2>2. QED
      BY <1>1, <1>14, <1>15, <2>1, UpTo
  <1>17. \A n \in 1..(m + 1) : n \in (m + 1 - m)..(m + 1)
    BY <1>1
  <1>18. \A n \in 1..(m + 1) : parse[n] = g[n]
    BY <1>16, <1>17 DEF Q
  <1>19. 1 \in 1..(m + 1)
    BY <1>1
  <1>20. Parses(f, g)
    BY <1>7, <1>8, <1>9 DEF Parses
  <1>21. QED
    BY <1>12, <1>18, <1>19, <1>20

-----------------------------------------------------------------------------
(* The order of the lines.                                                 *)

Skips(f, n) == { j \in n..Size(f) : IsSkip(f.opcodes[j]) }

\* The line of the j-th instruction.
Main(f, j) == Line(f, IF IsSkip(f.opcodes[j]) THEN "if" ELSE "do", j)

\* The k-th instruction is inside the braces of the j-th or in front of them: those
\* of a skip close behind the instruction that it skips, or at the end.
Within(f, j, k) == Single(f, j + 1) => k <= j + 1

\* q has the lines from the n-th instruction on: the j-th instruction at pos[j], in
\* their order, and the end of the j-th at fin[j].
Arranged(f, n, q, pos, fin) ==
    /\ \A j \in n..Size(f) : pos[j] \in 1..Len(q) /\ q[pos[j]] = Main(f, j)
    /\ \A j \in Skips(f, n) : fin[j] \in 1..Len(q) /\ q[fin[j]] = Line(f, "end", j)
    /\ \A p \in 1..Len(q) : \/ \E j \in n..Size(f) : p = pos[j]
                            \/ \E j \in Skips(f, n) : p = fin[j]
    /\ \A j, k \in n..Size(f) : j < k => pos[j] < pos[k]
    /\ \A j \in Skips(f, n) : \A k \in n..Size(f) : pos[k] < fin[j] <=> Within(f, j, k)

\* The lines of the instructions n to o - 1 in r, whose lines c + 1 to c + d are
\* those of the instructions from o on.
Around(f, n, o, r, c, d, pos, fin) ==
    /\ \A j \in n..(o - 1) : pos[j] \in 1..c /\ r[pos[j]] = Main(f, j)
    /\ \A j \in Skips(f, n) : j < o => fin[j] \in 1..Len(r) /\ r[fin[j]] = Line(f, "end", j)
    /\ \A j \in Skips(f, n) : j < o => \A k \in n..(o - 1) : pos[k] < fin[j] <=> Within(f, j, k)
    /\ \A j \in Skips(f, n) : j < o =>
          \/ fin[j] <= c /\ \A k \in o..Size(f) : ~Within(f, j, k)
          \/ fin[j] > c + d /\ \A k \in o..Size(f) : Within(f, j, k)
    /\ \A p \in 1..Len(r) : (p <= c \/ p > c + d) =>
          \/ \E j \in n..(o - 1) : p = pos[j]
          \/ \E j \in Skips(f, n) : j < o /\ p = fin[j]
    /\ \A j, k \in n..(o - 1) : j < k => pos[j] < pos[k]

LEMMA ArrangeAround ==
  ASSUME NEW f \in Entries, NEW n \in 1..Size(f), NEW o \in (n + 1)..(Size(f) + 1),
         NEW q, NEW r, NEW c \in Nat, Len(q) \in Nat, Len(r) \in Nat, c + Len(q) <= Len(r),
         \A p \in 1..Len(q) : r[p + c] = q[p],
         NEW pos, NEW fin, Arranged(f, o, q, pos, fin),
         NEW pos1, NEW fin1, Around(f, n, o, r, c, Len(q), pos1, fin1)
  PROVE  \E pos2, fin2 : Arranged(f, n, r, pos2, fin2)
  <1> DEFINE m == Size(f)
             d == Len(q)
             e == Len(r)
             pos2 == [j \in n..m |-> IF j < o THEN pos1[j] ELSE pos[j] + c]
             fin2 == [j \in n..m |-> IF j < o THEN fin1[j] ELSE fin[j] + c]
  <1>1. m \in Nat /\ n \in Nat /\ n <= m /\ o \in Nat /\ n < o /\ o <= m + 1
        /\ d \in Nat /\ e \in Nat /\ c + d <= e
    <2>1. m \in Nat
      BY FunctionFacts
    <2>2. QED
      BY <2>1
  <1>2. /\ \A j \in n..m : \/ j \in n..(o - 1) /\ j < o
                           \/ j \in o..m /\ ~(j < o)
        /\ \A j \in o..m : j \in n..m /\ ~(j < o)
        /\ \A j \in n..(o - 1) : j \in n..m /\ j < o
    BY <1>1
  <1>3. /\ \A j \in o..m : pos[j] \in 1..d /\ q[pos[j]] = Main(f, j)
        /\ \A j \in Skips(f, o) : fin[j] \in 1..d /\ q[fin[j]] = Line(f, "end", j)
    BY DEF Arranged
  <1>4. \A p \in 1..d : \/ \E j \in o..m : p = pos[j]
                        \/ \E j \in Skips(f, o) : p = fin[j]
    BY DEF Arranged
  <1>5. \A j, k \in o..m : j < k => pos[j] < pos[k]
    BY DEF Arranged
  <1>6. \A j \in Skips(f, o) : \A k \in o..m : pos[k] < fin[j] <=> Within(f, j, k)
    BY DEF Arranged
  <1>7. /\ \A j \in n..(o - 1) : pos1[j] \in 1..c /\ r[pos1[j]] = Main(f, j)
        /\ \A j \in Skips(f, n) : j < o => fin1[j] \in 1..e /\ r[fin1[j]] = Line(f, "end", j)
    BY DEF Around
  <1>8. \A j \in Skips(f, n) : \/ j \in Skips(f, o) /\ j \in o..m /\ ~(j < o)
                               \/ j \in n..(o - 1) /\ j < o
    <2>1. \A j \in Skips(f, n) : j \in n..m /\ (j \in o..m => j \in Skips(f, o))
      BY DEF Skips
    <2>2. QED
      BY <1>2, <2>1
  <1>9. \A j \in Skips(f, o) : j \in Skips(f, n) /\ j \in o..m
    BY <1>2 DEF Skips
  <1>10. /\ \A j \in n..(o - 1) : pos2[j] = pos1[j] /\ fin2[j] = fin1[j]
         /\ \A j \in o..m : pos2[j] = pos[j] + c /\ fin2[j] = fin[j] + c
    BY <1>2
  <1>11. \A p \in 1..d : r[p + c] = q[p] /\ p + c \in 1..e
    BY <1>1
  <1> HIDE DEF d, e, pos2, fin2
  <1>0. /\ \A a \in 1..c : a \in 1..e
        /\ \A a \in 1..c, b \in 1..d : a < b + c
        /\ \A a \in 1..d, b \in 1..d : a + c < b + c <=> a < b
        /\ \A a \in 1..e, b \in 1..d : (a <= c => ~(b + c < a)) /\ (a > c + d => b + c < a)
    BY <1>1
  <1>12. \A j \in n..m : pos2[j] \in 1..e /\ r[pos2[j]] = Main(f, j)
    <2>1. ASSUME NEW j \in n..(o - 1) PROVE pos2[j] \in 1..e /\ r[pos2[j]] = Main(f, j)
      BY <1>0, <1>7, <1>10
    <2>2. ASSUME NEW j \in o..m PROVE pos2[j] \in 1..e /\ r[pos2[j]] = Main(f, j)
      <3>1. pos2[j] = pos[j] + c /\ pos[j] \in 1..d /\ q[pos[j]] = Main(f, j)
        BY <1>3, <1>10
      <3>2. QED
        BY <1>11, <3>1
    <2>3. QED
      BY <1>2, <2>1, <2>2
  <1>13. \A j \in Skips(f, n) : fin2[j] \in 1..e /\ r[fin2[j]] = Line(f, "end", j)
    <2>1. ASSUME NEW j \in Skips(f, o)
          PROVE  fin2[j] \in 1..e /\ r[fin2[j]] = Line(f, "end", j)
      <3>1. fin2[j] = fin[j] + c /\ fin[j] \in 1..d /\ q[fin[j]] = Line(f, "end", j)
        BY <1>3, <1>9, <1>10
      <3>2. QED
        BY <1>11, <3>1
    <2>2. ASSUME NEW j \in Skips(f, n), j \in n..(o - 1), j < o
          PROVE  fin2[j] \in 1..e /\ r[fin2[j]] = Line(f, "end", j)
      BY <1>7, <1>10, <2>2
    <2>3. QED
      BY <1>8, <2>1, <2>2
  <1>14. ASSUME NEW p \in 1..e
         PROVE  \/ \E j \in n..m : p = pos2[j]
                \/ \E j \in Skips(f, n) : p = fin2[j]
    <2>1. CASE p <= c \/ p > c + d
      <3>1. \/ \E j \in n..(o - 1) : p = pos1[j]
            \/ \E j \in Skips(f, n) : j < o /\ p = fin1[j]
        BY <2>1 DEF Around, d, e
      <3>2. CASE \E j \in n..(o - 1) : p = pos1[j]
        BY <1>2, <1>10, <3>2
      <3>3. CASE \E j \in Skips(f, n) : j < o /\ p = fin1[j]
        BY <1>8, <1>10, <3>3
      <3>4. QED
        BY <3>1, <3>2, <3>3
    <2>2. CASE ~(p <= c) /\ ~(p > c + d)
      <3>1. \E u \in 1..d : p = u + c
        <4>1. p - c \in 1..d /\ p = (p - c) + c
          BY <1>1, <2>2
        <4>2. QED
          BY <4>1
      <3>2. PICK u \in 1..d : p = u + c
        BY <3>1
      <3>3. CASE \E j \in o..m : u = pos[j]
        BY <1>2, <1>10, <3>2, <3>3
      <3>4. CASE \E j \in Skips(f, o) : u = fin[j]
        BY <1>9, <1>10, <3>2, <3>4
      <3>5. QED
        BY <1>4, <3>3, <3>4
    <2>3. QED
      BY <2>1, <2>2
  <1>15. ASSUME NEW j \in n..m, NEW k \in n..m, j < k PROVE pos2[j] < pos2[k]
    <2>1. CASE k \in n..(o - 1)
      <3>1. j \in n..(o - 1)
        BY <1>1, <1>15, <2>1
      <3>2. pos1[j] < pos1[k]
        BY <1>15, <2>1, <3>1 DEF Around
      <3>3. QED
        BY <1>10, <2>1, <3>1, <3>2
    <2>2. CASE k \in o..m /\ j \in n..(o - 1)
      <3>1. pos2[j] = pos1[j] /\ pos1[j] \in 1..c /\ pos2[k] = pos[k] + c /\ pos[k] \in 1..d
        BY <1>3, <1>7, <1>10, <2>2
      <3>2. QED
        BY <1>0, <3>1
    <2>3. CASE k \in o..m /\ j \in o..m
      <3>1. pos[j] < pos[k] /\ pos[j] \in 1..d /\ pos[k] \in 1..d
        BY <1>3, <1>5, <1>15, <2>3
      <3>2. pos2[j] = pos[j] + c /\ pos2[k] = pos[k] + c
        BY <1>10, <2>3
      <3>3. QED
        BY <1>0, <3>1, <3>2
    <2>4. QED
      BY <1>2, <2>1, <2>2, <2>3
  <1>16. ASSUME NEW j \in Skips(f, n), NEW k \in n..m
         PROVE  pos2[k] < fin2[j] <=> Within(f, j, k)
    <2>1. CASE j \in Skips(f, o) /\ k \in n..(o - 1)
      <3>1. /\ fin2[j] = fin[j] + c /\ fin[j] \in 1..d /\ j \in o..m
            /\ pos2[k] = pos1[k] /\ pos1[k] \in 1..c
        BY <1>3, <1>7, <1>9, <1>10, <2>1
      <3>2. k <= j + 1 /\ pos2[k] < fin2[j]
        BY <1>1, <2>1, <3>1
      <3>3. QED
        BY <3>2 DEF Within
    <2>2. CASE j \in Skips(f, o) /\ k \in o..m
      <3>1. fin2[j] = fin[j] + c /\ fin[j] \in 1..d /\ pos2[k] = pos[k] + c /\ pos[k] \in 1..d
        BY <1>3, <1>9, <1>10, <2>2
      <3>2. pos2[k] < fin2[j] <=> pos[k] < fin[j]
        BY <1>0, <3>1
      <3>3. QED
        BY <1>6, <2>2, <3>2
    <2>3. CASE j \in n..(o - 1) /\ j < o /\ k \in n..(o - 1)
      <3>1. fin2[j] = fin1[j] /\ pos2[k] = pos1[k]
        BY <1>10, <2>3
      <3>2. QED
        BY <2>3, <3>1 DEF Around
    <2>4. CASE j \in n..(o - 1) /\ j < o /\ k \in o..m
      <3>1. fin2[j] = fin1[j] /\ fin1[j] \in 1..e /\ pos2[k] = pos[k] + c /\ pos[k] \in 1..d
        BY <1>3, <1>7, <1>10, <2>4
      <3>2. \/ fin1[j] <= c /\ ~Within(f, j, k)
            \/ fin1[j] > c + d /\ Within(f, j, k)
        BY <2>4 DEF Around, d
      <3>3. fin1[j] <= c => ~(pos2[k] < fin2[j])
        BY <1>0, <3>1
      <3>4. fin1[j] > c + d => pos2[k] < fin2[j]
        BY <1>0, <3>1
      <3>5. QED
        BY <3>2, <3>3, <3>4
    <2>5. QED
      BY <1>2, <1>8, <2>1, <2>2, <2>3, <2>4
  <1>17. Arranged(f, n, r, pos2, fin2)
    BY <1>12, <1>13, <1>14, <1>15, <1>16 DEF Arranged, e
  <1>18. QED
    BY <1>17

LEMMA Before ==
  ASSUME NEW S, NEW q \in Seq(S), NEW a \in S
  PROVE  /\ << a >> \o q \in Seq(S) /\ Len(<< a >> \o q) = Len(q) + 1
         /\ (<< a >> \o q)[1] = a
         /\ \A p \in 1..Len(q) : (<< a >> \o q)[p + 1] = q[p]
  <1> DEFINE s == << a >>
  <1>1. s \in Seq(S) /\ Len(s) = 1 /\ s[1] = a /\ Len(q) \in Nat
    BY LenProperties
  <1> HIDE DEF s
  <1>2. /\ s \o q \in Seq(S) /\ Len(s \o q) = Len(s) + Len(q)
        /\ \A k \in 1..(Len(s) + Len(q)) :
              (s \o q)[k] = IF k <= Len(s) THEN s[k] ELSE q[k - Len(s)]
    BY <1>1, ConcatProperties
  <1>3. (s \o q)[1] = a
    BY <1>1, <1>2
  <1>4. ASSUME NEW p \in 1..Len(q) PROVE (s \o q)[p + 1] = q[p]
    <2>1. p + 1 \in 1..(Len(s) + Len(q)) /\ ~(p + 1 <= Len(s)) /\ (p + 1) - Len(s) = p
      BY <1>1
    <2>2. QED
      BY <1>2, <2>1
  <1>5. Len(s \o q) = Len(q) + 1
    BY <1>1, <1>2
  <1>6. QED
    BY <1>2, <1>3, <1>4, <1>5 DEF s

LEMMA Behind1 ==
  ASSUME NEW S, NEW q \in Seq(S), NEW a \in S
  PROVE  /\ q \o << a >> \in Seq(S) /\ Len(q \o << a >>) = Len(q) + 1
         /\ (q \o << a >>)[Len(q) + 1] = a
         /\ \A p \in 1..Len(q) : (q \o << a >>)[p] = q[p]
  <1> DEFINE s == << a >>
  <1>1. s \in Seq(S) /\ Len(s) = 1 /\ s[1] = a /\ Len(q) \in Nat
    BY LenProperties
  <1> HIDE DEF s
  <1>2. /\ q \o s \in Seq(S) /\ Len(q \o s) = Len(q) + Len(s)
        /\ \A k \in 1..(Len(q) + Len(s)) :
              (q \o s)[k] = IF k <= Len(q) THEN q[k] ELSE s[k - Len(q)]
    BY <1>1, ConcatProperties
  <1>3. (q \o s)[Len(q) + 1] = a
    <2>1. Len(q) + 1 \in 1..(Len(q) + Len(s)) /\ ~(Len(q) + 1 <= Len(q)) /\ (Len(q) + 1) - Len(q) = 1
      BY <1>1
    <2>2. QED
      BY <1>1, <1>2, <2>1
  <1>4. ASSUME NEW p \in 1..Len(q) PROVE (q \o s)[p] = q[p]
    <2>1. p \in 1..(Len(q) + Len(s)) /\ p <= Len(q)
      BY <1>1
    <2>2. QED
      BY <1>2, <2>1
  <1>5. QED
    BY <1>1, <1>2, <1>3, <1>4 DEF s

HasOrder(f, n, q) == \E pos, fin : Arranged(f, n, q, pos, fin)

\* An instruction that is not a skip, in front of the others.
LEMMA OrderDo ==
  ASSUME NEW f \in Entries, NEW n \in 1..Size(f), Single(f, n),
         NEW q \in Seq(Lines), HasOrder(f, n + 1, q)
  PROVE  HasOrder(f, n, << Line(f, "do", n) >> \o q)
  <1> DEFINE r == << Line(f, "do", n) >> \o q
             pos1 == [j \in n..n |-> 1]
             fin1 == pos1
  <1>1. /\ Len(r) = Len(q) + 1 /\ r[1] = Line(f, "do", n)
        /\ \A p \in 1..Len(q) : r[p + 1] = q[p]
    BY LineType, Before
  <1>2. Size(f) \in Nat /\ Len(q) \in Nat
    BY FunctionFacts, LenProperties
  <1>3. /\ (n + 1) - 1 = n /\ n + 1 \in (n + 1)..(Size(f) + 1)
        /\ \A j \in n..n : j = n
        /\ 1 \in 1..1 /\ 1 + Len(q) <= Len(r) /\ Len(r) \in Nat
        /\ \A p \in 1..Len(r) : (p <= 1 \/ p > 1 + Len(q)) => p = 1
        /\ \A j \in n..Size(f) : j < n + 1 => j = n
        /\ n \in n..n
    BY <1>1, <1>2
  <1>4. pos1[n] = 1
    BY <1>3
  <1>5. Main(f, n) = Line(f, "do", n)
    BY DEF Single, Main
  <1>6. \A j \in Skips(f, n) : ~(j < n + 1)
    BY <1>3 DEF Skips, Single
  <1> HIDE DEF r, pos1
  <1>7. Around(f, n, n + 1, r, 1, Len(q), pos1, fin1)
    BY <1>1, <1>3, <1>4, <1>5, <1>6 DEF Around
  <1>8. QED
    BY <1>1, <1>2, <1>3, <1>7, ArrangeAround DEF HasOrder, r

\* A skip in front of another, or the last instruction: its braces are around all
\* that follows.
LEMMA OrderNest ==
  ASSUME NEW f \in Entries, NEW n \in 1..Size(f), ~Single(f, n), ~Single(f, n + 1),
         NEW q \in Seq(Lines), HasOrder(f, n + 1, q)
  PROVE  HasOrder(f, n, << Line(f, "if", n) >> \o q \o << Line(f, "end", n) >>)
  <1> DEFINE r1 == << Line(f, "if", n) >> \o q
             r  == r1 \o << Line(f, "end", n) >>
             pos1 == [j \in n..n |-> 1]
             fin1 == [j \in n..n |-> Len(q) + 2]
  <1>1. /\ r1 \in Seq(Lines) /\ Len(r1) = Len(q) + 1 /\ r1[1] = Line(f, "if", n)
        /\ \A p \in 1..Len(q) : r1[p + 1] = q[p]
    BY LineType, Before
  <1>2. Size(f) \in Nat /\ Len(q) \in Nat
    BY FunctionFacts, LenProperties
  <1> HIDE DEF r1
  <1>3. /\ Len(r) = Len(r1) + 1 /\ r[Len(r1) + 1] = Line(f, "end", n)
        /\ \A p \in 1..Len(r1) : r[p] = r1[p]
    BY <1>1, LineType, Behind1
  <1>4. /\ Len(r1) + 1 = Len(q) + 2 /\ 1 \in 1..Len(r1)
        /\ \A p \in 1..Len(q) : p + 1 \in 1..Len(r1)
    BY <1>1, <1>2
  <1> HIDE DEF r
  <1>5. /\ Len(r) = Len(q) + 2 /\ r[1] = Line(f, "if", n) /\ r[Len(q) + 2] = Line(f, "end", n)
        /\ \A p \in 1..Len(q) : r[p + 1] = q[p]
    BY <1>1, <1>3, <1>4
  <1>6. /\ (n + 1) - 1 = n /\ n + 1 \in (n + 1)..(Size(f) + 1)
        /\ \A j \in n..n : j = n
        /\ 1 \in 1..1 /\ 1 + Len(q) <= Len(r) /\ Len(r) \in Nat
        /\ \A p \in 1..Len(r) : (p <= 1 \/ p > 1 + Len(q)) => p = 1 \/ p = Len(q) + 2
        /\ \A j \in n..Size(f) : j < n + 1 => j = n
        /\ n \in n..n /\ n < n + 1 /\ n \in n..Size(f)
        /\ Len(q) + 2 \in 1..Len(r) /\ Len(q) + 2 > 1 + Len(q) /\ 1 < Len(q) + 2
    BY <1>2, <1>5
  <1>7. pos1[n] = 1 /\ fin1[n] = Len(q) + 2
    BY <1>6
  <1>8. IsSkip(f.opcodes[n])
    BY <1>2 DEF Single
  <1>9. n \in Skips(f, n) /\ \A j \in Skips(f, n) : j < n + 1 => j = n
    BY <1>6, <1>8 DEF Skips
  <1>10. Main(f, n) = Line(f, "if", n)
    BY <1>8 DEF Main
  <1>11. \A k : Within(f, n, k)
    BY DEF Within
  <1> HIDE DEF pos1, fin1
  <1>12. Around(f, n, n + 1, r, 1, Len(q), pos1, fin1)
    BY <1>5, <1>6, <1>7, <1>9, <1>10, <1>11 DEF Around
  <1>13. QED
    BY <1>2, <1>5, <1>6, <1>12, ArrangeAround DEF HasOrder, r, r1

\* A skip in front of another instruction: the braces are around that one.
LEMMA OrderSkip ==
  ASSUME NEW f \in Entries, NEW n \in 1..Size(f), ~Single(f, n), Single(f, n + 1),
         NEW q \in Seq(Lines), HasOrder(f, n + 2, q)
  PROVE  HasOrder(f, n, << Line(f, "if", n) >> \o << Line(f, "do", n + 1) >>
                            \o << Line(f, "end", n) >> \o q)
  <1> DEFINE open  == Line(f, "if", n)
             do    == Line(f, "do", n + 1)
             close == Line(f, "end", n)
             one   == << open >>
             two   == one \o << do >>
             three == two \o << close >>
             r     == three \o q
             pos1 == [j \in n..(n + 1) |-> j - n + 1]
             fin1 == [j \in n..(n + 1) |-> 3]
  <1>1. Size(f) \in Nat /\ Len(q) \in Nat
    BY FunctionFacts, LenProperties
  <1>2. n \in Nat /\ n + 1 <= Size(f) /\ n + 1 \in 1..Size(f)
    BY <1>1 DEF Single
  <1>3. open \in Lines /\ do \in Lines /\ close \in Lines
    BY <1>2, LineType
  <1> HIDE DEF open, do, close
  <1>4. one \in Seq(Lines) /\ Len(one) = 1 /\ one[1] = open
    BY <1>3
  <1> HIDE DEF one
  <1>5. /\ two \in Seq(Lines) /\ Len(two) = 2 /\ two[2] = do
        /\ two[1] = open
    <2>1. /\ two \in Seq(Lines) /\ Len(two) = Len(one) + 1
          /\ two[Len(one) + 1] = do
          /\ \A p \in 1..Len(one) : two[p] = one[p]
      <3>1. one \in Seq(Lines)
        BY <1>4
      <3>2. do \in Lines
        BY <1>3
      <3>3. QED
        BY <3>1, <3>2, Behind1
    <2> HIDE DEF two
    <2>2. Len(one) + 1 = 2 /\ 1 \in 1..Len(one)
      BY <1>4
    <2>3. QED
      BY <1>4, <2>1, <2>2
  <1> HIDE DEF two
  <1>6. /\ three \in Seq(Lines) /\ Len(three) = 3 /\ three[3] = close
        /\ three[2] = do /\ three[1] = open
    <2>1. /\ three \in Seq(Lines) /\ Len(three) = Len(two) + 1
          /\ three[Len(two) + 1] = close
          /\ \A p \in 1..Len(two) : three[p] = two[p]
      <3>1. two \in Seq(Lines)
        BY <1>5
      <3>2. close \in Lines
        BY <1>3
      <3>3. QED
        BY <3>1, <3>2, Behind1
    <2> HIDE DEF three
    <2>2. Len(two) + 1 = 3 /\ 1 \in 1..Len(two) /\ 2 \in 1..Len(two)
      BY <1>5
    <2>3. QED
      BY <1>5, <2>1, <2>2
  <1> HIDE DEF three
  <1>7. /\ Len(r) = Len(three) + Len(q)
        /\ \A k \in 1..(Len(three) + Len(q)) :
              r[k] = IF k <= Len(three) THEN three[k] ELSE q[k - Len(three)]
    BY <1>6, ConcatProperties
  <1> HIDE DEF r
  <1>8. /\ Len(r) = 3 + Len(q) /\ r[1] = open /\ r[2] = do
        /\ r[3] = close
    BY <1>1, <1>6, <1>7
  <1>9. ASSUME NEW p \in 1..Len(q) PROVE r[p + 3] = q[p]
    <2>1. p + 3 \in 1..(Len(three) + Len(q)) /\ ~(p + 3 <= Len(three)) /\ (p + 3) - Len(three) = p
      BY <1>1, <1>6
    <2>2. QED
      BY <1>7, <2>1
  <1>10. /\ (n + 2) - 1 = n + 1 /\ n + 2 \in (n + 1)..(Size(f) + 1)
         /\ \A j \in n..(n + 1) : j = n \/ j = n + 1
         /\ n \in n..(n + 1) /\ n + 1 \in n..(n + 1)
         /\ 1 \in 1..3 /\ 2 \in 1..3 /\ 3 <= 3 /\ 3 \in 1..Len(r) /\ 3 \in Nat
         /\ 3 + Len(q) <= Len(r) /\ Len(r) \in Nat
         /\ \A p \in 1..Len(r) : (p <= 3 \/ p > 3 + Len(q)) => p = 1 \/ p = 2 \/ p = 3
         /\ \A j \in n..Size(f) : j < n + 2 => j = n \/ j = n + 1
         /\ n < n + 2 /\ n \in n..Size(f) /\ n - n + 1 = 1 /\ (n + 1) - n + 1 = 2
         /\ 1 < 3 /\ 2 < 3 /\ n <= n + 1 /\ ~(n < n) /\ ~(n + 1 < n + 1) /\ ~(n + 1 < n) /\ 1 < 2
         /\ \A k \in (n + 2)..Size(f) : ~(k <= n + 1)
    BY <1>1, <1>2, <1>8
  <1>11. pos1[n] = 1 /\ pos1[n + 1] = 2 /\ fin1[n] = 3
    BY <1>10
  <1>12. IsSkip(f.opcodes[n]) /\ ~IsSkip(f.opcodes[n + 1])
    BY <1>1, <1>2 DEF Single
  <1>13. n \in Skips(f, n) /\ \A j \in Skips(f, n) : j < n + 2 => j = n
    BY <1>10, <1>12 DEF Skips
  <1>14. Main(f, n) = Line(f, "if", n) /\ Main(f, n + 1) = Line(f, "do", n + 1)
    BY <1>12 DEF Main
  <1>15. Within(f, n, n) /\ Within(f, n, n + 1) /\ \A k \in (n + 2)..Size(f) : ~Within(f, n, k)
    BY <1>10 DEF Within
  <1> HIDE DEF pos1, fin1
  <1>16. /\ \A j \in n..((n + 2) - 1) : pos1[j] \in 1..3 /\ r[pos1[j]] = Main(f, j)
         /\ \A j, k \in n..((n + 2) - 1) : j < k => pos1[j] < pos1[k]
    BY <1>8, <1>10, <1>11, <1>14 DEF open, do
  <1>17. /\ \A j \in Skips(f, n) : j < n + 2 => fin1[j] \in 1..Len(r) /\ r[fin1[j]] = Line(f, "end", j)
         /\ \A j \in Skips(f, n) : j < n + 2 =>
               \A k \in n..((n + 2) - 1) : pos1[k] < fin1[j] <=> Within(f, j, k)
         /\ \A j \in Skips(f, n) : j < n + 2 =>
               fin1[j] <= 3 /\ \A k \in (n + 2)..Size(f) : ~Within(f, j, k)
    BY <1>8, <1>10, <1>11, <1>13, <1>15 DEF close
  <1>18. \A p \in 1..Len(r) : (p <= 3 \/ p > 3 + Len(q)) =>
            \/ \E j \in n..((n + 2) - 1) : p = pos1[j]
            \/ \E j \in Skips(f, n) : j < n + 2 /\ p = fin1[j]
    BY <1>10, <1>11, <1>13
  <1>19. Around(f, n, n + 2, r, 3, Len(q), pos1, fin1)
    BY <1>16, <1>17, <1>18 DEF Around
  <1>20. QED
    BY <1>1, <1>8, <1>9, <1>10, <1>19, ArrangeAround DEF HasOrder, r, three, two, one, open, do, close

\* Nothing is printed behind the last instruction.
LEMMA OrderNone ==
  ASSUME NEW f \in Entries
  PROVE  HasOrder(f, Size(f) + 1, <<>>)
  <1>0. Size(f) \in Nat
    BY FunctionFacts
  <1>1. (\A j \in (Size(f) + 1)..Size(f) : FALSE) /\ \A p \in 1..Len(<<>>) : FALSE
    BY <1>0
  <1>2. \A j \in Skips(f, Size(f) + 1) : FALSE
    BY <1>1 DEF Skips
  <1> DEFINE none == [j \in {} |-> 0]
  <1>3. Arranged(f, Size(f) + 1, <<>>, none, none)
    BY <1>1, <1>2 DEF Arranged
  <1>4. QED
    BY <1>3 DEF HasOrder

LEMMA ParsedOrder ==
  ASSUME NEW f \in Entries, NEW g, Parses(f, g), NEW n \in 1..(Size(f) + 1)
  PROVE  HasOrder(f, n, g[n])
  <1> DEFINE m == Size(f)
             P == { k \in Nat : \A j \in (m + 1 - k)..(m + 1) : j \in 1..(m + 1) => HasOrder(f, j, g[j]) }
  <1>1. m \in Nat
    BY FunctionFacts
  <1>2. 0 \in P
    <2>1. \A j \in (m + 1 - 0)..(m + 1) : j = m + 1
      BY <1>1
    <2>2. HasOrder(f, m + 1, g[m + 1])
      BY OrderNone DEF Parses
    <2>3. QED
      BY <2>1, <2>2
  <1>3. ASSUME NEW k \in 1..m, k - 1 \in P PROVE k \in P
    <2> DEFINE o == m + 1 - k
    <2>1. /\ o \in 1..m /\ k \in Nat /\ o + 1 \in 1..(m + 1)
          /\ \A j \in (m + 1 - k)..(m + 1) : j = o \/ j \in (m + 1 - (k - 1))..(m + 1)
          /\ o + 1 \in (m + 1 - (k - 1))..(m + 1)
          /\ o + 1 <= m => o + 2 \in (m + 1 - (k - 1))..(m + 1) /\ o + 2 \in 1..(m + 1)
      BY <1>1
    <2>2. \A j \in (m + 1 - (k - 1))..(m + 1) : j \in 1..(m + 1) => HasOrder(f, j, g[j])
      BY <1>3
    <2>3. g[o] = Parsed(f, o, g[o + 1], g[o + 2]) /\ g[o + 1] \in Seq(Lines)
      BY <2>1 DEF Parses
    <2>4. HasOrder(f, o + 1, g[o + 1])
      BY <2>1, <2>2
    <2>5. Single(f, o + 1) => HasOrder(f, o + 2, g[o + 2]) /\ g[o + 2] \in Seq(Lines)
      <3>1. Single(f, o + 1) => o + 2 \in (m + 1 - (k - 1))..(m + 1) /\ o + 2 \in 1..(m + 1)
        BY <2>1 DEF Single
      <3>2. QED
        BY <2>2, <3>1 DEF Parses
    <2> HIDE DEF o, P
    <2>6. HasOrder(f, o, g[o])
      BY <2>1, <2>3, <2>4, <2>5, OrderDo, OrderSkip, OrderNest DEF Parsed
    <2>7. QED
      BY <2>1, <2>2, <2>6 DEF P
  <1> HIDE DEF P
  <1>4. m \in 0..m
    BY <1>1
  <1>5. m \in P
    BY <1>1, <1>2, <1>3, <1>4, UpTo
  <1>6. n \in (m + 1 - m)..(m + 1)
    BY <1>1
  <1>7. QED
    BY <1>5, <1>6 DEF P

\* What is printed for a function: a sequence of lines in that order.
LEMMA BodyOrder ==
  ASSUME NEW f \in Entries
  PROVE  Body(f) \in Seq(Lines) /\ HasOrder(f, 1, Body(f))
  <1>1. PICK g : Parses(f, g) /\ Body(f) = g[1]
    BY BodyParses
  <1>2. 1 \in 1..(Size(f) + 1)
    BY FunctionFacts
  <1>3. QED
    BY <1>1, <1>2, ParsedOrder DEF Parses

-----------------------------------------------------------------------------
(* Where control goes from a line.                                         *)

LEMMA MainType ==
  ASSUME NEW f \in Entries, NEW j \in 1..Size(f)
  PROVE  /\ Main(f, j).type \in {"if", "do"}
         /\ Main(f, j).type = "if" <=> IsSkip(f.opcodes[j])
         /\ Main(f, j).at = Node(f, j)
         /\ Main(f, j).opcode = f.opcodes[j]
  <1>1. CASE IsSkip(f.opcodes[j])
    <2>1. Main(f, j) = Line(f, "if", j)
      BY <1>1 DEF Main
    <2>2. QED
      BY <1>1, <2>1, LineType
  <1>2. CASE ~IsSkip(f.opcodes[j])
    <2>1. Main(f, j) = Line(f, "do", j)
      BY <1>2 DEF Main
    <2>2. QED
      BY <1>2, <2>1, LineType
  <1>3. QED
    BY <1>1, <1>2

\* p is the first statement or `if` of q from m on, or behind the last line.
Ahead(q, m, p) ==
    /\ p \in m..(Len(q) + 1)
    /\ p \in DOMAIN q => q[p].type # "end"
    /\ \A n \in m..(p - 1) : q[n].type = "end"

LEMMA AheadExists ==
  ASSUME NEW q \in Seq(Lines), NEW m \in 1..(Len(q) + 1)
  PROVE  \E p \in m..(Len(q) + 1) : Ahead(q, m, p)
  <1> DEFINE d == Len(q)
             T == { p \in m..(d + 1) : p \in 1..d => q[p].type # "end" }
  <1>1. d \in Nat /\ DOMAIN q = 1..d
    BY LenProperties
  <1>2. T \in SUBSET Nat /\ d + 1 \in T
    BY <1>1
  <1> HIDE DEF T
  <1>3. PICK p \in T : \A n \in T : ~(n < p)
    BY <1>2, LeastNatural
  <1>4. p \in m..(d + 1) /\ (p \in 1..d => q[p].type # "end")
    BY <1>3 DEF T
  <1>5. ASSUME NEW n \in m..(p - 1) PROVE q[n].type = "end"
    <2>1. n \in m..(d + 1) /\ n \in 1..d /\ n < p
      BY <1>1, <1>4
    <2>2. n \notin T
      BY <1>3, <2>1
    <2>3. QED
      BY <2>1, <2>2 DEF T
  <1>6. QED
    BY <1>1, <1>4, <1>5 DEF Ahead

LEMMA FromAhead ==
  ASSUME NEW k, NEW q \in Seq(Lines), text[k] = q, NEW m \in 1..(Len(q) + 1)
  PROVE  Ahead(q, m, From(k, m)) /\ From(k, m) \in 1..(Len(q) + 1)
  <1> DEFINE P(n) == /\ n \in DOMAIN q => q[n].type # "end"
                     /\ \A p \in m..(n - 1) : q[p].type = "end"
  <1>1. \E n \in m..(Len(q) + 1) : P(n)
    BY AheadExists DEF Ahead
  <1>2. From(k, m) = CHOOSE n \in m..(Len(q) + 1) : P(n)
    BY DEF From
  <1> HIDE DEF P
  <1>3. From(k, m) \in m..(Len(q) + 1) /\ P(From(k, m))
    BY <1>1, <1>2
  <1>4. From(k, m) \in 1..(Len(q) + 1)
    BY <1>3, LenProperties
  <1>5. QED
    BY <1>3, <1>4 DEF P, Ahead

\* What the order says of a line.
LEMMA ArrangedLines ==
  ASSUME NEW f \in Entries, NEW q \in Seq(Lines), NEW pos, NEW fin, Arranged(f, 1, q, pos, fin)
  PROVE  /\ \A j \in 1..Size(f) : pos[j] \in 1..Len(q) /\ q[pos[j]] = Main(f, j)
                                  /\ q[pos[j]].type # "end" /\ q[pos[j]].at = Node(f, j)
         /\ \A j \in Skips(f, 1) : /\ j \in 1..Size(f) /\ IsSkip(f.opcodes[j])
                                    /\ fin[j] \in 1..Len(q)
                                    /\ q[fin[j]].type = "end" /\ q[fin[j]].at = Node(f, j)
         /\ \A p \in 1..Len(q) : q[p].type # "end" => \E j \in 1..Size(f) : p = pos[j]
         /\ \A p \in 1..Len(q) : q[p].type = "end" => \E j \in Skips(f, 1) : p = fin[j]
  <1>1. \A j \in 1..Size(f) : pos[j] \in 1..Len(q) /\ q[pos[j]] = Main(f, j)
    BY DEF Arranged
  <1>2. \A j \in Skips(f, 1) : fin[j] \in 1..Len(q) /\ q[fin[j]] = Line(f, "end", j)
    BY DEF Arranged
  <1>3. \A j \in Skips(f, 1) : j \in 1..Size(f) /\ IsSkip(f.opcodes[j])
    BY DEF Skips
  <1>4. \A j \in 1..Size(f) : q[pos[j]].type # "end" /\ q[pos[j]].at = Node(f, j)
    BY <1>1, MainType
  <1>5. \A j \in Skips(f, 1) : q[fin[j]].type = "end" /\ q[fin[j]].at = Node(f, j)
    BY <1>2, <1>3, LineType
  <1>6. \A p \in 1..Len(q) : \/ \E j \in 1..Size(f) : p = pos[j]
                             \/ \E j \in Skips(f, 1) : p = fin[j]
    BY DEF Arranged
  <1>7. \A p \in 1..Len(q) : q[p].type # "end" => \E j \in 1..Size(f) : p = pos[j]
    BY <1>5, <1>6
  <1>8. \A p \in 1..Len(q) : q[p].type = "end" => \E j \in Skips(f, 1) : p = fin[j]
    BY <1>4, <1>6
  <1>9. QED
    BY <1>1, <1>2, <1>3, <1>4, <1>5, <1>7, <1>8

\* Behind the line of an instruction comes that of the next one.
LEMMA NextAhead ==
  ASSUME NEW f \in Entries, NEW q \in Seq(Lines), NEW pos, NEW fin, Arranged(f, 1, q, pos, fin),
         NEW j \in 1..Size(f), NEW p, Ahead(q, pos[j] + 1, p)
  PROVE  \/ p \in 1..Len(q) /\ j + 1 \in 1..Size(f) /\ p = pos[j + 1]
         \/ p = Len(q) + 1 /\ j = Size(f)
  <1> DEFINE m == Size(f)
             d == Len(q)
  <1>1. m \in Nat /\ d \in Nat /\ DOMAIN q = 1..d
    BY FunctionFacts, LenProperties
  <1>2. pos[j] \in 1..d /\ p \in (pos[j] + 1)..(d + 1)
    BY ArrangedLines DEF Ahead
  <1>3. ASSUME NEW k \in 1..m, pos[j] < pos[k] PROVE ~(pos[k] < p)
    <2>1. q[pos[k]].type # "end" /\ pos[k] \in 1..d
      BY ArrangedLines
    <2>2. pos[k] < p => pos[k] \in (pos[j] + 1)..(p - 1)
      BY <1>1, <1>2, <1>3, <2>1
    <2>3. QED
      BY <2>1, <2>2 DEF Ahead
  <1>4. \A k, l \in 1..m : k < l => pos[k] < pos[l]
    BY DEF Arranged
  <1>5. CASE p \in 1..d
    <2>1. PICK k \in 1..m : p = pos[k]
      BY <1>1, <1>5, ArrangedLines DEF Ahead
    <2>2. pos[j] < pos[k]
      BY <1>1, <1>2, <2>1
    <2>3. j < k
      <3>1. ~(k < j) /\ k # j
        BY <1>1, <1>2, <1>4, <1>5, <2>1, <2>2
      <3>2. QED
        BY <1>1, <3>1
    <2>4. j + 1 \in 1..m /\ j < j + 1 /\ (j + 1 < k \/ j + 1 = k)
      BY <1>1, <2>3
    <2>5. j + 1 < k => pos[j] < pos[j + 1] /\ pos[j + 1] < p
      BY <1>4, <2>1, <2>4
    <2>6. QED
      BY <1>3, <1>5, <2>1, <2>4, <2>5
  <1>6. CASE p = d + 1
    <2>1. ASSUME j # m PROVE FALSE
      <3>1. j + 1 \in 1..m /\ j < j + 1
        BY <1>1, <2>1
      <3>2. pos[j] < pos[j + 1] /\ pos[j + 1] \in 1..d
        BY <1>4, <3>1, ArrangedLines
      <3>3. pos[j + 1] < p
        BY <1>1, <1>6, <3>2
      <3>4. QED
        BY <1>3, <3>1, <3>2, <3>3
    <2>2. QED
      BY <1>6, <2>1
  <1>7. p \in 1..d \/ p = d + 1
    BY <1>1, <1>2
  <1>8. QED
    BY <1>5, <1>6, <1>7

\* Behind the end of a skip comes what is behind the instruction that it skips, or
\* nothing.
LEMMA EndAhead ==
  ASSUME NEW f \in Entries, NEW q \in Seq(Lines), NEW pos, NEW fin, Arranged(f, 1, q, pos, fin),
         NEW j \in Skips(f, 1), NEW p, Ahead(q, fin[j], p)
  PROVE  \/ /\ p \in 1..Len(q) /\ Single(f, j + 1)
            /\ j + 2 \in 1..Size(f) /\ p = pos[j + 2]
         \/ p = Len(q) + 1 /\ (Single(f, j + 1) => j + 1 = Size(f))
  <1> DEFINE m == Size(f)
             d == Len(q)
  <1>1. m \in Nat /\ d \in Nat /\ DOMAIN q = 1..d
    BY FunctionFacts, LenProperties
  <1>2. /\ j \in 1..m /\ fin[j] \in 1..d /\ q[fin[j]].type = "end"
        /\ p \in fin[j]..(d + 1)
    BY ArrangedLines DEF Ahead
  <1>3. ASSUME NEW k \in 1..m, ~(pos[k] < fin[j]) PROVE ~(pos[k] < p)
    <2>1. q[pos[k]].type # "end" /\ pos[k] \in 1..d
      BY ArrangedLines
    <2>2. pos[k] < p => pos[k] \in fin[j]..(p - 1)
      BY <1>1, <1>2, <1>3, <2>1
    <2>3. QED
      BY <2>1, <2>2 DEF Ahead
  <1>4. \A k, l \in 1..m : k < l => pos[k] < pos[l]
    BY DEF Arranged
  <1>5. \A k \in 1..m : pos[k] < fin[j] <=> Within(f, j, k)
    BY DEF Arranged
  <1>6. CASE p \in 1..d
    <2>1. PICK k \in 1..m : p = pos[k]
      BY <1>1, <1>6, ArrangedLines DEF Ahead
    <2>2. ~(pos[k] < fin[j])
      BY <1>1, <1>2, <2>1
    <2>3. Single(f, j + 1) /\ ~(k <= j + 1)
      BY <1>5, <2>2 DEF Within
    <2>4. j + 2 \in 1..m /\ (j + 2 < k \/ j + 2 = k) /\ ~(j + 2 <= j + 1)
      BY <1>1, <1>2, <2>3
    <2>5. ASSUME j + 2 < k PROVE FALSE
      <3>1. ~Within(f, j, j + 2)
        BY <2>3, <2>4 DEF Within
      <3>2. ~(pos[j + 2] < fin[j])
        BY <1>5, <2>4, <3>1
      <3>3. pos[j + 2] < p
        BY <1>4, <2>1, <2>4, <2>5
      <3>4. QED
        BY <1>3, <2>4, <3>2, <3>3
    <2>6. QED
      BY <1>6, <2>1, <2>3, <2>4, <2>5
  <1>7. CASE p = d + 1
    <2>1. ASSUME Single(f, j + 1), j + 1 # m PROVE FALSE
      <3>1. j + 1 <= m
        BY <2>1 DEF Single
      <3>2. j + 2 \in 1..m /\ ~(j + 2 <= j + 1)
        BY <1>1, <1>2, <2>1, <3>1
      <3>3. ~Within(f, j, j + 2)
        BY <2>1, <3>2 DEF Within
      <3>4. ~(pos[j + 2] < fin[j]) /\ pos[j + 2] \in 1..d
        BY <1>5, <3>2, <3>3, ArrangedLines
      <3>5. pos[j + 2] < p
        BY <1>1, <1>7, <3>4
      <3>6. QED
        BY <1>3, <3>2, <3>4, <3>5
    <2>2. QED
      BY <1>7, <2>1
  <1>8. p \in 1..d \/ p = d + 1
    BY <1>1, <1>2
  <1>9. QED
    BY <1>6, <1>7, <1>8

LEMMA NodeStep ==
  ASSUME NEW f \in Entries, NEW j \in 1..Size(f)
  PROVE  /\ Node(f, j + 1) = Node(f, j) + 2 /\ Node(f, j + 2) = Node(f, j) + 4
         /\ f.offset + 2 * Size(f) = Node(f, Size(f) + 1)
         /\ \A k \in 1..Size(f) : Node(f, k) = Node(f, j) => k = j
  <1>1. f.offset \in Nat /\ Size(f) \in Nat
    BY FunctionFacts
  <1>2. QED
    BY <1>1 DEF Node

\* Each instruction has one line.
LEMMA LinesCounted ==
  ASSUME NEW f \in Entries, NEW q \in Seq(Lines), NEW pos, NEW fin, Arranged(f, 1, q, pos, fin)
  PROVE  Cardinality({ m \in DOMAIN q : q[m].type # "end" }) = Size(f)
  <1> DEFINE T == { m \in DOMAIN q : q[m].type # "end" }
             b == [j \in 1..Size(f) |-> pos[j]]
  <1>1. Size(f) \in Nat /\ DOMAIN q = 1..Len(q)
    BY FunctionFacts, LenProperties
  <1>2. \A j \in 1..Size(f) : b[j] \in T
    BY <1>1, ArrangedLines
  <1>3. \A m \in T : \E j \in 1..Size(f) : b[j] = m
    BY <1>1, ArrangedLines
  <1>4. \A j, k \in 1..Size(f) : j < k => pos[j] < pos[k]
    BY DEF Arranged
  <1>5. ASSUME NEW j \in 1..Size(f), NEW k \in 1..Size(f), b[j] = b[k] PROVE j = k
    <2>1. pos[j] = pos[k] /\ pos[j] \in 1..Len(q)
      BY <1>5, ArrangedLines
    <2>2. ~(pos[j] < pos[k]) /\ ~(pos[k] < pos[j])
      BY <1>1, <2>1
    <2>3. ~(j < k) /\ ~(k < j)
      BY <1>4, <2>2
    <2>4. QED
      BY <1>1, <2>3
  <1>6. b \in [1..Size(f) -> T]
    BY <1>2
  <1> HIDE DEF b, T
  <1>7. b \in Bijection(1..Size(f), T)
    BY <1>3, <1>5, <1>6 DEF Bijection, Injection, Surjection, IsInjective
  <1>8. ExistsBijection(1..Size(f), T)
    BY <1>7 DEF ExistsBijection
  <1>9. QED
    BY <1>1, <1>8, FS_CountingElements DEF T

-----------------------------------------------------------------------------
(* What a statement leaves in the machine.                                 *)

\* The values that the compiled program's variables may have.
MachineIs(m) ==
    /\ m.v \in [Reg -> Byte] /\ m.i \in Word
    /\ IsMemory(m.ram) /\ m.fb \subseteq Pixels

LEMMA MachineFields ==
  /\ Machine.v = v /\ Machine.i = i /\ Machine.ram = ram /\ Machine.fb = fb
  /\ \A w : LET m == [Machine EXCEPT !.v = w] IN m.v = w /\ m.i = i /\ m.ram = ram /\ m.fb = fb
  /\ \A a : LET m == [Machine EXCEPT !.i = a] IN m.v = v /\ m.i = a /\ m.ram = ram /\ m.fb = fb
  /\ \A r : LET m == [Machine EXCEPT !.ram = r] IN m.v = v /\ m.i = i /\ m.ram = r /\ m.fb = fb
  /\ \A p : LET m == [Machine EXCEPT !.fb = p] IN m.v = v /\ m.i = i /\ m.ram = ram /\ m.fb = p
  /\ \A w, a : LET m == [[Machine EXCEPT !.v = w] EXCEPT !.i = a]
              IN m.v = w /\ m.i = a /\ m.ram = ram /\ m.fb = fb
  /\ \A r, a : LET m == [[Machine EXCEPT !.ram = r] EXCEPT !.i = a]
              IN m.v = v /\ m.i = a /\ m.ram = r /\ m.fb = fb
  /\ \A p, w : LET m == [Machine EXCEPT !.fb = p, !.v = w]
              IN m.v = w /\ m.i = i /\ m.ram = ram /\ m.fb = p
  BY DEF Machine

LEMMA FlagType ==
  ASSUME NEW w \in [Reg -> Byte], NEW P
  PROVE  Flag(w, P) \in [Reg -> Byte]
  <1>1. 0 \in Byte /\ 1 \in Byte
    BY DEF Byte
  <1>2. QED
    BY <1>1 DEF Flag

LEMMA AssignType ==
  ASSUME NEW w \in [Reg -> Byte], NEW x \in Reg, NEW b \in Int
  PROVE  Assign(w, x, b) \in [Reg -> Byte]
  <1>1. b % 256 \in Byte
    BY DEF Byte
  <1>2. QED
    BY <1>1 DEF Assign

LEMMA MathTextType ==
  ASSUME NEW w \in [Reg -> Byte], NEW x \in Reg, NEW y \in Reg, NEW n \in 0..15
  PROVE  MathText(n, w, x, y) \in [Reg -> Byte]
  <1>1. w[x] \in Byte /\ w[y] \in Byte /\ Byte \subseteq Int
    BY Ranges
  <1>2. /\ w[x] + w[y] \in Int /\ w[x] - w[y] \in Int /\ w[y] - w[x] \in Int
        /\ w[x] \div 2 \in Int /\ w[x] * 2 \in Int
    BY <1>1, ByteArithmetic
  <1>3. Or8(w[x], w[y]) \in Int /\ And8(w[x], w[y]) \in Int /\ Xor8(w[x], w[y]) \in Int
    BY <1>1, ByteOfType DEF Or8, And8, Xor8
  <1>4. \A b \in Int : Assign(w, x, b) \in [Reg -> Byte]
    BY AssignType
  <1>5. \A b \in Int : \A P : Flag(Assign(w, x, b), P) \in [Reg -> Byte]
    BY <1>4, FlagType
  <1>6. CASE n \in {0, 1, 2, 3}
    BY <1>1, <1>3, <1>4, <1>6 DEF MathText
  <1>7. CASE n \in {4, 5, 6, 7, 14}
    <2>1. CASE n = 4
      BY <1>2, <1>5, <2>1 DEF MathText
    <2>2. CASE n = 5
      BY <1>2, <1>5, <2>2 DEF MathText
    <2>3. CASE n = 6
      BY <1>2, <1>5, <2>3 DEF MathText
    <2>4. CASE n = 7
      BY <1>2, <1>5, <2>4 DEF MathText
    <2>5. CASE n = 14
      BY <1>2, <1>5, <2>5 DEF MathText
    <2>6. QED
      BY <1>7, <2>1, <2>2, <2>3, <2>4, <2>5
  <1>8. CASE n \notin {0, 1, 2, 3, 4, 5, 6, 7, 14}
    BY <1>8 DEF MathText
  <1>9. QED
    BY <1>6, <1>7, <1>8

LEMMA DumpType ==
  ASSUME NEW m, IsMemory(m), NEW a \in Nat, NEW w \in [Reg -> Byte], NEW x \in Reg,
         a + x < RamSize
  PROVE  IsMemory(Dump(m, a, w, x))
  <1> DEFINE D == DOMAIN m \cup a..(a + x)
             e == [k \in D |-> IF k \in a..(a + x) THEN w[k - a] ELSE m[k]]
  <1>1. x \in Nat /\ x <= 15 /\ RamSize = 4096
    BY DEF Reg, RamSize
  <1>2. a..(a + x) \subseteq 0..(RamSize - 1)
    BY <1>1
  <1>3. \A k \in a..(a + x) : k - a \in Reg
    BY <1>1 DEF Reg
  <1>4. \A k \in DOMAIN m : m[k] \in Byte
    BY DEF IsMemory
  <1>5. \A k \in a..(a + x) : w[k - a] \in Byte
    BY <1>3
  <1>6. \A k \in D : e[k] \in Byte
    BY <1>4, <1>5
  <1>7. DOMAIN e = D /\ e \in [D -> Byte]
    BY <1>6
  <1>8. D \subseteq 0..(RamSize - 1)
    BY <1>2 DEF IsMemory
  <1>9. Dump(m, a, w, x) = e
    BY DEF Dump
  <1> HIDE DEF e, D
  <1>10. QED
    BY <1>7, <1>8, <1>9 DEF IsMemory

LEMMA FillType ==
  ASSUME NEW m, IsMemory(m), NEW a \in Nat, NEW w \in [Reg -> Byte], NEW x
  PROVE  Fill(m, a, w, x) \in [Reg -> Byte]
  <1>1. \A r \in Reg : a + r \in Nat
    BY Ranges
  <1>2. \A r \in Reg : Peek(m, a + r) \in Byte
    BY <1>1, PeekType
  <1>3. QED
    BY <1>2 DEF Fill

LEMMA WordOfInt == ASSUME NEW n \in Int PROVE n % WordSize \in Word
  <1>1. n - 2 \in Int /\ (n - 2) + 2 = n
    OBVIOUS
  <1>2. ((n - 2) + 2) % WordSize \in Word
    BY <1>1, NextPc
  <1>3. QED
    BY <1>1, <1>2

LEMMA AddressIsWord == ASSUME NEW a \in 0..(RamSize - 1) PROVE a \in Word
  <1>1. a \in Nat /\ a <= 65535
    BY DEF RamSize
  <1>2. QED
    BY <1>1, WordRange

\* The statements of class 15.
LEMMA MiscTextType ==
  ASSUME MachineIs(Machine), NEW opcode \in Word, Class(opcode) = OP_MISC2, InBounds(opcode)
  PROVE  MachineIs(MiscText(opcode))
  <1> DEFINE x == X(opcode)
             n == Imm(opcode)
  <1>1. x \in Reg /\ x \in Nat /\ n \in Byte
    BY FieldTypes, Ranges
  <1>2. v \in [Reg -> Byte] /\ i \in Word /\ i \in Nat /\ IsMemory(ram) /\ fb \subseteq Pixels
    BY MachineFields, Ranges DEF MachineIs
  <1>3. v[x] \in Byte /\ v[x] \in Int
    BY <1>1, <1>2, Ranges
  <1>4. i + x \in Int /\ i + v[x] \in Int
    BY <1>1, <1>2, <1>3
  <1>5. (i + x) % WordSize \in Word /\ (i + v[x]) % WordSize \in Word
    BY <1>4, WordOfInt
  <1>6. CASE n = \h07
    <2>1. MiscText(opcode) = [Machine EXCEPT !.v = Assign(v, x, 0)]
      BY <1>6 DEF MiscText
    <2>2. Assign(v, x, 0) \in [Reg -> Byte]
      BY <1>1, <1>2, AssignType
    <2>3. QED
      BY <1>2, <2>1, <2>2, MachineFields DEF MachineIs
  <1>7. CASE n = \h1E
    <2>1. MiscText(opcode) = [Machine EXCEPT !.i = (i + v[x]) % WordSize]
      BY <1>7 DEF MiscText
    <2>2. QED
      BY <1>2, <1>5, <2>1, MachineFields DEF MachineIs
  <1>8. CASE n = \h29
    <2>1. MiscText(opcode) = [Machine EXCEPT !.i = v[x] * 5]
      BY <1>8 DEF MiscText
    <2>2. v[x] * 5 \in 0..(RamSize - 1)
      BY <1>3, ByteArithmetic
    <2>3. v[x] * 5 \in Word
      BY <2>2, AddressIsWord
    <2>4. QED
      BY <1>2, <2>1, <2>3, MachineFields DEF MachineIs
  <1>9. CASE n = \h33
    <2>1. MiscText(opcode) = [Machine EXCEPT !.ram = PokeDigits(ram, i, v[x])]
      BY <1>9 DEF MiscText
    <2>2. i + 2 < RamSize
      BY <1>9 DEF InBounds
    <2>3. IsMemory(PokeDigits(ram, i, v[x]))
      BY <1>2, <1>3, <2>2, PokeDigitsType
    <2>4. QED
      BY <1>2, <2>1, <2>3, MachineFields DEF MachineIs
  <1>10. CASE n = \h55
    <2>1. MiscText(opcode)
             = [[Machine EXCEPT !.ram = Dump(ram, i, v, x)] EXCEPT !.i = (i + x) % WordSize]
      BY <1>10 DEF MiscText
    <2>2. i + x < RamSize
      BY <1>10 DEF InBounds
    <2>3. IsMemory(Dump(ram, i, v, x))
      BY <1>1, <1>2, <2>2, DumpType
    <2>4. QED
      BY <1>2, <1>5, <2>1, <2>3, MachineFields DEF MachineIs
  <1>11. CASE n = \h65
    <2>1. MiscText(opcode)
             = [[Machine EXCEPT !.v = Fill(ram, i, v, x)] EXCEPT !.i = (i + x) % WordSize]
      BY <1>11 DEF MiscText
    <2>2. Fill(ram, i, v, x) \in [Reg -> Byte]
      BY <1>2, FillType
    <2>3. QED
      BY <1>2, <1>5, <2>1, <2>2, MachineFields DEF MachineIs
  <1>12. CASE n \notin {\h07, \h1E, \h29, \h33, \h55, \h65}
    <2>1. MiscText(opcode) = Machine
      BY <1>12 DEF MiscText
    <2>2. QED
      BY <2>1
  <1>13. QED
    BY <1>6, <1>7, <1>8, <1>9, <1>10, <1>11, <1>12

LEMMA DrawTextType ==
  ASSUME MachineIs(Machine), NEW opcode \in Word, Class(opcode) = OP_DRAW, InBounds(opcode)
  PROVE  MachineIs(DrawText(opcode))
  <1> DEFINE x == v[X(opcode)] % 64
             y == v[Y(opcode)] % 64
             n == Nib(opcode)
             T == Toggled(ram, i, x, y, n)
  <1>1. v \in [Reg -> Byte] /\ i \in Word /\ IsMemory(ram) /\ fb \in SUBSET Pixels
    BY MachineFields DEF MachineIs
  <1>2. n \in 0..15
    BY FieldTypes
  <1>3. n > 0 => Touched(x, y, n) \subseteq Pixels
    BY DEF InBounds
  <1>4. DrawText(opcode) = [Machine EXCEPT !.fb = Flip(fb, T), !.v = Flag(v, T \cap fb # {})]
    BY DEF DrawText
  <1>5. Flag(v, T \cap fb # {}) \in [Reg -> Byte]
    BY <1>1, FlagType
  <1> HIDE DEF x, y, n
  <1>6. Flip(fb, T) \subseteq Pixels
    BY <1>1, <1>2, <1>3, DrawnPixels
  <1> HIDE DEF T
  <1>7. QED
    BY <1>1, <1>4, <1>5, <1>6, MachineFields DEF MachineIs

\* A statement leaves a machine.
LEMMA EffectsType ==
  ASSUME MachineIs(Machine), NEW opcode \in Word,
         ~IsSkip(opcode), IsStatement(opcode), Class(opcode) # OP_JMP_INDEX, InBounds(opcode),
         NEW m \in Effects(opcode)
  PROVE  MachineIs(m)
  <1> DEFINE x == X(opcode)
             c == Class(opcode)
  <1>1. /\ x \in Reg /\ Y(opcode) \in Reg /\ Nib(opcode) \in 0..15 /\ Imm(opcode) \in Byte
        /\ Addr(opcode) \in 0..(RamSize - 1)
    BY FieldTypes
  <1>2. v \in [Reg -> Byte] /\ i \in Word /\ IsMemory(ram) /\ fb \subseteq Pixels
    BY MachineFields DEF MachineIs
  <1>3. v[x] \in Byte /\ v[x] + Imm(opcode) \in Int /\ Imm(opcode) \in Int
    BY <1>1, <1>2, Ranges, ByteArithmetic
  <1>4. \A b \in Int : Assign(v, x, b) \in [Reg -> Byte]
    BY <1>1, <1>2, AssignType
  <1>5. \A w \in [Reg -> Byte] : MachineIs([Machine EXCEPT !.v = w])
    BY <1>2, MachineFields DEF MachineIs
  <1>6. c \in {0, 6, 7, 8, 10, 12, 13, 15}
    <2>1. c \in 0..15
      BY FieldTypes
    <2>2. c \notin {1, 2, 3, 4, 5, 9, 11, 14}
      BY DEF IsSkip, IsStatement, Transfers, SkipClasses, OP_JMP, OP_CALL, OP_SKIP1, OP_SKIP2,
             OP_SKIP3, OP_SKIP4, OP_IN, OP_JMP_INDEX
    <2>3. QED
      BY <2>1, <2>2
  <1> USE DEF OP_MISC, OP_MOV_IMM, OP_ADD_IMM, OP_MATH, OP_STORE, OP_RAND, OP_DRAW, OP_MISC2
  <1>7. CASE c = 0
    <2>1. m = [Machine EXCEPT !.fb = {}]
      BY <1>7 DEF Effects
    <2>2. QED
      BY <1>2, <2>1, MachineFields DEF MachineIs
  <1>8. CASE c = 6
    <2>1. m = [Machine EXCEPT !.v = Assign(v, x, Imm(opcode))]
      BY <1>8 DEF Effects
    <2>2. QED
      BY <1>3, <1>4, <1>5, <2>1
  <1>9. CASE c = 7
    <2>1. m = [Machine EXCEPT !.v = Assign(v, x, v[x] + Imm(opcode))]
      BY <1>9 DEF Effects
    <2>2. QED
      BY <1>3, <1>4, <1>5, <2>1
  <1>10. CASE c = 8
    <2>1. m = [Machine EXCEPT !.v = MathText(Nib(opcode), v, x, Y(opcode))]
      BY <1>10 DEF Effects
    <2>2. MathText(Nib(opcode), v, x, Y(opcode)) \in [Reg -> Byte]
      BY <1>1, <1>2, MathTextType
    <2>3. QED
      BY <1>5, <2>1, <2>2
  <1>11. CASE c = 10
    <2>1. Effects(opcode) = {[Machine EXCEPT !.i = Addr(opcode)]}
      BY <1>11 DEF Effects
    <2>2. Addr(opcode) \in Word /\ m = [Machine EXCEPT !.i = Addr(opcode)]
      BY <1>1, <2>1, AddressIsWord
    <2>3. QED
      BY <1>2, <2>1, <2>2, MachineFields DEF MachineIs
  <1>12. CASE c = 12
    <2>1. m \in RandText(opcode)
      BY <1>12 DEF Effects
    <2>2. PICK r \in 0..254 : m = [Machine EXCEPT !.v = Assign(v, x, And8(r, Imm(opcode)))]
      BY <2>1 DEF RandText
    <2>3. And8(r, Imm(opcode)) \in Int
      BY ByteOfType, Ranges DEF And8
    <2>4. QED
      BY <1>4, <1>5, <2>2, <2>3
  <1>13. CASE c = 13
    <2>1. m = DrawText(opcode)
      BY <1>13 DEF Effects
    <2>2. QED
      BY <1>13, <2>1, DrawTextType
  <1>14. CASE c = 15
    <2>1. m = MiscText(opcode)
      BY <1>14 DEF Effects
    <2>2. QED
      BY <1>14, <2>1, MiscTextType
  <1>15. QED
    BY <1>6, <1>7, <1>8, <1>9, <1>10, <1>11, <1>12, <1>13, <1>14

-----------------------------------------------------------------------------
(* The inductive invariant.                                                *)

\* The states behind Write, in which the text is kept.
Kept == {"compiled", "rejected", "running", "returned", "closed", "outside", "deep"}

\* The functions that are printed: none is empty, no two start at the same offset, and
\* no indexed jump is left.
Tables ==
    /\ funcs \in Seq(Entries)
    /\ \A k \in DOMAIN funcs : Size(funcs[k]) # 0
    /\ \A j, k \in DOMAIN funcs : j # k => funcs[j].offset # funcs[k].offset
    /\ \A k \in DOMAIN funcs : \A n \in 1..Size(funcs[k]) :
          Class(funcs[k].opcodes[n]) # OP_JMP_INDEX

\* Each name of N belongs to a function with a body, or to a macro for a name of N.
Closed(N) ==
    \A x \in N : \E k \in DOMAIN funcs :
        /\ funcs[k].offset = x
        /\ IsMacro(funcs[k]) => TargetOf(funcs[k].opcodes[1]) \in N

\* The names that lead to a function with a body, from macro to macro.
Resolved == UNION { N \in SUBSET { funcs[k].offset : k \in DOMAIN funcs } : Closed(N) }

\* The calls at a line of their function, behind the last one, or at a macro that leads
\* to a function.
Standing ==
    { call \in [func : DOMAIN funcs, line : Nat] :
        /\ call.line \in 1..(Len(Printed[call.func]) + 1)
        /\ IsMacro(funcs[call.func]) => TargetOf(funcs[call.func].opcodes[1]) \in Resolved }

\* The calls that wait for the return of one that is printed at their line.
Waiting ==
    { call \in Standing :
        /\ call.line \in DOMAIN Printed[call.func]
        /\ Printed[call.func][call.line].type = "do"
        /\ Class(Printed[call.func][call.line].opcode) = OP_CALL }

Stacked(s) ==
    s \in Seq(Standing) /\ s # <<>> /\ \A d \in 1..(Len(s) - 1) : s[d] \in Waiting

Stack == calls = <<>> \/ Stacked(calls)

\* Each goto that is printed has its label, and each call and main a function with a body.
Accepted ==
    /\ \A k \in DOMAIN funcs : \A m \in DOMAIN Printed[k] : LET line == Printed[k][m] IN
          line.type = "do" =>
              /\ Class(line.opcode) = OP_JMP => TargetOf(line.opcode) \in Offsets(Printed[k])
              /\ Class(line.opcode) = OP_CALL => TargetOf(line.opcode) \in Resolved
    /\ 0 \in Resolved

Typed == v \in [Reg -> Byte] /\ i \in Word /\ IsMemory(ram) /\ fb \subseteq Pixels

RInv ==
    /\ Typed
    /\ status \in {"grabbing", "grabbed"} => CInv
    /\ status \in Kept => text = Printed /\ Tables /\ Stack
    /\ status \notin Kept => text = <<>> /\ calls = <<>>
    /\ status \in {"compiled", "running"} => Accepted
    /\ status = "running" => calls # <<>>

LEMMA TablesStay ==
  ASSUME funcs' = funcs
  PROVE  /\ Printed' = Printed /\ Resolved' = Resolved /\ Standing' = Standing /\ Waiting' = Waiting
         /\ Tables' = Tables /\ Accepted' = Accepted
  <1>1. Printed' = Printed
    BY DEF Printed
  <1>2. Resolved' = Resolved
    BY DEF Resolved, Closed
  <1>3. Standing' = Standing
    BY <1>1, <1>2 DEF Standing
  <1>4. Waiting' = Waiting
    BY <1>1, <1>3 DEF Waiting
  <1>5. Tables' = Tables
    BY DEF Tables
  <1>6. Accepted' = Accepted
    BY <1>1, <1>2 DEF Accepted
  <1>7. QED
    BY <1>1, <1>2, <1>3, <1>4, <1>5, <1>6

\* A name that the linker knows leads to a function with a body.
LEMMA LinksResolve ==
  ASSUME funcs \in Seq(Entries), NEW offset, NEW before, Links(offset, before)
  PROVE  offset \in Resolved
  <1> DEFINE d == Len(funcs)
             O == { funcs[k].offset : k \in DOMAIN funcs }
             named(S, n) == { funcs[k].offset : k \in { j \in DOMAIN funcs :
                  \/ ~IsMacro(funcs[j])
                  \/ j <= before /\ n > 0 /\ TargetOf(funcs[j].opcodes[1]) \in S } }
             P == SUBSET O
             step == [n \in 1..d |-> [S \in P |-> named(S, n)]]
  <1>1. d \in Nat
    OBVIOUS
  <1>2. \A S, n : named(S, n) \in P
    OBVIOUS
  <1>3. step \in [1..d -> [P -> P]]
    BY <1>2
  <1> HIDE DEF step, P, named
  <1>4. PICK h \in [0..d -> P] : Iterates(h, d, named({}, 0), step)
    BY <1>1, <1>2, <1>3, Iteration
  <1>5. h[0] = named({}, 0) /\ \A n \in 1..d : h[n] = named(h[n - 1], n)
    <2>1. \A n \in 1..d : h[n - 1] \in P
      BY <1>1, <1>4
    <2>2. \A n \in 1..d : step[n][h[n - 1]] = named(h[n - 1], n)
      BY <2>1 DEF step
    <2>3. QED
      BY <1>4, <2>2 DEF Iterates
  <1>6. \A S, T : named(S, 0) = named(T, 0)
    BY DEF named
  <1>7. \A n \in 0..d : h[n] = named(h[n - 1], n)
    <2>1. \A n \in 0..d : n = 0 \/ n \in 1..d
      BY <1>1
    <2>2. h[0] = named(h[0 - 1], 0)
      BY <1>5, <1>6
    <2>3. QED
      BY <1>5, <2>1, <2>2
  <1>8. h = [n \in 0..d |-> named(h[n - 1], n)]
    BY <1>4, <1>7
  <1> DEFINE names == CHOOSE x : x = [n \in 0..d |-> named(x[n - 1], n)]
  <1>9. names = [n \in 0..d |-> named(names[n - 1], n)]
    BY <1>8
  <1>10. offset \in names[d]
    BY DEF Links, named
  <1> HIDE DEF names
  <1> DEFINE N == UNION { names[n] : n \in 0..d }
  <1>11. \A n \in 0..d : names[n] = named(names[n - 1], n)
    BY <1>9
  <1>12. N \in SUBSET O
    BY <1>2, <1>11 DEF P
  <1>13. offset \in N
    <2>1. d \in 0..d
      BY <1>1
    <2>2. QED
      BY <1>10, <2>1
  <1>14. Closed(N)
    <2>1. ASSUME NEW x \in N
          PROVE  \E k \in DOMAIN funcs : /\ funcs[k].offset = x
                                         /\ IsMacro(funcs[k]) => TargetOf(funcs[k].opcodes[1]) \in N
      <3>1. PICK n \in 0..d : x \in named(names[n - 1], n)
        BY <1>11
      <3>2. PICK k \in DOMAIN funcs :
               /\ funcs[k].offset = x
               /\ \/ ~IsMacro(funcs[k])
                  \/ n > 0 /\ TargetOf(funcs[k].opcodes[1]) \in names[n - 1]
        BY <3>1 DEF named
      <3>3. n > 0 => n - 1 \in 0..d
        BY <1>1
      <3>4. QED
        BY <3>2, <3>3
    <2> HIDE DEF N
    <2>2. QED
      BY <2>1 DEF Closed
  <1> HIDE DEF N
  <1>15. QED
    BY <1>12, <1>13, <1>14 DEF Resolved

LEMMA PrintedType ==
  ASSUME Tables
  PROVE  /\ DOMAIN Printed = DOMAIN funcs /\ DOMAIN funcs \subseteq Nat
         /\ \A k \in DOMAIN funcs : /\ funcs[k] \in Entries
                                    /\ Printed[k] \in Seq(Lines) /\ Len(Printed[k]) \in Nat
                                    /\ DOMAIN Printed[k] = 1..Len(Printed[k])
         /\ \A k \in DOMAIN funcs : IsMacro(funcs[k]) => Printed[k] = <<>>
         /\ \A k \in DOMAIN funcs : ~IsMacro(funcs[k]) => HasOrder(funcs[k], 1, Printed[k])
  <1>1. DOMAIN Printed = DOMAIN funcs /\ DOMAIN funcs \subseteq Nat
    BY DEF Printed, Tables
  <1>2. ASSUME NEW k \in DOMAIN funcs PROVE funcs[k] \in Entries
    BY ElementOfSeq DEF Tables
  <1>3. ASSUME NEW k \in DOMAIN funcs, IsMacro(funcs[k]) PROVE Printed[k] = <<>>
    BY <1>3 DEF Printed
  <1>4. ASSUME NEW k \in DOMAIN funcs, ~IsMacro(funcs[k])
        PROVE  Printed[k] \in Seq(Lines) /\ HasOrder(funcs[k], 1, Printed[k])
    <2>1. Printed[k] = Body(funcs[k])
      BY <1>4 DEF Printed
    <2>2. QED
      BY <1>2, <2>1, BodyOrder
  <1>5. ASSUME NEW k \in DOMAIN funcs PROVE Printed[k] \in Seq(Lines)
    <2>1. <<>> \in Seq(Lines)
      OBVIOUS
    <2>2. QED
      BY <1>3, <1>4, <2>1
  <1>6. \A q \in Seq(Lines) : Len(q) \in Nat /\ DOMAIN q = 1..Len(q)
    BY LenProperties
  <1>7. QED
    BY <1>1, <1>2, <1>3, <1>4, <1>5, <1>6

\* A line that is no closing brace is that of an instruction.
LEMMA LineInstruction ==
  ASSUME Tables, NEW k \in DOMAIN funcs, NEW m \in DOMAIN Printed[k], Printed[k][m].type # "end"
  PROVE  /\ ~IsMacro(funcs[k])
         /\ \E j \in 1..Size(funcs[k]) : Printed[k][m] = Main(funcs[k], j)
  <1>1. ~IsMacro(funcs[k]) /\ m \in 1..Len(Printed[k]) /\ Printed[k] \in Seq(Lines)
    BY PrintedType
  <1>2. PICK pos, fin : Arranged(funcs[k], 1, Printed[k], pos, fin)
    BY <1>1, PrintedType DEF HasOrder
  <1>3. funcs[k] \in Entries
    BY PrintedType
  <1>4. PICK j \in 1..Size(funcs[k]) : m = pos[j]
    BY <1>1, <1>2, <1>3, ArrangedLines
  <1>5. Printed[k][m] = Main(funcs[k], j)
    BY <1>1, <1>2, <1>3, <1>4, ArrangedLines
  <1>6. QED
    BY <1>1, <1>5

\* What is printed for an instruction.
LEMMA PrintedLine ==
  ASSUME Tables, NEW k \in DOMAIN funcs, NEW m \in DOMAIN Printed[k], Printed[k][m].type # "end"
  PROVE  /\ ~IsMacro(funcs[k])
         /\ Printed[k][m].opcode \in Word /\ Class(Printed[k][m].opcode) # OP_JMP_INDEX
         /\ Printed[k][m].type = "if" <=> IsSkip(Printed[k][m].opcode)
         /\ Printed[k][m].type \in {"if", "do"}
  <1>1. funcs[k] \in Entries
    BY PrintedType
  <1>2. PICK j \in 1..Size(funcs[k]) : Printed[k][m] = Main(funcs[k], j)
    BY LineInstruction
  <1>3. funcs[k].opcodes[j] \in Word
    BY <1>1, FunctionFacts
  <1>4. Class(funcs[k].opcodes[j]) # OP_JMP_INDEX
    BY DEF Tables
  <1>5. QED
    BY <1>1, <1>2, <1>3, <1>4, LineInstruction, MainType

\* A call enters the function that its name leads to.
LEMMA EnteredStands ==
  ASSUME Tables, NEW offset \in Resolved
  PROVE  Entered(offset) \in Standing
  <1>1. PICK N \in SUBSET { funcs[k].offset : k \in DOMAIN funcs } : offset \in N /\ Closed(N)
    BY DEF Resolved
  <1>2. PICK k \in DOMAIN funcs : /\ funcs[k].offset = offset
                                  /\ IsMacro(funcs[k]) => TargetOf(funcs[k].opcodes[1]) \in N
    BY <1>1 DEF Closed
  <1>3. N \subseteq Resolved
    BY <1>1 DEF Resolved
  <1>4. Named(offset) = {k}
    BY <1>2 DEF Named, Tables
  <1>5. Entered(offset) = [func |-> k, line |-> 1]
    BY <1>4 DEF Entered
  <1>6. 1 \in 1..(Len(Printed[k]) + 1)
    BY PrintedType
  <1>7. QED
    BY <1>2, <1>3, <1>5, <1>6 DEF Standing

\* A goto's label is in front of an instruction.
LEMMA LabelStands ==
  ASSUME Tables, NEW k \in DOMAIN funcs, text = Printed, NEW offset \in Offsets(Printed[k])
  PROVE  /\ Labelled(k, offset) \in 1..Len(Printed[k])
         /\ Printed[k][Labelled(k, offset)].type # "end"
         /\ Printed[k][Labelled(k, offset)].at = offset
  <1>1. PICK m \in DOMAIN Printed[k] : Printed[k][m].at = offset
    BY DEF Offsets
  <1>2. funcs[k] \in Entries /\ Printed[k] \in Seq(Lines) /\ DOMAIN Printed[k] = 1..Len(Printed[k])
    BY PrintedType
  <1>3. \E p \in DOMAIN Printed[k] : Printed[k][p].type # "end" /\ Printed[k][p].at = offset
    <2>1. CASE Printed[k][m].type # "end"
      BY <1>1, <2>1
    <2>2. CASE Printed[k][m].type = "end"
      <3>1. ~IsMacro(funcs[k])
        BY PrintedType
      <3>2. PICK pos, fin : Arranged(funcs[k], 1, Printed[k], pos, fin)
        BY <3>1, PrintedType DEF HasOrder
      <3>3. PICK j \in Skips(funcs[k], 1) : m = fin[j]
        BY <1>2, <2>2, <3>2, ArrangedLines
      <3>4. j \in 1..Size(funcs[k]) /\ Printed[k][m].at = Node(funcs[k], j)
        BY <1>2, <3>2, <3>3, ArrangedLines
      <3>5. /\ pos[j] \in 1..Len(Printed[k]) /\ Printed[k][pos[j]].type # "end"
            /\ Printed[k][pos[j]].at = Node(funcs[k], j)
        BY <1>2, <3>2, <3>4, ArrangedLines
      <3>6. QED
        BY <1>1, <1>2, <3>4, <3>5
    <2>3. QED
      BY <2>1, <2>2
  <1>4. QED
    BY <1>2, <1>3 DEF Labelled

\* The closing brace of a skip is the one with its offset.
LEMMA EndOfSkip ==
  ASSUME NEW f \in Entries, NEW q \in Seq(Lines), NEW pos, NEW fin, Arranged(f, 1, q, pos, fin),
         NEW k, text[k] = q, NEW j \in Skips(f, 1)
  PROVE  EndOf(k, pos[j]) = fin[j]
  <1>1. DOMAIN q = 1..Len(q)
    BY LenProperties
  <1>2. j \in 1..Size(f) /\ fin[j] \in 1..Len(q) /\ q[fin[j]].type = "end" /\ q[fin[j]].at = Node(f, j)
    BY ArrangedLines
  <1>3. q[pos[j]].at = Node(f, j)
    BY <1>2, ArrangedLines
  <1>4. ASSUME NEW p \in 1..Len(q), q[p].type = "end", q[p].at = Node(f, j) PROVE p = fin[j]
    <2>1. PICK l \in Skips(f, 1) : p = fin[l]
      BY <1>4, ArrangedLines
    <2>2. l \in 1..Size(f) /\ Node(f, l) = Node(f, j)
      BY <1>4, <2>1, ArrangedLines
    <2>3. l = j
      BY <1>2, <2>2, NodeStep
    <2>4. QED
      BY <2>1, <2>3
  <1>5. EndOf(k, pos[j]) = CHOOSE p \in 1..Len(q) : q[p].type = "end" /\ q[p].at = Node(f, j)
    BY <1>1, <1>3 DEF EndOf
  <1>6. QED
    BY <1>2, <1>4, <1>5

\* Every `if` has its closing brace.
LEMMA SkipHasEnd ==
  ASSUME Tables, text = Printed, NEW k \in DOMAIN funcs, NEW m \in DOMAIN Printed[k],
         Printed[k][m].type = "if"
  PROVE  EndOf(k, m) \in 1..(Len(Printed[k]) + 1)
  <1>1. /\ ~IsMacro(funcs[k]) /\ funcs[k] \in Entries /\ Printed[k] \in Seq(Lines)
        /\ Len(Printed[k]) \in Nat /\ DOMAIN Printed[k] = 1..Len(Printed[k])
    BY LineInstruction, PrintedType
  <1>2. PICK pos, fin : Arranged(funcs[k], 1, Printed[k], pos, fin)
    BY <1>1, PrintedType DEF HasOrder
  <1>3. PICK j \in 1..Size(funcs[k]) : m = pos[j]
    BY <1>1, <1>2, ArrangedLines
  <1>4. Printed[k][m] = Main(funcs[k], j)
    BY <1>1, <1>2, <1>3, ArrangedLines
  <1>5. j \in Skips(funcs[k], 1)
    BY <1>1, <1>4, MainType DEF Skips
  <1>6. EndOf(k, m) = fin[j]
    BY <1>1, <1>2, <1>3, <1>5, EndOfSkip
  <1>7. fin[j] \in 1..Len(Printed[k])
    BY <1>1, <1>2, <1>5, ArrangedLines
  <1>8. QED
    BY <1>1, <1>6, <1>7

LEMMA LandBehind ==
  ASSUME Tables, text = Printed
  PROVE  SkipsLandBehind
  <1> SUFFICES ASSUME NEW k \in DOMAIN text, text[k] # <<>>
               PROVE  LET lines == { m \in DOMAIN text[k] : text[k][m].type # "end" } IN
                        /\ Cardinality(lines) = Len(funcs[k].opcodes)
                        /\ \A m \in lines :
                              LET next == From(k, m + 1) IN
                                /\ OffsetOf(k, next) = text[k][m].at + 2
                                /\ text[k][m].type = "if" =>
                                      LET behind == From(k, EndOf(k, m)) IN
                                      IF next \in DOMAIN text[k] /\ text[k][next].type = "if"
                                      THEN behind = Len(text[k]) + 1
                                      ELSE next \in DOMAIN text[k] =>
                                               OffsetOf(k, behind) = text[k][m].at + 4
    BY DEF SkipsLandBehind
  <1> DEFINE f == funcs[k]
             q == text[k]
             d == Len(q)
             at(p) == IF p \in 1..d THEN q[p].at ELSE Node(f, Size(f) + 1)
  <1>1. k \in DOMAIN funcs /\ q = Printed[k] /\ ~IsMacro(f)
    BY PrintedType
  <1>2. f \in Entries /\ q \in Seq(Lines) /\ d \in Nat /\ DOMAIN q = 1..d
    BY <1>1, PrintedType
  <1>3. PICK pos, fin : Arranged(f, 1, q, pos, fin)
    BY <1>1, PrintedType DEF HasOrder
  <1>4. Cardinality({ m \in DOMAIN q : q[m].type # "end" }) = Size(f)
    BY <1>2, <1>3, LinesCounted
  <1>5. Size(f) \in Nat /\ Size(f) = Len(f.opcodes)
    BY <1>2, FunctionFacts DEF Size
  <1>6. f.offset + 2 * Size(f) = Node(f, Size(f) + 1)
    BY <1>5 DEF Node
  <1>7. \A p : OffsetOf(k, p) = at(p)
    BY <1>2, <1>5, <1>6 DEF OffsetOf
  <1>8. \A j \in 1..Size(f) : pos[j] \in 1..d /\ at(pos[j]) = Node(f, j)
    BY <1>2, <1>3, ArrangedLines
  <1>9. at(d + 1) = Node(f, Size(f) + 1)
    BY <1>2
  <1>10. ASSUME NEW m \in DOMAIN q, q[m].type # "end"
         PROVE  LET next == From(k, m + 1) IN
                  /\ OffsetOf(k, next) = q[m].at + 2
                  /\ q[m].type = "if" =>
                        LET behind == From(k, EndOf(k, m)) IN
                        IF next \in DOMAIN q /\ q[next].type = "if"
                        THEN behind = d + 1
                        ELSE next \in DOMAIN q => OffsetOf(k, behind) = q[m].at + 4
    <2> DEFINE next == From(k, m + 1)
               behind == From(k, EndOf(k, m))
    <2>1. PICK j \in 1..Size(f) : m = pos[j]
      BY <1>2, <1>3, <1>10, ArrangedLines
    <2>2. q[m] = Main(f, j) /\ q[m].at = Node(f, j)
      BY <1>2, <1>3, <2>1, ArrangedLines
    <2>3. m + 1 \in 1..(d + 1)
      BY <1>2
    <2>4. Ahead(q, pos[j] + 1, next)
      BY <1>2, <2>1, <2>3, FromAhead
    <2> HIDE DEF next, behind, at, d, q, f
    <2>5. \/ next \in 1..d /\ j + 1 \in 1..Size(f) /\ next = pos[j + 1]
          \/ next = d + 1 /\ j = Size(f)
      BY <1>2, <1>3, <2>4, NextAhead DEF d
    <2>6. Node(f, j + 1) = Node(f, j) + 2 /\ Node(f, j + 2) = Node(f, j) + 4
      BY <1>2, NodeStep
    <2>7. at(next) = q[m].at + 2
      BY <1>8, <1>9, <2>2, <2>5, <2>6
    <2>8. ASSUME q[m].type = "if"
          PROVE  IF next \in DOMAIN q /\ q[next].type = "if"
                 THEN behind = d + 1
                 ELSE next \in DOMAIN q => at(behind) = q[m].at + 4
      <3>1. IsSkip(f.opcodes[j])
        BY <1>2, <2>2, <2>8, MainType
      <3>2. j \in Skips(f, 1)
        BY <3>1 DEF Skips
      <3>3. EndOf(k, m) = fin[j]
        BY <1>2, <1>3, <2>1, <3>2, EndOfSkip DEF q
      <3>4. fin[j] \in 1..d /\ fin[j] \in 1..(d + 1)
        <4>1. fin[j] \in 1..d
          BY <1>2, <1>3, <3>2, ArrangedLines DEF d
        <4>2. QED
          BY <1>2, <4>1
      <3>5. Ahead(q, fin[j], behind)
        BY <1>2, <3>3, <3>4, FromAhead DEF q, d, behind
      <3>6. \/ behind \in 1..d /\ Single(f, j + 1) /\ j + 2 \in 1..Size(f) /\ behind = pos[j + 2]
            \/ behind = d + 1 /\ (Single(f, j + 1) => j + 1 = Size(f))
        BY <1>2, <1>3, <3>2, <3>5, EndAhead DEF d
      <3>7. ASSUME next \in DOMAIN q
            PROVE  /\ next = pos[j + 1] /\ j + 1 \in 1..Size(f)
                   /\ Single(f, j + 1) <=> q[next].type # "if"
        <4>1. next # d + 1
          BY <1>2, <3>7
        <4>2. next = pos[j + 1] /\ j + 1 \in 1..Size(f)
          BY <2>5, <4>1
        <4>3. q[next] = Main(f, j + 1)
          BY <1>2, <1>3, <4>2, ArrangedLines
        <4>4. q[next].type = "if" <=> IsSkip(f.opcodes[j + 1])
          BY <1>2, <4>2, <4>3, MainType
        <4>5. j + 1 <= Size(f)
          BY <1>5, <4>2
        <4>6. QED
          BY <4>2, <4>4, <4>5 DEF Single
      <3>8. CASE next \notin DOMAIN q
        BY <3>8
      <3>9. CASE next \in DOMAIN q /\ q[next].type = "if"
        BY <3>6, <3>7, <3>9
      <3>10. CASE next \in DOMAIN q /\ q[next].type # "if"
        <4>1. Single(f, j + 1)
          BY <3>7, <3>10
        <4>2. at(behind) = Node(f, j + 2)
          <5>1. CASE j + 2 \in 1..Size(f) /\ behind = pos[j + 2]
            BY <1>8, <5>1
          <5>2. CASE behind = d + 1 /\ j + 1 = Size(f)
            <6>1. Size(f) + 1 = j + 2
              BY <1>5, <5>2
            <6>2. QED
              BY <1>9, <5>2, <6>1
          <5>3. QED
            BY <3>6, <4>1, <5>1, <5>2
        <4>3. QED
          BY <2>2, <2>6, <3>10, <4>2
      <3>11. QED
        BY <3>8, <3>9, <3>10
    <2>9. QED
      BY <1>7, <2>7, <2>8 DEF next, behind
  <1>11. QED
    BY <1>4, <1>5, <1>10

-----------------------------------------------------------------------------
(* How the call stack changes.                                             *)

LEMMA StackFacts ==
  ASSUME Stack, calls # <<>>
  PROVE  /\ calls \in Seq(Standing) /\ Len(calls) \in Nat \ {0} /\ DOMAIN calls = 1..Len(calls)
         /\ last \in Standing
         /\ \A d \in 1..(Len(calls) - 1) : calls[d] \in Waiting
  <1>1. calls \in Seq(Standing) /\ \A d \in 1..(Len(calls) - 1) : calls[d] \in Waiting
    BY DEF Stack, Stacked
  <1>2. Len(calls) \in 1..Len(calls) /\ Len(calls) \in Nat \ {0} /\ DOMAIN calls = 1..Len(calls)
    BY <1>1, LastIndex
  <1>3. last \in Standing
    BY <1>1, <1>2, ElementOfSeq DEF last
  <1>4. QED
    BY <1>1, <1>2, <1>3

LEMMA NonEmpty == ASSUME NEW S, NEW s \in Seq(S), Len(s) \in Nat \ {0} PROVE s # <<>>
  BY EmptySeq

LEMMA SetStack ==
  ASSUME NEW s, Stacked(s), NEW e \in Standing
  PROVE  Stacked([s EXCEPT ![Len(s)] = e])
  <1> DEFINE t == [s EXCEPT ![Len(s)] = e]
  <1>1. s \in Seq(Standing) /\ s # <<>>
    BY DEF Stacked
  <1>2. t \in Seq(Standing) /\ Len(t) = Len(s) /\ \A d \in 1..(Len(s) - 1) : t[d] = s[d]
    BY <1>1, SetLast
  <1>3. Len(s) \in Nat \ {0}
    BY <1>1, LastIndex
  <1> HIDE DEF t
  <1>4. t # <<>>
    BY <1>2, <1>3, NonEmpty
  <1>5. \A d \in 1..(Len(t) - 1) : t[d] \in Waiting
    BY <1>2 DEF Stacked
  <1>6. Stacked(t)
    BY <1>2, <1>4, <1>5 DEF Stacked
  <1>7. QED
    BY <1>6 DEF t

LEMMA PushStack ==
  ASSUME NEW s, Stacked(s), s[Len(s)] \in Waiting, NEW e \in Standing
  PROVE  Stacked(Append(s, e))
  <1> DEFINE t == Append(s, e)
  <1>1. s \in Seq(Standing) /\ Len(s) \in Nat
    BY DEF Stacked
  <1>2. t \in Seq(Standing) /\ Len(t) = Len(s) + 1 /\ \A d \in 1..Len(s) : t[d] = s[d]
    BY <1>1, AddLast
  <1> HIDE DEF t
  <1>3. t # <<>>
    <2>1. Len(t) \in Nat \ {0}
      BY <1>1, <1>2
    <2>2. QED
      BY <1>2, <2>1, NonEmpty
  <1>4. \A d \in 1..(Len(t) - 1) : d \in 1..Len(s) /\ (d = Len(s) \/ d \in 1..(Len(s) - 1))
    BY <1>1, <1>2
  <1>5. \A d \in 1..(Len(t) - 1) : t[d] \in Waiting
    BY <1>2, <1>4 DEF Stacked
  <1>6. Stacked(t)
    BY <1>2, <1>3, <1>5 DEF Stacked
  <1>7. QED
    BY <1>6 DEF t

\* The last two elements give way to one.
LEMMA ReplaceLast ==
  ASSUME NEW S, NEW s \in Seq(S), Len(s) > 1, NEW e \in S
  PROVE  LET u == Append(SubSeq(s, 1, Len(s) - 2), e) IN
            /\ u \in Seq(S) /\ u # <<>> /\ Len(u) = Len(s) - 1 /\ u[Len(s) - 1] = e
            /\ \A k \in 1..(Len(s) - 2) : u[k] = s[k]
  <1> DEFINE d == Len(s) - 2
             r == SubSeq(s, 1, d)
             u == Append(r, e)
  <1>1. Len(s) \in Nat /\ d \in Nat /\ d + 1 = Len(s) - 1 /\ \A k \in 1..d : k \in 1..Len(s)
    OBVIOUS
  <1>2. \A k \in 1..d : s[k] \in S
    BY <1>1, ElementOfSeq
  <1> HIDE DEF d
  <1>3. r \in Seq(S) /\ Len(r) = d /\ \A k \in 1..d : r[k] = s[k]
    <2>1. /\ r \in Seq(S)
          /\ Len(r) = IF 1 <= d THEN d - 1 + 1 ELSE 0
          /\ \A k \in 1..(d - 1 + 1) : r[k] = s[1 + k - 1]
      BY <1>1, <1>2, SubSeqProperties
    <2>2. d - 1 + 1 = d /\ (\A k \in 1..d : 1 + k - 1 = k) /\ (~(1 <= d) => d = 0)
      BY <1>1
    <2>3. QED
      BY <2>1, <2>2
  <1> HIDE DEF r
  <1>4. u \in Seq(S) /\ Len(u) = d + 1 /\ u[d + 1] = e /\ \A k \in 1..d : u[k] = s[k]
    BY <1>3, AddLast
  <1> HIDE DEF u
  <1>5. Len(u) \in Nat \ {0}
    BY <1>1, <1>4
  <1>6. u # <<>>
    BY <1>4, <1>5, NonEmpty
  <1>7. Len(u) = Len(s) - 1 /\ u[Len(s) - 1] = e
    BY <1>1, <1>4
  <1>8. QED
    BY <1>4, <1>6, <1>7 DEF u, r, d

LEMMA PopStack ==
  ASSUME NEW s, Stacked(s), Len(s) > 1, NEW e \in Standing
  PROVE  Stacked(Append(SubSeq(s, 1, Len(s) - 2), e))
  <1> DEFINE u == Append(SubSeq(s, 1, Len(s) - 2), e)
  <1>1. s \in Seq(Standing) /\ Len(s) \in Nat
    BY DEF Stacked
  <1>2. /\ u \in Seq(Standing) /\ u # <<>> /\ Len(u) = Len(s) - 1
        /\ \A k \in 1..(Len(s) - 2) : u[k] = s[k]
    BY <1>1, ReplaceLast
  <1> HIDE DEF u
  <1>3. \A k \in 1..(Len(u) - 1) : k \in 1..(Len(s) - 2) /\ k \in 1..(Len(s) - 1)
    BY <1>1, <1>2
  <1>4. \A k \in 1..(Len(u) - 1) : u[k] \in Waiting
    BY <1>2, <1>3 DEF Stacked
  <1>5. QED
    BY <1>2, <1>4 DEF Stacked, u

LEMMA StackStep ==
  ASSUME funcs' = funcs, Stacked(calls')
  PROVE  Stack' /\ calls' # <<>>
  BY TablesStay DEF Stack, Stacked

\* A call may stand at any line of its function.
LEMMA MovedStands ==
  ASSUME NEW call \in Standing, NEW m \in 1..(Len(Printed[call.func]) + 1), Tables
  PROVE  [call EXCEPT !.line = m] \in Standing
  <1>1. call \in [func : DOMAIN funcs, line : Nat]
    BY DEF Standing
  <1>2. m \in Nat
    BY <1>1, PrintedType
  <1>3. [call EXCEPT !.line = m] = [func |-> call.func, line |-> m]
    BY <1>1
  <1>4. QED
    BY <1>1, <1>2, <1>3 DEF Standing

LEMMA GoToKeeps ==
  ASSUME Tables, Stack, calls # <<>>, funcs' = funcs,
         NEW m \in 1..(Len(Printed[last.func]) + 1), GoTo(m)
  PROVE  Stack' /\ calls' # <<>>
  <1>1. calls \in Seq(Standing) /\ Len(calls) \in DOMAIN calls /\ last \in Standing
    BY StackFacts
  <1>2. [last EXCEPT !.line = m] \in Standing
    BY <1>1, MovedStands
  <1>3. calls' = [calls EXCEPT ![Len(calls)] = [last EXCEPT !.line = m]]
    BY <1>1 DEF GoTo, last
  <1>4. Stacked(calls)
    BY DEF Stack
  <1>5. Stacked([calls EXCEPT ![Len(calls)] = [last EXCEPT !.line = m]])
    BY <1>2, <1>4, SetStack
  <1>6. QED
    BY <1>3, <1>5, StackStep

-----------------------------------------------------------------------------
(* What the tables hold when they are printed.                             *)

LEMMA TablesHold ==
  ASSUME CInv, ~HasIndexedJump, WritesInBounds
  PROVE  Tables
  <1>1. GInv /\ funcs \in Seq(Entries)
    BY TypeTo DEF CInv, GInv
  <1>2. \A k \in DOMAIN funcs : Size(funcs[k]) \in Nat /\ DOMAIN funcs[k].opcodes = 1..Size(funcs[k])
                                /\ funcs[k].opcodes \in Seq(Word)
    BY <1>1, TableFacts
  <1>3. \A k \in DOMAIN funcs : Size(funcs[k]) # 0
    BY <1>2, EmptySeq DEF WritesInBounds, Size
  <1>4. ASSUME NEW k \in DOMAIN funcs PROVE InRom(funcs[k].offset)
    <2>1. 1 \in 1..Size(funcs[k])
      BY <1>2, <1>3
    <2>2. InRom(Node(funcs[k], 1))
      BY <2>1 DEF CInv, Faithful
    <2>3. Node(funcs[k], 1) = funcs[k].offset
      BY <1>1, TableFacts DEF Node
    <2>4. QED
      BY <2>2, <2>3
  <1>5. \A j, k \in DOMAIN funcs : j # k => funcs[j].offset # funcs[k].offset
    BY <1>1, <1>4 DEF GInv, GrabbedOnce
  <1>6. \A k \in DOMAIN funcs : \A n \in 1..Size(funcs[k]) :
           Class(funcs[k].opcodes[n]) # OP_JMP_INDEX
    BY <1>2 DEF HasIndexedJump
  <1>7. QED
    BY <1>1, <1>3, <1>5, <1>6 DEF Tables

LEMMA CompilesAccepted ==
  ASSUME Tables, Compiles
  PROVE  Accepted
  <1>1. funcs \in Seq(Entries)
    BY DEF Tables
  <1>2. 0 \in Resolved
    BY <1>1, LinksResolve DEF Compiles
  <1>3. ASSUME NEW k \in DOMAIN funcs, NEW m \in DOMAIN Printed[k], Printed[k][m].type = "do"
        PROVE  /\ Class(Printed[k][m].opcode) = OP_JMP
                    => TargetOf(Printed[k][m].opcode) \in Offsets(Printed[k])
               /\ Class(Printed[k][m].opcode) = OP_CALL
                    => TargetOf(Printed[k][m].opcode) \in Resolved
    <2>1. LineCompiles(k, Printed[k][m])
      BY DEF Compiles
    <2>2. Class(Printed[k][m].opcode) = OP_JMP
             => TargetOf(Printed[k][m].opcode) \in Offsets(Printed[k])
      BY <1>3, <2>1 DEF LineCompiles
    <2>3. Class(Printed[k][m].opcode) = OP_CALL => Links(TargetOf(Printed[k][m].opcode), k - 1)
      BY <1>3, <2>1 DEF LineCompiles
    <2>4. QED
      BY <1>1, <2>2, <2>3, LinksResolve
  <1>4. QED
    BY <1>2, <1>3 DEF Accepted

-----------------------------------------------------------------------------
(* The invariant holds at the start, and every action keeps it.            *)

LEMMA RInvInit == RInit => RInv
  <1> SUFFICES ASSUME RInit PROVE RInv
    OBVIOUS
  <1>1. CInv /\ rom \in Roms /\ status = "grabbing" /\ text = <<>> /\ calls = <<>>
    BY CInvInit DEF RInit, Init
  <1>2. IsMemory(ram)
    BY <1>1, BootType DEF RInit
  <1>3. 0 \in Byte /\ 0 \in Word
    BY WordRange DEF Byte
  <1>4. Typed
    BY <1>2, <1>3 DEF RInit, Typed
  <1>5. QED
    BY <1>1, <1>4 DEF RInv, Kept

LEMMA TypedStays == ASSUME Typed, UNCHANGED machine PROVE Typed'
  BY DEF Typed, machine

LEMMA GrabsKeeps ==
  ASSUME RInv, Grabs
  PROVE  RInv'
  <1>1. GrabNext /\ text' = text /\ calls' = calls /\ Typed'
    BY TypedStays DEF Grabs, RInv
  <1>2. status = "grabbing"
    BY <1>1 DEF GrabNext, StoreOpcode, GrabTarget, LeaveTables, EndAtJump, Advance, EndOfRom, Grabbing
  <1>3. CInv /\ text = <<>> /\ calls = <<>>
    BY <1>2 DEF RInv, Kept
  <1>4. CInv'
    BY <1>1, <1>3, CInvStep
  <1>5. status' \in {"grabbing", "grabbed", "wild"}
    BY <1>4 DEF CInv, GInv, TypeOK
  <1>6. QED
    BY <1>1, <1>3, <1>4, <1>5 DEF RInv, Kept

LEMMA StopKeeps ==
  ASSUME RInv, RejectIndexedJump \/ WriteWild
  PROVE  RInv'
  <1>1. /\ status = "grabbed" /\ status' \in {"exited", "wild"}
        /\ text' = text /\ calls' = calls /\ UNCHANGED machine
    BY DEF RejectIndexedJump, WriteWild
  <1>2. Typed' /\ text = <<>> /\ calls = <<>>
    BY <1>1, TypedStays DEF RInv, Kept
  <1>3. QED
    BY <1>1, <1>2 DEF RInv, Kept

LEMMA WriteKeeps ==
  ASSUME RInv, Write
  PROVE  RInv'
  <1>1. /\ status = "grabbed" /\ ~HasIndexedJump /\ WritesInBounds
        /\ text' = Printed /\ funcs' = funcs /\ calls' = calls /\ UNCHANGED machine
        /\ status' \in {"compiled", "rejected"} /\ (status' = "compiled" => Compiles)
    BY DEF Write
  <1>2. Typed' /\ CInv /\ calls = <<>>
    BY <1>1, TypedStays DEF RInv, Kept
  <1>3. Tables
    BY <1>1, <1>2, TablesHold
  <1>4. Tables' /\ text' = Printed' /\ Stack'
    BY <1>1, <1>2, <1>3, TablesStay DEF Stack
  <1>5. status' = "compiled" => Accepted'
    BY <1>1, <1>3, CompilesAccepted, TablesStay
  <1>6. QED
    BY <1>1, <1>2, <1>4, <1>5 DEF RInv, Kept

\* What a step of the compiled program leaves alone.
LEMMA RunKeeps ==
  ASSUME RInv, status \in {"compiled", "running"}, funcs' = funcs, text' = text,
         status' \in {"running", "returned", "closed", "outside", "deep"},
         Typed', Stack', calls' # <<>>
  PROVE  RInv'
  <1>1. text = Printed /\ Tables /\ Accepted
    BY DEF RInv, Kept
  <1>2. text' = Printed' /\ Tables' /\ Accepted'
    BY <1>1, TablesStay
  <1>3. QED
    BY <1>2 DEF RInv, Kept

\* While the compiled program runs.
LEMMA RunningFacts ==
  ASSUME RInv, status = "running"
  PROVE  /\ text = Printed /\ Tables /\ Accepted /\ Typed /\ Stack /\ calls # <<>> /\ Stacked(calls)
         /\ last \in Standing /\ last.func \in DOMAIN funcs
         /\ last.line \in 1..(Len(Printed[last.func]) + 1)
  <1>1. text = Printed /\ Tables /\ Accepted /\ Typed /\ Stack /\ calls # <<>>
    BY DEF RInv, Kept
  <1>2. last \in Standing
    BY <1>1, StackFacts
  <1>3. QED
    BY <1>1, <1>2 DEF Stack, Standing

LEMMA LineFacts ==
  ASSUME RInv, AtLine
  PROVE  /\ last.func \in DOMAIN funcs /\ last.line \in DOMAIN Printed[last.func]
         /\ here = Printed[last.func][last.line]
         /\ last.line + 1 \in 1..(Len(Printed[last.func]) + 1)
         /\ here.type # "end" => /\ here.opcode \in Word /\ Class(here.opcode) # OP_JMP_INDEX
                                 /\ here.type = "if" <=> IsSkip(here.opcode)
  <1>1. status = "running" /\ last.line \in DOMAIN text[last.func]
    BY DEF AtLine
  <1>2. text = Printed /\ Tables /\ last.func \in DOMAIN funcs
    BY <1>1, RunningFacts
  <1>3. here = Printed[last.func][last.line] /\ last.line \in DOMAIN Printed[last.func]
    BY <1>1, <1>2 DEF here
  <1>4. last.line + 1 \in 1..(Len(Printed[last.func]) + 1)
    <2>1. Len(Printed[last.func]) \in Nat /\ DOMAIN Printed[last.func] = 1..Len(Printed[last.func])
      BY <1>2, PrintedType
    <2>2. QED
      BY <1>3, <2>1
  <1>5. QED
    BY <1>2, <1>3, <1>4, PrintedLine

\* From ends at a line or behind the last one.
LEMMA FromStands ==
  ASSUME Tables, text = Printed, NEW k \in DOMAIN funcs, NEW m \in 1..(Len(Printed[k]) + 1)
  PROVE  From(k, m) \in 1..(Len(Printed[k]) + 1)
  BY PrintedType, FromAhead

LEMMA StartKeeps ==
  ASSUME RInv, Start
  PROVE  RInv'
  <1>1. /\ status = "compiled" /\ status' = "running" /\ calls' = << Entered(0) >>
        /\ funcs' = funcs /\ text' = text /\ UNCHANGED machine
    BY DEF Start
  <1>2. Tables /\ Accepted /\ Typed'
    BY <1>1, TypedStays DEF RInv, Kept
  <1>3. Entered(0) \in Standing
    BY <1>2, EnteredStands DEF Accepted
  <1>4. Stacked(<< Entered(0) >>)
    <2>1. \A e \in Standing : << e >> \in Seq(Standing) /\ Len(<< e >>) = 1 /\ << e >> # <<>>
      OBVIOUS
    <2>2. QED
      BY <1>3, <2>1 DEF Stacked
  <1>5. Stack' /\ calls' # <<>>
    BY <1>1, <1>4, StackStep
  <1>6. QED
    BY <1>1, <1>2, <1>5, RunKeeps

LEMMA ExpandKeeps ==
  ASSUME RInv, Expand
  PROVE  RInv'
  <1> DEFINE e == Entered(TargetOf(funcs[last.func].opcodes[1]))
  <1>1. /\ status = "running" /\ IsMacro(funcs[last.func])
        /\ calls' = [calls EXCEPT ![Len(calls)] = e]
        /\ status' = status /\ funcs' = funcs /\ text' = text /\ UNCHANGED machine
    BY DEF Expand, InMacro, gvars
  <1>2. Tables /\ Stacked(calls) /\ last \in Standing /\ Typed'
    BY <1>1, RunningFacts, TypedStays
  <1>3. TargetOf(funcs[last.func].opcodes[1]) \in Resolved
    BY <1>1, <1>2 DEF Standing
  <1>4. e \in Standing
    BY <1>2, <1>3, EnteredStands
  <1> HIDE DEF e
  <1>5. Stacked([calls EXCEPT ![Len(calls)] = e])
    BY <1>2, <1>4, SetStack
  <1>6. Stack' /\ calls' # <<>>
    BY <1>1, <1>5, StackStep
  <1>7. QED
    BY <1>1, <1>2, <1>6, RunKeeps

LEMMA StatementKeeps ==
  ASSUME RInv, Statement
  PROVE  RInv'
  <1>1. /\ AtLine /\ here.type = "do" /\ IsStatement(here.opcode) /\ InBounds(here.opcode)
        /\ \E m \in Effects(here.opcode) : v' = m.v /\ i' = m.i /\ ram' = m.ram /\ fb' = m.fb
        /\ GoTo(From(last.func, last.line + 1))
        /\ status' \in {"running", "closed"} /\ funcs' = funcs /\ text' = text
    BY DEF Statement, Doing
  <1>2. status = "running"
    BY <1>1 DEF AtLine
  <1>3. /\ here.opcode \in Word /\ Class(here.opcode) # OP_JMP_INDEX /\ ~IsSkip(here.opcode)
        /\ last.func \in DOMAIN funcs /\ last.line + 1 \in 1..(Len(Printed[last.func]) + 1)
    BY <1>1, LineFacts
  <1>4. text = Printed /\ Tables /\ Stack /\ calls # <<>> /\ Typed
    BY <1>2, RunningFacts
  <1>5. Typed'
    <2>1. PICK m \in Effects(here.opcode) : v' = m.v /\ i' = m.i /\ ram' = m.ram /\ fb' = m.fb
      BY <1>1
    <2>2. MachineIs(Machine)
      BY <1>4, MachineFields DEF Typed, MachineIs
    <2>3. MachineIs(m)
      BY <1>1, <1>3, <2>2, EffectsType
    <2>4. QED
      BY <2>1, <2>3 DEF Typed, MachineIs
  <1>6. From(last.func, last.line + 1) \in 1..(Len(Printed[last.func]) + 1)
    BY <1>3, <1>4, FromStands
  <1>7. Stack' /\ calls' # <<>>
    BY <1>1, <1>4, <1>6, GoToKeeps
  <1>8. QED
    BY <1>1, <1>2, <1>5, <1>7, RunKeeps

LEMMA GotoKeeps ==
  ASSUME RInv, Goto
  PROVE  RInv'
  <1> DEFINE t == TargetOf(here.opcode)
             k == last.func
  <1>1. /\ AtLine /\ here.type = "do" /\ Class(here.opcode) = OP_JMP
        /\ GoTo(Labelled(k, t))
        /\ status' = status /\ funcs' = funcs /\ text' = text /\ UNCHANGED machine
    BY DEF Goto, Doing, gvars
  <1>2. status = "running"
    BY <1>1 DEF AtLine
  <1>3. text = Printed /\ Tables /\ Accepted /\ Stack /\ calls # <<>> /\ Typed'
    BY <1>1, <1>2, RunningFacts, TypedStays
  <1>4. k \in DOMAIN funcs /\ last.line \in DOMAIN Printed[k] /\ here = Printed[k][last.line]
    BY <1>1, LineFacts
  <1>5. t \in Offsets(Printed[k])
    BY <1>1, <1>3, <1>4 DEF Accepted
  <1>6. Labelled(k, t) \in 1..Len(Printed[k]) /\ Len(Printed[k]) \in Nat
    BY <1>3, <1>4, <1>5, LabelStands, PrintedType
  <1>7. Labelled(k, t) \in 1..(Len(Printed[k]) + 1)
    BY <1>6
  <1>8. Stack' /\ calls' # <<>>
    BY <1>1, <1>3, <1>7, GoToKeeps
  <1>9. QED
    BY <1>1, <1>2, <1>3, <1>8, RunKeeps

LEMMA CallKeeps ==
  ASSUME RInv, Call
  PROVE  RInv'
  <1> DEFINE e == Entered(TargetOf(here.opcode))
  <1>1. /\ AtLine /\ here.type = "do" /\ Class(here.opcode) = OP_CALL
        /\ calls' = Append(calls, e)
        /\ status' = status /\ funcs' = funcs /\ text' = text /\ UNCHANGED machine
    BY DEF Call, Doing, gvars
  <1>2. status = "running"
    BY <1>1 DEF AtLine
  <1>3. Tables /\ Accepted /\ Stacked(calls) /\ last \in Standing /\ Typed'
    BY <1>1, <1>2, RunningFacts, TypedStays
  <1>4. /\ last.func \in DOMAIN funcs /\ last.line \in DOMAIN Printed[last.func]
        /\ here = Printed[last.func][last.line]
    BY <1>1, LineFacts
  <1>5. TargetOf(here.opcode) \in Resolved
    BY <1>1, <1>3, <1>4 DEF Accepted
  <1>6. e \in Standing
    BY <1>3, <1>5, EnteredStands
  <1>7. calls[Len(calls)] \in Waiting
    BY <1>1, <1>3, <1>4 DEF Waiting, last
  <1> HIDE DEF e
  <1>8. Stacked(Append(calls, e))
    BY <1>3, <1>6, <1>7, PushStack
  <1>9. Stack' /\ calls' # <<>>
    BY <1>1, <1>8, StackStep
  <1>10. QED
    BY <1>1, <1>2, <1>3, <1>9, RunKeeps

\* The steps that leave the compiled program.
LEMMA LeaveKeeps ==
  ASSUME RInv, LeaveArrays \/ CallTooDeep \/ ReturnToMain
  PROVE  RInv'
  <1>1. /\ status = "running" /\ status' \in {"outside", "deep", "returned"}
        /\ funcs' = funcs /\ text' = text /\ calls' = calls /\ UNCHANGED machine
    BY DEF LeaveArrays, CallTooDeep, ReturnToMain, Doing, AtLine, AtReturn
  <1>2. Stacked(calls) /\ Typed'
    BY <1>1, RunningFacts, TypedStays
  <1>3. Stack' /\ calls' # <<>>
    BY <1>1, <1>2, StackStep
  <1>4. QED
    BY <1>1, <1>2, <1>3, RunKeeps

LEMMA ReturnFromCallKeeps ==
  ASSUME RInv, Return
  PROVE  RInv'
  <1> DEFINE caller == calls[Len(calls) - 1]
             k == caller.func
             m == From(k, caller.line + 1)
             e == [caller EXCEPT !.line = m]
  <1>1. /\ status = "running" /\ Len(calls) > 1
        /\ calls' = Append(SubSeq(calls, 1, Len(calls) - 2), e)
        /\ status' = status /\ funcs' = funcs /\ text' = text /\ UNCHANGED machine
    BY DEF Return, AtReturn, gvars
  <1>2. text = Printed /\ Tables /\ Stacked(calls) /\ Typed'
    BY <1>1, RunningFacts, TypedStays
  <1>3. caller \in Waiting
    <2>1. Len(calls) \in Nat
      BY <1>2 DEF Stacked
    <2>2. Len(calls) - 1 \in 1..(Len(calls) - 1)
      BY <1>1, <2>1
    <2>3. QED
      BY <1>2, <2>2 DEF Stacked
  <1> HIDE DEF caller
  <1>4. caller \in Standing /\ k \in DOMAIN funcs /\ caller.line \in DOMAIN Printed[k]
    BY <1>3 DEF Waiting, Standing
  <1>5. caller.line + 1 \in 1..(Len(Printed[k]) + 1)
    <2>1. DOMAIN Printed[k] = 1..Len(Printed[k]) /\ Len(Printed[k]) \in Nat
      BY <1>2, <1>4, PrintedType
    <2>2. QED
      BY <1>4, <2>1
  <1>6. m \in 1..(Len(Printed[k]) + 1)
    BY <1>2, <1>4, <1>5, FromStands
  <1> HIDE DEF m
  <1>7. e \in Standing
    BY <1>2, <1>4, <1>6, MovedStands
  <1> HIDE DEF e
  <1>8. Stacked(Append(SubSeq(calls, 1, Len(calls) - 2), e))
    BY <1>1, <1>2, <1>7, PopStack
  <1>9. Stack' /\ calls' # <<>>
    BY <1>1, <1>8, StackStep
  <1>10. QED
    BY <1>1, <1>2, <1>9, RunKeeps

LEMMA IfKeeps ==
  ASSUME RInv, EnterIf \/ PassIf
  PROVE  RInv'
  <1> DEFINE k == last.func
  <1>1. /\ AtLine /\ here.type = "if"
        /\ \E m \in {last.line + 1, EndOf(k, last.line)} : GoTo(From(k, m))
        /\ status' = status /\ funcs' = funcs /\ text' = text /\ UNCHANGED machine
    BY DEF EnterIf, PassIf, gvars
  <1>2. status = "running"
    BY <1>1 DEF AtLine
  <1>3. text = Printed /\ Tables /\ Stack /\ calls # <<>> /\ Typed'
    BY <1>1, <1>2, RunningFacts, TypedStays
  <1>4. /\ k \in DOMAIN funcs /\ last.line \in DOMAIN Printed[k] /\ here = Printed[k][last.line]
        /\ last.line + 1 \in 1..(Len(Printed[k]) + 1) /\ IsSkip(here.opcode)
    BY <1>1, LineFacts
  <1>5. EndOf(k, last.line) \in 1..(Len(Printed[k]) + 1)
    BY <1>1, <1>3, <1>4, SkipHasEnd
  <1>6. PICK m \in 1..(Len(Printed[k]) + 1) : GoTo(From(k, m))
    BY <1>1, <1>4, <1>5
  <1>7. From(k, m) \in 1..(Len(Printed[k]) + 1)
    BY <1>3, <1>4, FromStands
  <1>8. Stack' /\ calls' # <<>>
    BY <1>1, <1>3, <1>6, <1>7, GoToKeeps
  <1>9. QED
    BY <1>1, <1>2, <1>3, <1>8, RunKeeps

LEMMA RInvStep == RInv /\ [RNext]_rvars => RInv'
  <1> SUFFICES ASSUME RInv, [RNext]_rvars PROVE RInv'
    OBVIOUS
  <1>1. CASE Grabs
    BY <1>1, GrabsKeeps
  <1>2. CASE RejectIndexedJump \/ WriteWild
    BY <1>2, StopKeeps
  <1>3. CASE Write
    BY <1>3, WriteKeeps
  <1>4. CASE Runs
    <2>1. CASE Start
      BY <2>1, StartKeeps
    <2>2. CASE Expand
      BY <2>2, ExpandKeeps
    <2>3. CASE Statement
      BY <2>3, StatementKeeps
    <2>4. CASE Goto
      BY <2>4, GotoKeeps
    <2>5. CASE Call
      BY <2>5, CallKeeps
    <2>6. CASE Return
      BY <2>6, ReturnFromCallKeeps
    <2>7. CASE EnterIf \/ PassIf
      BY <2>7, IfKeeps
    <2>8. CASE LeaveArrays \/ CallTooDeep \/ ReturnToMain
      BY <2>8, LeaveKeeps
    <2>9. QED
      BY <1>4, <2>1, <2>2, <2>3, <2>4, <2>5, <2>6, <2>7, <2>8 DEF Runs
  <1>5. CASE UNCHANGED rvars
    <2>1. /\ status' = status /\ text' = text /\ calls' = calls /\ funcs' = funcs
          /\ UNCHANGED gvars /\ UNCHANGED machine
      BY <1>5 DEF rvars, gvars
    <2>2. Typed'
      BY <2>1, TypedStays DEF RInv
    <2>3. CInv => CInv'
      BY <2>1, CInvStep
    <2>4. Stack => Stack'
      BY <2>1, StackStep DEF Stack
    <2>5. Tables' = Tables /\ Printed' = Printed /\ Accepted' = Accepted
      BY <2>1, TablesStay
    <2>6. QED
      BY <2>1, <2>2, <2>3, <2>4, <2>5 DEF RInv
  <1>6. QED
    BY <1>1, <1>2, <1>3, <1>4, <1>5 DEF RNext

LEMMA MachineTyped ==
  ASSUME RInv
  PROVE  MachineTypeOK
  <1>1. v \in [Reg -> Byte] /\ i \in Word /\ IsMemory(ram) /\ fb \subseteq Pixels
    BY DEF RInv, Typed
  <1>2. ASSUME NEW d \in DOMAIN calls
        PROVE  /\ calls[d].func \in DOMAIN text
               /\ calls[d].line \in 1..(Len(text[calls[d].func]) + 1)
               /\ d < Len(calls) => Class(text[calls[d].func][calls[d].line].opcode) = OP_CALL
    <2>1. calls # <<>>
      BY <1>2
    <2>2. text = Printed /\ Tables /\ Stacked(calls)
      BY <2>1 DEF RInv, Stack
    <2>3. calls \in Seq(Standing) /\ DOMAIN calls = 1..Len(calls) /\ Len(calls) \in Nat
      BY <2>2, LenProperties DEF Stacked
    <2>4. calls[d] \in Standing
      BY <2>3, ElementOfSeq
    <2>5. calls[d].func \in DOMAIN funcs /\ calls[d].line \in 1..(Len(Printed[calls[d].func]) + 1)
      BY <2>4 DEF Standing
    <2>6. d < Len(calls) => d \in 1..(Len(calls) - 1)
      BY <2>3
    <2>7. d < Len(calls) => Class(Printed[calls[d].func][calls[d].line].opcode) = OP_CALL
      BY <2>2, <2>6 DEF Stacked, Waiting
    <2>8. QED
      BY <2>2, <2>5, <2>7, PrintedType
  <1>3. QED
    BY <1>1, <1>2 DEF MachineTypeOK

LEMMA SkipsLand ==
  ASSUME RInv
  PROVE  SkipsLandBehind
  <1>1. CASE status \in Kept
    BY <1>1, LandBehind DEF RInv
  <1>2. CASE status \notin Kept
    <2>1. DOMAIN text = {}
      BY <1>2 DEF RInv
    <2>2. QED
      BY <2>1 DEF SkipsLandBehind
  <1>3. QED
    BY <1>1, <1>2

-----------------------------------------------------------------------------
(* The properties of MCRecomp.                                             *)

\* Whatever is printed and accepted by the compiler, the compiled program keeps its
\* variables in their C types, and every active call stands at a line of its function,
\* the callers at calls (astWrite in src/recomp/src/main.c).
THEOREM MachineCorrect == RSpec => []MachineTypeOK
  <1>1. RSpec => []RInv
    BY RInvInit, RInvStep, PTL DEF RSpec
  <1>2. QED
    BY <1>1, MachineTyped, PTL

\* However functions are nested in ifs, each instruction is printed once, behind it
\* comes the one at the next address, and a skip lands behind the one that it skips
\* unless that is a skip as well (parseInstruction and astWrite).
THEOREM SkipsCorrect == RSpec => []SkipsLandBehind
  <1>1. RSpec => []RInv
    BY RInvInit, RInvStep, PTL DEF RSpec
  <1>2. QED
    BY <1>1, SkipsLand, PTL

-----------------------------------------------------------------------------
(* The addresses that the compiled program is at.                           *)

\* Every instruction was read from the ROM.
Fits == rom \in Roms /\ \A k \in DOMAIN funcs : \A n \in 1..Size(funcs[k]) : InRom(Node(funcs[k], n))

\* The offset of the instruction that a call is at.
Spot(call) == IF IsMacro(funcs[call.func]) THEN funcs[call.func].offset
              ELSE OffsetOf(call.func, call.line)

LEMMA FitsRam ==
  ASSUME Fits, NEW k \in DOMAIN funcs, NEW n \in 1..Size(funcs[k])
  PROVE  Node(funcs[k], n) \in Nat /\ Node(funcs[k], n) < RamSize - Entry
  <1>1. Node(funcs[k], n) \in 0..(romSize - 1)
    BY DEF Fits, InRom
  <1>2. romSize \in Nat /\ romSize <= RamSize - Entry /\ RamSize - Entry \in Int
    BY RomType DEF Fits, RamSize, Entry
  <1>3. QED
    BY <1>1, <1>2

LEMMA FirstNode ==
  ASSUME Tables, NEW k \in DOMAIN funcs
  PROVE  1 \in 1..Size(funcs[k]) /\ Node(funcs[k], 1) = funcs[k].offset
  <1>1. Size(funcs[k]) \in Nat /\ funcs[k].offset \in Nat /\ Size(funcs[k]) # 0
    BY PrintedType, FunctionFacts DEF Tables
  <1>2. QED
    BY <1>1 DEF Node

\* A target that is in the ROM is the address that the opcode has.
LEMMA TargetAddress ==
  ASSUME NEW opcode \in Word, TargetOf(opcode) < RamSize - Entry
  PROVE  Entry + TargetOf(opcode) = Addr(opcode)
  <1>1. \A a \in 0..4095 : (a - 512) % 65536 = IF a < 512 THEN a + 65024 ELSE a - 512
    OBVIOUS
  <1>2. Addr(opcode) \in 0..4095
    BY FieldTypes DEF RamSize
  <1> DEFINE a == Addr(opcode)
  <1>3. TargetOf(opcode) = (a - 512) % 65536 /\ ~(TargetOf(opcode) > 3583)
    BY <1>1, <1>2 DEF TargetOf, Entry, WordSize, RamSize
  <1> HIDE DEF a
  <1>4. QED
    BY <1>1, <1>2, <1>3 DEF Entry, a

\* The first line of a function is its first instruction.
LEMMA FirstLine ==
  ASSUME Tables, NEW k \in DOMAIN funcs, ~IsMacro(funcs[k])
  PROVE  1 \in DOMAIN Printed[k] /\ Printed[k][1].at = funcs[k].offset
  <1> DEFINE f == funcs[k]
             q == Printed[k]
  <1>1. f \in Entries /\ q \in Seq(Lines) /\ Len(q) \in Nat /\ DOMAIN q = 1..Len(q)
    BY PrintedType
  <1>2. PICK pos, fin : Arranged(f, 1, q, pos, fin)
    BY PrintedType DEF HasOrder
  <1>3. 1 \in 1..Size(f) /\ Node(f, 1) = f.offset /\ Size(f) \in Nat
    BY <1>1, FirstNode, FunctionFacts
  <1> HIDE DEF f, q
  <1>4. pos[1] \in 1..Len(q) /\ q[pos[1]].at = Node(f, 1)
    BY <1>1, <1>2, <1>3, ArrangedLines
  <1>5. \A j \in 1..Size(f) : pos[j] \in 1..Len(q) /\ (j = 1 \/ pos[1] < pos[j])
    <2>1. \A j \in 1..Size(f) : j = 1 \/ 1 < j
      BY <1>3
    <2>2. \A j \in 1..Size(f) : 1 < j => pos[1] < pos[j]
      BY <1>2, <1>3 DEF Arranged
    <2>3. QED
      BY <1>1, <1>2, <2>1, <2>2, ArrangedLines
  <1>6. 1 \in 1..Len(q)
    BY <1>1, <1>4
  <1>7. ASSUME NEW j \in Skips(f, 1) PROVE fin[j] # 1
    <2>1. j \in 1..Size(f) /\ j <= j + 1 /\ fin[j] \in 1..Len(q)
      BY <1>1, <1>2, <1>3, ArrangedLines
    <2>2. pos[j] < fin[j]
      BY <1>2, <2>1 DEF Arranged, Within
    <2>3. QED
      BY <1>1, <1>5, <2>1, <2>2
  <1>8. PICK j \in 1..Size(f) : pos[j] = 1
    BY <1>2, <1>6, <1>7 DEF Arranged
  <1>9. j = 1
    BY <1>1, <1>4, <1>5, <1>8
  <1>10. QED
    BY <1>1, <1>3, <1>4, <1>6, <1>8, <1>9 DEF f, q

\* A name leads to the function or the macro at its offset.
LEMMA EnteredSpot ==
  ASSUME Tables, text = Printed, NEW offset \in Resolved
  PROVE  /\ Spot(Entered(offset)) = offset
         /\ Fits => offset < RamSize - Entry
  <1>1. PICK k \in DOMAIN funcs : funcs[k].offset = offset
    BY DEF Resolved
  <1>2. Named(offset) = {k}
    BY <1>1 DEF Named, Tables
  <1>3. Entered(offset) = [func |-> k, line |-> 1]
    BY <1>2 DEF Entered
  <1>4. ~IsMacro(funcs[k]) => OffsetOf(k, 1) = offset
    BY <1>1, FirstLine DEF OffsetOf
  <1>5. Spot(Entered(offset)) = offset
    BY <1>1, <1>3, <1>4 DEF Spot
  <1>6. Fits => offset < RamSize - Entry
    BY <1>1, FirstNode, FitsRam
  <1>7. QED
    BY <1>5, <1>6

\* Behind a statement or an `if` comes the next instruction.
LEMMA SpotAfter ==
  ASSUME Tables, text = Printed, NEW k \in DOMAIN funcs, NEW m \in DOMAIN Printed[k],
         Printed[k][m].type # "end"
  PROVE  OffsetOf(k, From(k, m + 1)) = Printed[k][m].at + 2
  <1>1. k \in DOMAIN text /\ text[k] # <<>> /\ m \in { p \in DOMAIN text[k] : text[k][p].type # "end" }
    BY PrintedType
  <1>2. QED
    BY <1>1, LandBehind DEF SkipsLandBehind

\* Behind the end of an `if` comes the second one behind it, when the first is a statement.
LEMMA SpotBehind ==
  ASSUME Tables, text = Printed, NEW k \in DOMAIN funcs, NEW m \in DOMAIN Printed[k],
         NEW j \in 1..Size(funcs[k]), Printed[k][m] = Main(funcs[k], j),
         IsSkip(funcs[k].opcodes[j]), j # Size(funcs[k]), ~IsSkip(funcs[k].opcodes[j + 1])
  PROVE  OffsetOf(k, From(k, EndOf(k, m))) = Printed[k][m].at + 4
  <1> DEFINE f == funcs[k]
             q == Printed[k]
             next == From(k, m + 1)
  <1>1. f \in Entries /\ q \in Seq(Lines) /\ Len(q) \in Nat /\ DOMAIN q = 1..Len(q)
    BY PrintedType
  <1>2. Size(f) \in Nat /\ j + 1 \in 1..Size(f) /\ f.offset \in Nat
    <2>1. Size(f) \in Nat /\ f.offset \in Nat
      BY <1>1, FunctionFacts
    <2>2. QED
      BY <2>1
  <1>3. q[m].type = "if" /\ q[m].at = Node(f, j)
    BY <1>1, MainType
  <1>4. OffsetOf(k, next) = Node(f, j) + 2 /\ Node(f, j) + 2 = Node(f, j + 1)
    BY <1>1, <1>3, SpotAfter, NodeStep
  <1>5. m + 1 \in 1..(Len(q) + 1)
    BY <1>1
  <1>6. next \in DOMAIN q => q[next].type # "end"
    BY <1>1, <1>5, FromAhead DEF Ahead
  <1> HIDE DEF next
  <1>7. next \in DOMAIN q
    <2> SUFFICES ASSUME next \notin DOMAIN q PROVE FALSE
      OBVIOUS
    <2>1. OffsetOf(k, next) = Node(f, Size(f) + 1)
      BY <1>1, NodeStep DEF OffsetOf, Size
    <2>2. Node(f, Size(f) + 1) = f.offset + 2 * Size(f) /\ Node(f, j + 1) = f.offset + 2 * j
      BY <1>2 DEF Node
    <2>3. QED
      BY <1>2, <1>4, <2>1, <2>2
  <1>8. PICK l \in 1..Size(f) : q[next] = Main(f, l)
    BY <1>6, <1>7, LineInstruction
  <1>9. l = j + 1
    <2>1. Node(f, l) = Node(f, j + 1)
      BY <1>1, <1>4, <1>7, <1>8, MainType DEF OffsetOf
    <2>2. QED
      BY <1>1, <1>2, <2>1, NodeStep
  <1>10. q[next].type # "if"
    BY <1>1, <1>8, <1>9, MainType
  <1>11. k \in DOMAIN text /\ text[k] # <<>> /\ m \in { p \in DOMAIN text[k] : text[k][p].type # "end" }
    BY <1>3, PrintedType
  <1>12. QED
    BY <1>3, <1>7, <1>10, <1>11, LandBehind DEF SkipsLandBehind, next

-----------------------------------------------------------------------------
(* The interpreter implemented: every step of the compiled program is one of I *)
(* or a stutter.                                                           *)

\* Chip8 is the same module through I as it is here.
LEMMA SameDecoding ==
  /\ I!OP_MISC = OP_MISC /\ I!OP_JMP = OP_JMP /\ I!OP_CALL = OP_CALL
  /\ I!OP_SKIP1 = OP_SKIP1 /\ I!OP_SKIP2 = OP_SKIP2 /\ I!OP_SKIP3 = OP_SKIP3
  /\ I!OP_SKIP4 = OP_SKIP4 /\ I!OP_MOV_IMM = OP_MOV_IMM /\ I!OP_ADD_IMM = OP_ADD_IMM
  /\ I!OP_MATH = OP_MATH /\ I!OP_STORE = OP_STORE /\ I!OP_JMP_INDEX = OP_JMP_INDEX
  /\ I!OP_RAND = OP_RAND /\ I!OP_DRAW = OP_DRAW /\ I!OP_IN = OP_IN /\ I!OP_MISC2 = OP_MISC2
  /\ \A h : /\ I!Class(h) = Class(h) /\ I!X(h) = X(h) /\ I!Y(h) = Y(h)
            /\ I!Nib(h) = Nib(h) /\ I!Imm(h) = Imm(h) /\ I!Addr(h) = Addr(h)
  BY Zenon DEF OP_MISC, OP_JMP, OP_CALL, OP_SKIP1, OP_SKIP2, OP_SKIP3, OP_SKIP4, OP_MOV_IMM, OP_ADD_IMM,
         OP_MATH, OP_STORE, OP_JMP_INDEX, OP_RAND, OP_DRAW, OP_IN, OP_MISC2,
         I!OP_MISC, I!OP_JMP, I!OP_CALL, I!OP_SKIP1, I!OP_SKIP2, I!OP_SKIP3, I!OP_SKIP4,
         I!OP_MOV_IMM, I!OP_ADD_IMM, I!OP_MATH, I!OP_STORE, I!OP_JMP_INDEX, I!OP_RAND, I!OP_DRAW,
         I!OP_IN, I!OP_MISC2, Class, X, Y, Nib, Imm, Addr,
         I!Class, I!X, I!Y, I!Nib, I!Imm, I!Addr

LEMMA SameMemory ==
  /\ I!RamSize = RamSize /\ I!StackSize = StackSize /\ I!Entry = Entry /\ I!Reg = Reg
  /\ I!WordSize = WordSize /\ I!BootImages = BootImages
  /\ \A m, a : I!Peek(m, a) = Peek(m, a) /\ I!Fetch(m, a) = Fetch(m, a)
  /\ \A m, a, b : I!PokeDigits(m, a, b) = PokeDigits(m, a, b)
  <1>1. /\ I!RamSize = RamSize /\ I!StackSize = StackSize /\ I!Entry = Entry /\ I!Reg = Reg
        /\ I!WordSize = WordSize
    BY DEF RamSize, StackSize, Entry, Reg, WordSize, I!RamSize, I!StackSize, I!Entry, I!Reg,
       I!WordSize
  <1>2. I!BootImages = BootImages
    BY <1>1 DEF BootImages, Boot, I!BootImages, I!Boot
  <1>3. I!Font = Font
    BY DEF Font, I!Font
  <1>4. \A m, a : I!Peek(m, a) = Peek(m, a)
    BY <1>3, Zenon DEF Peek, I!Peek
  <1>5. \A m, a : I!Fetch(m, a) = Fetch(m, a)
    BY <1>4, Zenon DEF Fetch, I!Fetch
  <1>6. \A m, a, b : I!PokeDigits(m, a, b) = PokeDigits(m, a, b)
    BY Zenon DEF PokeDigits, I!PokeDigits
  <1>7. QED
    BY <1>1, <1>2, <1>4, <1>5, <1>6

LEMMA SameScreen ==
  /\ I!Pixels = Pixels /\ I!FrameWidth = FrameWidth
  /\ \A S, T : I!Flip(S, T) = Flip(S, T)
  /\ \A x, y, n : I!Touched(x, y, n) = Touched(x, y, n)
  /\ \A m, a, x, y, n : I!Toggled(m, a, x, y, n) = Toggled(m, a, x, y, n)
  <1>1. /\ I!FrameWidth = FrameWidth /\ I!FrameHeight = FrameHeight /\ I!Pixels = Pixels
    BY DEF FrameWidth, FrameHeight, Pixels, I!FrameWidth, I!FrameHeight, I!Pixels
  <1>2. \A S, T : I!Flip(S, T) = Flip(S, T)
    BY DEF Flip, I!Flip
  <1>3. \A n : I!SpriteCells(n) = SpriteCells(n)
    BY DEF SpriteCells, I!SpriteCells
  <1>4. \A b : I!Bits(b) = Bits(b)
    BY Zenon DEF Bits, I!Bits
  <1>5. \A x, y, r, j : I!Target(x, y, r, j) = Target(x, y, r, j)
    BY Zenon DEF Target, TargetColumn, TargetRow, I!Target, I!TargetColumn, I!TargetRow,
       FrameWidth, FrameHeight, I!FrameWidth, I!FrameHeight
  <1>6. \A x, y, n : I!Touched(x, y, n) = Touched(x, y, n)
    BY <1>3, <1>5 DEF Touched, I!Touched
  <1>7. \A m, a, x, y, n : I!Toggled(m, a, x, y, n) = Toggled(m, a, x, y, n)
    <2> SUFFICES ASSUME NEW m, NEW a, NEW x, NEW y, NEW n
                 PROVE  I!Toggled(m, a, x, y, n) = Toggled(m, a, x, y, n)
      OBVIOUS
    <2> DEFINE cells == { d \in SpriteCells(n) : (7 - d[2]) \in Bits(Peek(m, a + d[1])) }
               icells == { d \in I!SpriteCells(n) : (7 - d[2]) \in I!Bits(I!Peek(m, a + d[1])) }
    <2>1. icells = cells
      BY <1>3, <1>4, SameMemory
    <2>2. /\ I!Toggled(m, a, x, y, n) = { I!Target(x, y, c[1], c[2]) : c \in icells }
          /\ Toggled(m, a, x, y, n) = { Target(x, y, c[1], c[2]) : c \in cells }
      BY DEF Toggled, I!Toggled
    <2> HIDE DEF cells, icells
    <2>3. QED
      BY <1>5, <2>1, <2>2
  <1>8. QED
    BY <1>1, <1>2, <1>6, <1>7

LEMMA SameBytes ==
  /\ I!Byte = Byte
  /\ \A b : I!Bits(b) = Bits(b)
  /\ \A S : I!ByteOf(S) = ByteOf(S)
  /\ \A a, b : I!Or8(a, b) = Or8(a, b) /\ I!And8(a, b) = And8(a, b)
  /\ \A w, x, b : I!Assign(w, x, b) = Assign(w, x, b)
  <1>1. I!Byte = Byte
    BY DEF Byte, I!Byte
  <1>2. \A b : I!Bits(b) = Bits(b)
    BY Zenon DEF Bits, I!Bits
  <1>3. \A S : I!ByteOf(S) = ByteOf(S)
    BY Zenon DEF ByteOf, I!ByteOf
  <1>4. \A a, b : I!Or8(a, b) = Or8(a, b) /\ I!And8(a, b) = And8(a, b)
    BY <1>2, <1>3, Zenon DEF Or8, And8, I!Or8, I!And8
  <1>5. \A w, x, b : I!Assign(w, x, b) = Assign(w, x, b)
    BY Zenon DEF Assign, I!Assign
  <1>6. QED
    BY <1>1, <1>2, <1>3, <1>4, <1>5

-----------------------------------------------------------------------------
(* The invariant of the simulation.                                        *)

\* The address of the call that a caller waits at.
Site(call) == Entry + Printed[call.func][call.line].at

\* t is the interpreter's stack when s is the C call stack.
Recorded(s, t) ==
    /\ DOMAIN t = 0..(StackSize - 1)
    /\ \A d \in 1..(Len(s) - 1) : t[d - 1] = Site(s[d])

HInv ==
    /\ RInv
    /\ status \in Kept => Fits
    /\ status = "compiled" => calls = <<>>
    /\ Recorded(calls, slots) /\ Len(calls) <= MaxCalls

\* What an action leaves of it when it keeps the tables.
Tracked == Recorded(calls, slots)' /\ Len(calls') <= MaxCalls

LEMMA Sizes ==
  /\ StackSize = 16 /\ MaxCalls = 17 /\ RamSize = 4096 /\ Entry = 512 /\ WordSize = 65536
  BY CallsAssumption DEF StackSize, RamSize, Entry, WordSize

LEMMA SetRecorded ==
  ASSUME NEW s, Stacked(s), NEW e \in Standing, NEW t, Recorded(s, t)
  PROVE  LET u == [s EXCEPT ![Len(s)] = e] IN
            Recorded(u, t) /\ Len(u) = Len(s) /\ u[Len(u)] = e /\ u # <<>>
  <1> DEFINE u == [s EXCEPT ![Len(s)] = e]
  <1>1. s \in Seq(Standing) /\ s # <<>>
    BY DEF Stacked
  <1>2. /\ u \in Seq(Standing) /\ Len(u) = Len(s) /\ u[Len(s)] = e
        /\ \A d \in 1..(Len(s) - 1) : u[d] = s[d]
    BY <1>1, SetLast
  <1>3. Stacked(u)
    BY SetStack
  <1> HIDE DEF u
  <1>4. Recorded(u, t)
    BY <1>2 DEF Recorded, Site
  <1>5. u # <<>>
    BY <1>3 DEF Stacked
  <1>6. QED
    BY <1>2, <1>4, <1>5 DEF u

LEMMA PushRecorded ==
  ASSUME NEW s, Stacked(s), NEW e \in Standing, NEW t, Recorded(s, t), Len(s) <= StackSize
  PROVE  LET u == Append(s, e) IN
            /\ Recorded(u, [t EXCEPT ![Len(s) - 1] = Site(s[Len(s)])])
            /\ Len(u) = Len(s) + 1 /\ u[Len(u)] = e /\ u # <<>>
  <1> DEFINE u == Append(s, e)
             r == [t EXCEPT ![Len(s) - 1] = Site(s[Len(s)])]
  <1>1. s \in Seq(Standing) /\ s # <<>> /\ Len(s) \in Nat \ {0} /\ Len(s) \in 1..Len(s)
    BY LastIndex DEF Stacked
  <1>2. u \in Seq(Standing) /\ Len(u) = Len(s) + 1 /\ u[Len(s) + 1] = e /\ \A d \in 1..Len(s) : u[d] = s[d]
    BY <1>1, AddLast
  <1> HIDE DEF u
  <1>3. Len(u) \in Nat \ {0}
    BY <1>1, <1>2
  <1>4. u # <<>>
    BY <1>2, <1>3, NonEmpty
  <1>5. DOMAIN r = 0..(StackSize - 1) /\ DOMAIN t = 0..(StackSize - 1)
    BY DEF Recorded
  <1>6. ASSUME NEW d \in 1..Len(s) PROVE r[d - 1] = Site(s[d])
    <2>1. d - 1 \in 0..(StackSize - 1) /\ (d = Len(s) \/ d \in 1..(Len(s) - 1))
      BY <1>1, Sizes
    <2>2. CASE d = Len(s)
      BY <1>5, <2>1, <2>2
    <2>3. CASE d \in 1..(Len(s) - 1)
      <3>1. d - 1 # Len(s) - 1
        BY <1>1, <2>3
      <3>2. r[d - 1] = t[d - 1]
        BY <1>5, <2>1, <3>1
      <3>3. QED
        BY <2>3, <3>2 DEF Recorded
    <2>4. QED
      BY <2>1, <2>2, <2>3
  <1> HIDE DEF r
  <1>7. Len(u) - 1 = Len(s)
    BY <1>1, <1>2
  <1>8. Recorded(u, r)
    BY <1>2, <1>5, <1>6, <1>7 DEF Recorded
  <1>9. QED
    BY <1>2, <1>4, <1>8 DEF u, r

LEMMA PopRecorded ==
  ASSUME NEW s, Stacked(s), Len(s) > 1, NEW e \in Standing, NEW t, Recorded(s, t)
  PROVE  LET u == Append(SubSeq(s, 1, Len(s) - 2), e) IN
            Recorded(u, t) /\ Len(u) = Len(s) - 1 /\ u[Len(u)] = e /\ u # <<>>
  <1> DEFINE u == Append(SubSeq(s, 1, Len(s) - 2), e)
  <1>1. s \in Seq(Standing) /\ Len(s) \in Nat
    BY DEF Stacked
  <1>2. /\ Len(u) = Len(s) - 1 /\ u[Len(s) - 1] = e /\ u # <<>>
        /\ \A d \in 1..(Len(s) - 2) : u[d] = s[d]
    BY <1>1, ReplaceLast
  <1> HIDE DEF u
  <1>3. \A d \in 1..(Len(u) - 1) : d \in 1..(Len(s) - 2) /\ d \in 1..(Len(s) - 1)
    BY <1>1, <1>2
  <1>4. Recorded(u, t)
    BY <1>2, <1>3 DEF Recorded, Site
  <1>5. QED
    BY <1>2, <1>4 DEF u

-----------------------------------------------------------------------------
(* What the interpreter sees of the compiled program.                       *)

LEMMA NextSpot ==
  ASSUME funcs' = funcs, text' = text, NEW e, calls'[Len(calls')] = e, calls' # <<>>
  PROVE  Pc' = Entry + Spot(e) /\ Sp' = Len(calls') - 1
  <1>1. last' = e
    BY DEF last
  <1>2. At' = Spot(e)
    BY <1>1 DEF At, InMacro, Spot, IsMacro, OffsetOf
  <1>3. QED
    BY <1>2 DEF Pc, Sp

LEMMA MoveTracked ==
  ASSUME HInv, Stacked(calls), NEW e \in Standing, calls' = [calls EXCEPT ![Len(calls)] = e],
         funcs' = funcs, text' = text, slots' = slots
  PROVE  Tracked /\ Pc' = Entry + Spot(e) /\ Sp' = Sp
  <1> DEFINE u == [calls EXCEPT ![Len(calls)] = e]
  <1>1. Recorded(u, slots) /\ Len(u) = Len(calls) /\ u[Len(u)] = e /\ u # <<>>
    BY SetRecorded DEF HInv
  <1>2. calls' = u
    OBVIOUS
  <1> HIDE DEF u
  <1>3. Pc' = Entry + Spot(e) /\ Sp' = Len(u) - 1
    BY <1>1, <1>2, NextSpot
  <1>4. Sp = Len(calls) - 1
    BY DEF Sp, Stacked
  <1>5. Recorded(calls, slots)'
    BY <1>1, <1>2, TablesStay DEF Recorded, Site
  <1>6. Len(calls') <= MaxCalls
    BY <1>1, <1>2 DEF HInv
  <1>7. QED
    BY <1>1, <1>3, <1>4, <1>5, <1>6 DEF Tracked

LEMMA GoToTracked ==
  ASSUME HInv, AtLine, NEW m \in 1..(Len(Printed[last.func]) + 1), GoTo(m),
         funcs' = funcs, text' = text, slots' = slots
  PROVE  Tracked /\ Pc' = Entry + OffsetOf(last.func, m) /\ Sp' = Sp
  <1> DEFINE e == [last EXCEPT !.line = m]
  <1>1. status = "running" /\ ~InMacro /\ RInv
    BY DEF AtLine, HInv
  <1>2. Tables /\ Stack /\ Stacked(calls) /\ calls # <<>> /\ last \in Standing
    BY <1>1, RunningFacts
  <1>3. e \in Standing /\ e.func = last.func /\ e.line = m
    <2>1. last \in [func : DOMAIN funcs, line : Nat]
      BY <1>2 DEF Standing
    <2>2. e.func = last.func /\ e.line = m
      BY <2>1
    <2>3. QED
      BY <1>2, <2>2, MovedStands
  <1>4. calls' = [calls EXCEPT ![Len(calls)] = e]
    <2>1. calls \in Seq(Standing) /\ Len(calls) \in DOMAIN calls
      BY <1>2, StackFacts
    <2>2. QED
      BY <2>1 DEF GoTo, last
  <1> HIDE DEF e
  <1>5. Tracked /\ Pc' = Entry + Spot(e) /\ Sp' = Sp
    BY <1>2, <1>3, <1>4, MoveTracked
  <1>6. Spot(e) = OffsetOf(last.func, m)
    BY <1>1, <1>3 DEF Spot, InMacro
  <1>7. QED
    BY <1>5, <1>6

LEMMA RunningView ==
  ASSUME HInv, status = "running", ~Departs
  PROVE  /\ Outcome = "running" /\ Sp = Len(calls) - 1 /\ Len(calls) \in 1..(StackSize + 1)
         /\ Fits /\ Pc = Entry + At /\ ~(Entry + At + 1 >= RamSize)
         /\ ~(Index > Size(funcs[last.func]))
         /\ I!op = funcs[last.func].opcodes[Index]
  <1>1. RInv /\ Fits /\ Len(calls) <= MaxCalls
    BY DEF HInv, Kept
  <1>2. calls # <<>> /\ Stacked(calls)
    BY <1>1, RunningFacts
  <1>3. Len(calls) \in Nat \ {0}
    BY <1>2, LastIndex DEF Stacked
  <1>4. Len(calls) \in 1..(StackSize + 1)
    <2>1. Len(calls) <= StackSize + 1 /\ StackSize + 1 \in Nat
      BY <1>1, CallsAssumption DEF StackSize
    <2>2. QED
      BY <1>3, <2>1
  <1>5. ~(Index > Size(funcs[last.func])) /\ ~Overwritten /\ ~BehindRam
    BY DEF Departs, Size
  <1>6. Pc = Entry + At /\ Sp = Len(calls) - 1
    BY <1>2 DEF Pc, Sp
  <1>7. I!op = funcs[last.func].opcodes[Index]
    BY <1>5, <1>6, SameMemory DEF I!op, Overwritten
  <1>8. Outcome = "running"
    BY DEF Outcome
  <1>9. QED
    BY <1>1, <1>4, <1>5, <1>6, <1>7, <1>8 DEF BehindRam

LEMMA SkipAddresses ==
  ASSUME NEW a \in Nat, Entry + a + 1 < RamSize
  PROVE  /\ Entry + a \in 0..RamSize
         /\ Entry + (a + 2) = (Entry + a) + 2 /\ Entry + (a + 4) = (Entry + a) + 4
  BY DEF Entry, RamSize

LEMMA AddressInside ==
  ASSUME NEW a \in Nat, ~(Entry + a + 1 >= RamSize)
  PROVE  Entry + a + 1 < RamSize /\ Entry + a + 1 \in 0..(RamSize - 1)
  BY DEF Entry, RamSize

\* The interpreter is at the instruction whose line the compiled program is at.
LEMMA LineView ==
  ASSUME HInv, AtLine, here.type # "end", ~Departs
  PROVE  /\ Index \in 1..Size(funcs[last.func]) /\ here = Main(funcs[last.func], Index)
         /\ Outcome = "running" /\ Sp = Len(calls) - 1 /\ Len(calls) \in 1..(StackSize + 1)
         /\ here.opcode \in Word /\ I!op = here.opcode
         /\ here.at \in Nat /\ Pc = Entry + here.at /\ Entry + here.at + 1 < RamSize
         /\ I!InRam(Pc + 1)
  <1> DEFINE f == funcs[last.func]
  <1>1. status = "running" /\ ~InMacro /\ RInv /\ last.line \in DOMAIN text[last.func]
    BY DEF AtLine, HInv
  <1>2. /\ last.func \in DOMAIN funcs /\ last.line \in DOMAIN Printed[last.func]
        /\ here = Printed[last.func][last.line] /\ here.opcode \in Word
    BY <1>1, LineFacts
  <1>3. Tables /\ f \in Entries
    BY <1>1, <1>2, RunningFacts, PrintedType
  <1>4. PICK j \in 1..Size(f) : here = Main(f, j)
    BY <1>2, <1>3, LineInstruction
  <1>5. here.at = Node(f, j) /\ here.opcode = f.opcodes[j]
    BY <1>3, <1>4, MainType
  <1>6. At = here.at
    BY <1>1 DEF At, OffsetOf, here
  <1>7. f.offset \in Nat /\ Size(f) \in Nat
    BY <1>3, FunctionFacts
  <1>8. Index = j
    <2>1. \A n \in Int : (2 * n) \div 2 = n
      OBVIOUS
    <2>2. At - f.offset = 2 * (j - 1)
      BY <1>5, <1>6, <1>7 DEF Node
    <2>3. QED
      BY <1>7, <2>1, <2>2 DEF Index
  <1> HIDE DEF f
  <1>9. /\ Outcome = "running" /\ Sp = Len(calls) - 1 /\ Len(calls) \in 1..(StackSize + 1)
        /\ Fits /\ Pc = Entry + At /\ ~(Entry + At + 1 >= RamSize) /\ I!op = f.opcodes[Index]
    BY <1>1, RunningView DEF f
  <1>10. here.at \in Nat
    BY <1>5, <1>7 DEF Node
  <1>11. Entry + here.at + 1 < RamSize /\ I!InRam(Pc + 1)
    <2>1. Pc = Entry + here.at /\ ~(Entry + here.at + 1 >= RamSize)
      BY <1>6, <1>9
    <2>2. Entry + here.at + 1 < RamSize /\ Pc + 1 \in 0..(RamSize - 1)
      BY <1>10, <2>1, AddressInside
    <2>3. QED
      BY <2>2, SameMemory DEF I!InRam
  <1>12. QED
    BY <1>2, <1>4, <1>5, <1>6, <1>8, <1>9, <1>10, <1>11 DEF f

LEMMA FinishAt ==
  ASSUME NEW p \in Int, p + 2 \in 0..(2 * RamSize), Pc' = p + 2
  PROVE  I!Finish(p)
  <1>1. (p + 2) % I!WordSize = p + 2
    BY DEF RamSize, I!WordSize
  <1>2. QED
    BY <1>1 DEF I!Finish

\* An instruction that needs nothing but its own bytes.
LEMMA PlainExecuting ==
  ASSUME Outcome = "running", I!InRam(Pc + 1), NEW c, Class(I!op) = c,
         c \notin {OP_CALL, OP_MISC, OP_MISC2, OP_DRAW}
  PROVE  I!Executing(c)
  BY SameDecoding DEF I!Executing, I!InBounds

\* A goto or a macro is a jump.
LEMMA JumpImplements ==
  ASSUME Outcome = "running", Outcome' = "running", I!InRam(Pc + 1), I!op \in Word,
         Class(I!op) = OP_JMP, TargetOf(I!op) < RamSize - Entry, Pc' = Entry + TargetOf(I!op),
         Sp' = Sp, slots' = slots, UNCHANGED machine
  PROVE  I!Next
  <1> DEFINE a == Addr(I!op)
  <1>1. a \in 0..(RamSize - 1) /\ Pc' = a
    BY FieldTypes, TargetAddress
  <1> HIDE DEF a
  <1>2. a - 2 \in Int /\ (a - 2) + 2 = a /\ a \in 0..(2 * RamSize)
    BY <1>1 DEF RamSize
  <1>3. I!Finish(a - 2)
    BY <1>1, <1>2, FinishAt
  <1>4. I!Executing(OP_JMP)
    BY PlainExecuting DEF OP_JMP, OP_CALL, OP_MISC, OP_MISC2, OP_DRAW
  <1>5. I!Jump
    BY <1>3, <1>4, SameDecoding DEF I!Jump, I!registers, machine, a
  <1>6. QED
    BY <1>5 DEF I!Next

LEMMA ExpandImplements ==
  ASSUME HInv, Expand, ~Departs, slots' = slots
  PROVE  I!Next /\ Tracked
  <1> DEFINE f == funcs[last.func]
             target == TargetOf(f.opcodes[1])
  <1>1. /\ status = "running" /\ InMacro /\ IsMacro(f) /\ RInv
        /\ calls' = [calls EXCEPT ![Len(calls)] = Entered(target)]
        /\ status' = status /\ funcs' = funcs /\ text' = text /\ UNCHANGED machine
    BY DEF Expand, InMacro, gvars, HInv
  <1>2. text = Printed /\ Tables /\ Stacked(calls) /\ last \in Standing /\ last.func \in DOMAIN funcs
    BY <1>1, RunningFacts
  <1>3. target \in Resolved
    BY <1>1, <1>2 DEF Standing
  <1>4. Entered(target) \in Standing
    BY <1>2, <1>3, EnteredStands
  <1>5. /\ Outcome = "running" /\ Fits /\ Pc = Entry + At /\ ~(Entry + At + 1 >= RamSize)
        /\ I!op = f.opcodes[Index]
    BY <1>1, RunningView
  <1>6. Spot(Entered(target)) = target /\ target < RamSize - Entry
    BY <1>2, <1>3, <1>5, EnteredSpot
  <1>7. f \in Entries /\ 1 \in 1..Size(f)
    BY <1>2, PrintedType, FirstNode
  <1>8. f.offset \in Nat /\ f.opcodes[1] \in Word
    BY <1>7, FunctionFacts
  <1>9. At = f.offset /\ Index = 1
    <2>1. At = f.offset
      BY <1>1 DEF At
    <2>2. f.offset - f.offset = 0 /\ 0 \div 2 + 1 = 1
      BY <1>8
    <2>3. QED
      BY <2>1, <2>2 DEF Index
  <1> HIDE DEF target, f
  <1>10. Tracked /\ Pc' = Entry + Spot(Entered(target)) /\ Sp' = Sp
    BY <1>1, <1>2, <1>4, MoveTracked
  <1>11. I!InRam(Pc + 1)
    <2>1. At \in Nat /\ Pc + 1 \in 0..(RamSize - 1)
      BY <1>5, <1>8, <1>9, AddressInside
    <2>2. QED
      BY <2>1, SameMemory DEF I!InRam
  <1>12. /\ I!op \in Word /\ Class(I!op) = OP_JMP /\ TargetOf(I!op) = target
    BY <1>1, <1>5, <1>8, <1>9 DEF IsMacro, target
  <1>13. Outcome' = "running"
    BY <1>1 DEF Outcome
  <1>14. I!Next
    BY <1>1, <1>5, <1>6, <1>10, <1>11, <1>12, <1>13, JumpImplements
  <1>15. QED
    BY <1>10, <1>14

LEMMA GotoImplements ==
  ASSUME HInv, Goto, ~Departs, slots' = slots
  PROVE  I!Next /\ Tracked
  <1> DEFINE k == last.func
             target == TargetOf(here.opcode)
             m == Labelled(k, target)
  <1>1. /\ AtLine /\ here.type = "do" /\ Class(here.opcode) = OP_JMP /\ GoTo(m)
        /\ status = "running" /\ RInv
        /\ status' = status /\ funcs' = funcs /\ text' = text /\ UNCHANGED machine
    BY DEF Goto, Doing, AtLine, gvars, HInv
  <1>2. text = Printed /\ Tables /\ Accepted
    BY <1>1, RunningFacts
  <1>3. k \in DOMAIN funcs /\ last.line \in DOMAIN Printed[k] /\ here = Printed[k][last.line]
    BY <1>1, LineFacts
  <1>4. target \in Offsets(Printed[k])
    BY <1>1, <1>2, <1>3 DEF Accepted
  <1>5. /\ m \in 1..Len(Printed[k]) /\ Printed[k][m].type # "end" /\ Printed[k][m].at = target
        /\ Len(Printed[k]) \in Nat /\ DOMAIN Printed[k] = 1..Len(Printed[k])
    BY <1>2, <1>3, <1>4, LabelStands, PrintedType
  <1>6. m \in 1..(Len(Printed[k]) + 1) /\ OffsetOf(k, m) = target
    BY <1>2, <1>5 DEF OffsetOf
  <1>7. /\ Outcome = "running" /\ here.opcode \in Word /\ I!op = here.opcode /\ I!InRam(Pc + 1)
    BY <1>1, LineView
  <1>8. target < RamSize - Entry
    <2>1. PICK j \in 1..Size(funcs[k]) : Printed[k][m] = Main(funcs[k], j)
      BY <1>2, <1>3, <1>5, LineInstruction
    <2>2. target = Node(funcs[k], j)
      BY <1>2, <1>3, <1>5, <2>1, PrintedType, MainType
    <2>3. Fits
      BY <1>1 DEF HInv, Kept
    <2>4. QED
      BY <1>3, <2>2, <2>3, FitsRam
  <1> HIDE DEF m
  <1>9. Tracked /\ Pc' = Entry + OffsetOf(k, m) /\ Sp' = Sp
    BY <1>1, <1>6, GoToTracked
  <1>10. Outcome' = "running"
    BY <1>1 DEF Outcome
  <1>11. I!Next
    BY <1>1, <1>6, <1>7, <1>8, <1>9, <1>10, JumpImplements
  <1>12. QED
    BY <1>9, <1>11

LEMMA CallImplements ==
  ASSUME HInv, Call, ~Departs, slots' = [slots EXCEPT ![Len(calls) - 1] = Entry + here.at]
  PROVE  I!Next /\ Tracked
  <1> DEFINE target == TargetOf(here.opcode)
             e == Entered(target)
             u == Append(calls, e)
             d == Len(calls)
  <1>1. /\ AtLine /\ here.type = "do" /\ Class(here.opcode) = OP_CALL /\ d < MaxCalls
        /\ calls' = u /\ status = "running" /\ RInv
        /\ status' = status /\ funcs' = funcs /\ text' = text /\ UNCHANGED machine
    BY DEF Call, Doing, AtLine, gvars, HInv
  <1>2. text = Printed /\ Tables /\ Accepted /\ Stacked(calls)
    BY <1>1, RunningFacts
  <1>3. /\ last.func \in DOMAIN funcs /\ last.line \in DOMAIN Printed[last.func]
        /\ here = Printed[last.func][last.line]
    BY <1>1, LineFacts
  <1>4. target \in Resolved
    BY <1>1, <1>2, <1>3 DEF Accepted
  <1>5. e \in Standing /\ Spot(e) = target
    BY <1>2, <1>4, EnteredStands, EnteredSpot
  <1>6. Site(calls[d]) = Entry + here.at
    BY <1>3 DEF Site, last
  <1>7. /\ Outcome = "running" /\ Sp = d - 1 /\ d \in 1..(StackSize + 1)
        /\ here.opcode \in Word /\ I!op = here.opcode /\ Pc = Entry + here.at /\ I!InRam(Pc + 1)
    BY <1>1, LineView
  <1>8. d <= StackSize /\ Sp < StackSize /\ d - 1 + 1 = d
    <2>1. StackSize = 16 /\ MaxCalls = 17
      BY Sizes
    <2>2. QED
      BY <1>1, <1>7, <2>1
  <1>9. target < RamSize - Entry
    <2>1. Fits
      BY <1>1 DEF HInv, Kept
    <2>2. QED
      BY <1>2, <1>4, <2>1, EnteredSpot
  <1> HIDE DEF e, d
  <1>10. Recorded(u, slots') /\ Len(u) = d + 1 /\ u[Len(u)] = e /\ u # <<>>
    <2> DEFINE r == [slots EXCEPT ![Len(calls) - 1] = Site(calls[Len(calls)])]
    <2>1. slots' = r
      BY <1>6 DEF d
    <2>2. Recorded(calls, slots) /\ Len(calls) <= StackSize
      BY <1>8 DEF HInv, d
    <2>3. Recorded(u, r) /\ Len(u) = Len(calls) + 1 /\ u[Len(u)] = e /\ u # <<>>
      BY <1>2, <1>5, <2>2, PushRecorded
    <2> HIDE DEF r, u
    <2>4. QED
      BY <2>1, <2>3 DEF d
  <1> HIDE DEF u, target
  <1>11. Pc' = Entry + target /\ Sp' = Sp + 1
    <2>1. Pc' = Entry + Spot(e) /\ Sp' = Len(u) - 1
      BY <1>1, <1>10, NextSpot
    <2>2. QED
      BY <1>5, <1>7, <1>10, <2>1
  <1>12. Tracked
    <2>1. Recorded(calls, slots)'
      BY <1>1, <1>10, TablesStay DEF Recorded, Site
    <2>2. d + 1 <= MaxCalls
      BY <1>1, <1>7, Sizes
    <2>3. QED
      BY <1>1, <1>10, <2>1, <2>2 DEF Tracked
  <1> DEFINE a == Addr(here.opcode)
  <1>13. a \in 0..(RamSize - 1) /\ Pc' = a
    BY <1>7, <1>9, <1>11, FieldTypes, TargetAddress DEF target
  <1> HIDE DEF a
  <1>14. a - 2 \in Int /\ (a - 2) + 2 = a /\ a \in 0..(2 * RamSize)
    BY <1>13 DEF RamSize
  <1>15. I!Finish(a - 2)
    BY <1>13, <1>14, FinishAt
  <1>16. I!Executing(OP_CALL)
    BY <1>1, <1>7, <1>8, SameDecoding, SameMemory
       DEF I!Executing, I!InBounds, OP_CALL, OP_MISC, OP_MISC2, OP_DRAW
  <1>17. slots' = [slots EXCEPT ![Sp] = Pc]
    BY <1>7 DEF d
  <1>18. UNCHANGED <<v, i, ram, fb, Outcome>>
    BY <1>1 DEF machine, Outcome
  <1>19. I!Call
    BY <1>7, <1>11, <1>15, <1>16, <1>17, <1>18, SameDecoding DEF I!Call, a
  <1>20. QED
    BY <1>12, <1>19 DEF I!Next

\* The compiled program stops where it is.
LEMMA StopTracked ==
  ASSUME HInv, calls' = calls, funcs' = funcs, text' = text, slots' = slots
  PROVE  Tracked /\ Pc' = Pc /\ Sp' = Sp
  <1>1. Pc' = Pc /\ Sp' = Sp
    BY DEF Pc, Sp, At, InMacro, last, IsMacro, OffsetOf
  <1>2. Tracked
    BY TablesStay DEF HInv, Tracked, Recorded, Site
  <1>3. QED
    BY <1>1, <1>2

\* It stops where the interpreter leaves ram, the screen or its stack.
LEMMA WildImplements ==
  ASSUME HInv, status = "running", status' \in {"returned", "deep", "outside"}, ~I!InBounds,
         calls' = calls, funcs' = funcs, text' = text, slots' = slots, UNCHANGED machine
  PROVE  I!Next /\ Tracked
  <1>1. Tracked /\ Pc' = Pc /\ Sp' = Sp
    BY StopTracked
  <1>2. Outcome = "running" /\ Outcome' = "wild"
    BY DEF Outcome
  <1>3. I!GoWild
    BY <1>1, <1>2 DEF I!GoWild, I!registers, machine
  <1>4. QED
    BY <1>1, <1>3 DEF I!Next

LEMMA CallTooDeepImplements ==
  ASSUME HInv, CallTooDeep, ~Departs, slots' = slots
  PROVE  I!Next /\ Tracked
  <1>1. /\ AtLine /\ here.type = "do" /\ Class(here.opcode) = OP_CALL /\ Len(calls) = MaxCalls
        /\ status = "running" /\ status' = "deep"
        /\ calls' = calls /\ funcs' = funcs /\ text' = text /\ UNCHANGED machine
    BY DEF CallTooDeep, Doing, AtLine
  <1>2. Sp = Len(calls) - 1 /\ I!op = here.opcode
    BY <1>1, LineView
  <1>3. ~(Sp < StackSize)
    BY <1>1, <1>2, Sizes
  <1>4. ~I!InBounds
    BY <1>1, <1>2, <1>3, SameDecoding, SameMemory DEF I!InBounds
  <1>5. QED
    BY <1>1, <1>4, WildImplements

\* What the text renders as the interpreter does.
LEMMA MeansSame ==
  ASSUME NEW opcode, ~MeansElse(opcode)
  PROVE  /\ Class(opcode) = OP_MISC => Imm(opcode) \in {\hE0, \hEE}
         /\ Class(opcode) = OP_MATH => Nib(opcode) \in {0, 1, 2, 4, 6, 14}
         /\ Class(opcode) = OP_MISC2 =>
               Imm(opcode) \in {\h29, \h33} \/ (Imm(opcode) = \h65 /\ X(opcode) = 0)
  BY DEF MeansElse, OP_MISC, OP_MATH, OP_MISC2

\* A function returns by a statement: behind its last line nothing is implemented.
LEMMA ReturnView ==
  ASSUME HInv, AtReturn, ~Departs
  PROVE  /\ AtLine /\ here.type = "do" /\ status = "running"
         /\ Class(I!op) = OP_MISC /\ Imm(I!op) = \hEE /\ I!InRam(Pc + 1)
         /\ Outcome = "running" /\ Sp = Len(calls) - 1 /\ Len(calls) \in 1..(StackSize + 1)
  <1> DEFINE f == funcs[last.func]
  <1>1. status = "running" /\ ~InMacro /\ RInv
    BY DEF AtReturn, HInv
  <1>2. AtLine
    <2> SUFFICES ASSUME ~AtLine PROVE FALSE
      OBVIOUS
    <2>1. f \in Entries
      BY <1>1, RunningFacts, PrintedType
    <2>2. f.offset \in Nat /\ Size(f) \in Nat
      BY <2>1, FunctionFacts
    <2>3. At = f.offset + 2 * Size(f)
      BY <1>1 DEF At, AtLine, OffsetOf, Size
    <2>4. ~(Index > Size(f))
      BY <1>1, RunningView
    <2> HIDE DEF f
    <2>5. \A n, m \in Nat : ((n + 2 * m) - n) \div 2 = m
      OBVIOUS
    <2>6. Index = Size(f) + 1
      BY <2>2, <2>3, <2>5 DEF Index, f
    <2>7. QED
      BY <2>2, <2>4, <2>6
  <1>3. here.type = "do" /\ IsReturn(here.opcode)
    BY <1>2 DEF AtReturn
  <1>4. /\ Outcome = "running" /\ Sp = Len(calls) - 1 /\ Len(calls) \in 1..(StackSize + 1)
        /\ here.opcode \in Word /\ I!op = here.opcode /\ I!InRam(Pc + 1)
    BY <1>2, <1>3, LineView
  <1>5. ~MeansElse(here.opcode)
    BY <1>1, <1>2, <1>3 DEF Departs
  <1>6. Imm(here.opcode) \in {\hE0, \hEE}
    BY <1>3, <1>5, MeansSame DEF IsReturn
  <1>7. Imm(here.opcode) # \hE0
    <2>1. \A n \in Nat : n % 256 = 224 => n % 16 = 0
      OBVIOUS
    <2>2. here.opcode \in Nat
      BY <1>4, Ranges
    <2>3. QED
      BY <1>3, <2>1, <2>2 DEF IsReturn, Imm, Nib
  <1>8. QED
    BY <1>1, <1>2, <1>3, <1>4, <1>6, <1>7 DEF IsReturn

LEMMA CallerIndex ==
  ASSUME NEW n \in 1..(StackSize + 1), n > 1
  PROVE  n - 1 \in 1..StackSize /\ n - 1 \in 1..(n - 1) /\ n - 1 <= MaxCalls
  BY CallsAssumption DEF StackSize

LEMMA ReturnImplements ==
  ASSUME HInv, Return, ~Departs, slots' = slots
  PROVE  I!Next /\ Tracked
  <1> DEFINE d == Len(calls) - 1
             caller == calls[d]
             k == caller.func
             m == From(k, caller.line + 1)
             e == [caller EXCEPT !.line = m]
             u == Append(SubSeq(calls, 1, Len(calls) - 2), e)
             a == Printed[k][caller.line].at
  <1>1. /\ AtReturn /\ status = "running" /\ Len(calls) > 1 /\ calls' = u /\ RInv
        /\ status' = status /\ funcs' = funcs /\ text' = text /\ UNCHANGED machine
    BY DEF Return, AtReturn, gvars, HInv
  <1>2. /\ Class(I!op) = OP_MISC /\ Imm(I!op) = \hEE /\ I!InRam(Pc + 1)
        /\ Outcome = "running" /\ Sp = d /\ Len(calls) \in 1..(StackSize + 1)
    BY <1>1, ReturnView
  <1>3. text = Printed /\ Tables /\ Stacked(calls) /\ Fits
    BY <1>1, RunningFacts DEF HInv, Kept
  <1>4. d \in 1..StackSize /\ d \in 1..(Len(calls) - 1)
    <2>1. Len(calls) > 1
      BY DEF Return
    <2>2. QED
      BY <1>2, <2>1, CallerIndex
  <1>5. caller \in Waiting
    BY <1>3, <1>4 DEF Stacked
  <1> HIDE DEF caller, d
  <1>6. /\ caller \in Standing /\ k \in DOMAIN funcs /\ caller.line \in DOMAIN Printed[k]
        /\ Printed[k][caller.line].type # "end"
    BY <1>5 DEF Waiting, Standing
  <1>7. PICK j \in 1..Size(funcs[k]) : Printed[k][caller.line] = Main(funcs[k], j)
    BY <1>3, <1>6, LineInstruction
  <1>8. a \in Nat /\ a < RamSize - Entry
    <2>1. a = Node(funcs[k], j)
      BY <1>3, <1>6, <1>7, PrintedType, MainType
    <2>2. QED
      BY <1>3, <1>6, <2>1, FitsRam
  <1>9. m \in 1..(Len(Printed[k]) + 1)
    <2>1. DOMAIN Printed[k] = 1..Len(Printed[k]) /\ Len(Printed[k]) \in Nat
      BY <1>3, <1>6, PrintedType
    <2>2. caller.line + 1 \in 1..(Len(Printed[k]) + 1)
      BY <1>6, <2>1
    <2>3. QED
      BY <1>3, <1>6, <2>2, FromStands
  <1>10. OffsetOf(k, m) = a + 2
    BY <1>3, <1>6, SpotAfter
  <1> HIDE DEF m
  <1>11. e \in Standing /\ e.func = k /\ e.line = m
    <2>1. caller \in [func : DOMAIN funcs, line : Nat]
      BY <1>6 DEF Standing
    <2>2. e.func = k /\ e.line = m
      BY <2>1
    <2>3. QED
      BY <1>3, <1>6, <1>9, <2>2, MovedStands
  <1> HIDE DEF e
  <1>12. Spot(e) = a + 2
    <2>1. ~IsMacro(funcs[k])
      BY <1>3, <1>6, LineInstruction
    <2>2. QED
      BY <1>10, <1>11, <2>1 DEF Spot
  <1>13. Recorded(u, slots) /\ Len(u) = Len(calls) - 1 /\ u[Len(u)] = e /\ u # <<>>
    BY <1>1, <1>3, <1>11, PopRecorded DEF HInv
  <1>14. slots[Sp - 1] = Entry + a
    BY <1>2, <1>4 DEF HInv, Recorded, Site, caller
  <1> HIDE DEF u, a
  <1>15. Pc' = Entry + a + 2 /\ Sp' = Sp - 1
    <2>1. Pc' = Entry + Spot(e) /\ Sp' = Len(u) - 1
      BY <1>1, <1>13, NextSpot
    <2>2. Pc' = Entry + (a + 2) /\ Entry \in Nat
      BY <1>12, <2>1 DEF Entry
    <2>3. QED
      BY <1>2, <1>8, <1>13, <2>1, <2>2 DEF d
  <1>16. Tracked
    <2>1. Recorded(calls, slots)'
      BY <1>1, <1>13, TablesStay DEF Recorded, Site
    <2>2. Len(calls) > 1 /\ Len(calls') = Len(calls) - 1
      BY <1>1, <1>13
    <2>3. Len(calls') <= MaxCalls
      BY <1>2, <2>2, CallerIndex
    <2>4. QED
      BY <2>1, <2>3 DEF Tracked
  <1>17. I!Finish(slots[Sp - 1])
    <2>1. Entry + a \in Int /\ (Entry + a) + 2 \in 0..(2 * RamSize)
      BY <1>8 DEF Entry, RamSize
    <2>2. QED
      BY <1>14, <1>15, <2>1, FinishAt
  <1>18. I!Executing(OP_MISC)
    <2>1. Sp \in 1..StackSize
      BY <1>2, <1>4
    <2>2. QED
      BY <1>2, <2>1, SameDecoding, SameMemory
         DEF I!Executing, I!InBounds, OP_CALL, OP_MISC, OP_MISC2, OP_DRAW
  <1>19. UNCHANGED <<v, i, ram, fb, slots, Outcome>>
    BY <1>1 DEF machine, Outcome
  <1>20. I!Return
    BY <1>2, <1>15, <1>17, <1>18, <1>19, SameDecoding DEF I!Return
  <1>21. QED
    BY <1>16, <1>20 DEF I!Next

LEMMA ReturnToMainImplements ==
  ASSUME HInv, ReturnToMain, ~Departs, slots' = slots
  PROVE  I!Next /\ Tracked
  <1>1. /\ AtReturn /\ status' = "returned" /\ Len(calls) = 1
        /\ calls' = calls /\ funcs' = funcs /\ text' = text /\ UNCHANGED machine
    BY DEF ReturnToMain
  <1>2. /\ Class(I!op) = OP_MISC /\ Imm(I!op) = \hEE /\ Sp = Len(calls) - 1 /\ status = "running"
    BY <1>1, ReturnView
  <1>3. Sp \notin 1..StackSize
    BY <1>1, <1>2
  <1>4. ~I!InBounds
    BY <1>2, <1>3, SameDecoding, SameMemory DEF I!InBounds
  <1>5. QED
    BY <1>1, <1>2, <1>4, WildImplements

LEMMA Truth ==
  ASSUME NEW P \in BOOLEAN
  PROVE  (TRUE \in {P} => P) /\ (FALSE \in {P} => ~P)
  <1>1. CASE P = TRUE
    BY <1>1
  <1>2. CASE P = FALSE
    BY <1>2
  <1>3. QED
    BY <1>1, <1>2

\* The text tests the opposite of what the interpreter skips on.
LEMMA TextConditions ==
  ASSUME NEW h
  PROVE  /\ Class(h) = OP_SKIP1 => Conditions(h) = {v[X(h)] # Imm(h)}
         /\ Class(h) = OP_SKIP2 => Conditions(h) = {v[X(h)] = Imm(h)}
         /\ Class(h) = OP_SKIP3 => Conditions(h) = {v[X(h)] # v[Y(h)]}
         /\ Class(h) = OP_SKIP4 => Conditions(h) = {v[X(h)] = v[Y(h)]}
  <1>1. /\ OP_SKIP1 # OP_SKIP2 /\ OP_SKIP1 # OP_SKIP3 /\ OP_SKIP1 # OP_SKIP4
        /\ OP_SKIP2 # OP_SKIP3 /\ OP_SKIP2 # OP_SKIP4 /\ OP_SKIP3 # OP_SKIP4
        /\ OP_SKIP1 # OP_IN /\ OP_SKIP2 # OP_IN /\ OP_SKIP3 # OP_IN /\ OP_SKIP4 # OP_IN
    BY DEF OP_SKIP1, OP_SKIP2, OP_SKIP3, OP_SKIP4, OP_IN
  <1>2. Class(h) = OP_SKIP1 => Conditions(h) = {v[X(h)] # Imm(h)}
    BY Zenon, <1>1 DEF Conditions
  <1>3. Class(h) = OP_SKIP2 => Conditions(h) = {v[X(h)] = Imm(h)}
    BY Zenon, <1>1 DEF Conditions
  <1>4. Class(h) = OP_SKIP3 => Conditions(h) = {v[X(h)] # v[Y(h)]}
    BY Zenon, <1>1 DEF Conditions
  <1>5. Class(h) = OP_SKIP4 => Conditions(h) = {v[X(h)] = v[Y(h)]}
    BY Zenon, <1>1 DEF Conditions
  <1>6. QED
    BY Zenon, <1>2, <1>3, <1>4, <1>5

\* The `if` is entered when the interpreter does not skip.
LEMMA SkipImplements ==
  ASSUME Outcome = "running", Outcome' = "running", I!InRam(Pc + 1), Pc \in 0..RamSize,
         Class(I!op) \in SkipClasses,
         \/ TRUE \in Conditions(I!op) /\ Pc' = Pc + 2
         \/ FALSE \in Conditions(I!op) /\ Pc' = Pc + 4,
         Sp' = Sp, slots' = slots, UNCHANGED machine
  PROVE  I!Next
  <1> USE DEF OP_SKIP1, OP_SKIP2, OP_SKIP3, OP_SKIP4
  <1> DEFINE h == I!op
  <1>1. /\ Pc' = Pc + 2 => I!Finish(Pc)
        /\ Pc' = Pc + 4 => I!Finish(Pc + 2)
    <2>1. /\ Pc \in Int /\ Pc + 2 \in Int /\ (Pc + 2) + 2 = Pc + 4
          /\ Pc + 2 \in 0..(2 * RamSize) /\ Pc + 4 \in 0..(2 * RamSize)
      BY DEF RamSize
    <2>2. QED
      BY <2>1, FinishAt
  <1>2. I!Executing(Class(h))
    BY PlainExecuting DEF SkipClasses, OP_CALL, OP_MISC, OP_MISC2, OP_DRAW
  <1>3. UNCHANGED <<I!registers, ram, fb, Outcome>>
    BY DEF I!registers, machine
  <1>4. CASE Class(h) = OP_SKIP1
    <2>1. Conditions(h) = {v[X(h)] # Imm(h)} /\ (v[X(h)] # Imm(h)) \in BOOLEAN
      BY <1>4, TextConditions
    <2>2. /\ TRUE \in Conditions(h) => v[X(h)] # Imm(h)
          /\ FALSE \in Conditions(h) => ~(v[X(h)] # Imm(h))
      BY Zenon, <2>1, Truth
    <2>3. \/ v[X(h)] # Imm(h) /\ I!Finish(Pc)
          \/ v[X(h)] = Imm(h) /\ I!Finish(Pc + 2)
      BY Zenon, <1>1, <2>2
    <2>4. I!SkipEqualImm
      BY <1>2, <1>3, <1>4, <2>3, SameDecoding DEF I!SkipEqualImm, I!SkipIf
    <2>5. QED
      BY <2>4 DEF I!Next
  <1>5. CASE Class(h) = OP_SKIP2
    <2>1. Conditions(h) = {v[X(h)] = Imm(h)} /\ (v[X(h)] = Imm(h)) \in BOOLEAN
      BY <1>5, TextConditions
    <2>2. /\ TRUE \in Conditions(h) => v[X(h)] = Imm(h)
          /\ FALSE \in Conditions(h) => ~(v[X(h)] = Imm(h))
      BY Zenon, <2>1, Truth
    <2>3. \/ v[X(h)] = Imm(h) /\ I!Finish(Pc)
          \/ v[X(h)] # Imm(h) /\ I!Finish(Pc + 2)
      BY Zenon, <1>1, <2>2
    <2>4. I!SkipNotEqualImm
      BY <1>2, <1>3, <1>5, <2>3, SameDecoding DEF I!SkipNotEqualImm, I!SkipIf
    <2>5. QED
      BY <2>4 DEF I!Next
  <1>6. CASE Class(h) = OP_SKIP3
    <2>1. Conditions(h) = {v[X(h)] # v[Y(h)]} /\ (v[X(h)] # v[Y(h)]) \in BOOLEAN
      BY <1>6, TextConditions
    <2>2. /\ TRUE \in Conditions(h) => v[X(h)] # v[Y(h)]
          /\ FALSE \in Conditions(h) => ~(v[X(h)] # v[Y(h)])
      BY Zenon, <2>1, Truth
    <2>3. \/ v[X(h)] # v[Y(h)] /\ I!Finish(Pc)
          \/ v[X(h)] = v[Y(h)] /\ I!Finish(Pc + 2)
      BY Zenon, <1>1, <2>2
    <2>4. I!SkipEqual
      BY <1>2, <1>3, <1>6, <2>3, SameDecoding DEF I!SkipEqual, I!SkipIf
    <2>5. QED
      BY <2>4 DEF I!Next
  <1>7. CASE Class(h) = OP_SKIP4
    <2>1. Conditions(h) = {v[X(h)] = v[Y(h)]} /\ (v[X(h)] = v[Y(h)]) \in BOOLEAN
      BY <1>7, TextConditions
    <2>2. /\ TRUE \in Conditions(h) => v[X(h)] = v[Y(h)]
          /\ FALSE \in Conditions(h) => ~(v[X(h)] = v[Y(h)])
      BY Zenon, <2>1, Truth
    <2>3. \/ v[X(h)] = v[Y(h)] /\ I!Finish(Pc)
          \/ v[X(h)] # v[Y(h)] /\ I!Finish(Pc + 2)
      BY Zenon, <1>1, <2>2
    <2>4. I!SkipNotEqual
      BY <1>2, <1>3, <1>7, <2>3, SameDecoding DEF I!SkipNotEqual, I!SkipIf
    <2>5. QED
      BY <2>4 DEF I!Next
  <1>8. QED
    BY <1>4, <1>5, <1>6, <1>7 DEF SkipClasses

LEMMA IfImplements ==
  ASSUME HInv, EnterIf \/ PassIf, ~Departs, slots' = slots
  PROVE  I!Next /\ Tracked
  <1> DEFINE k == last.func
             f == funcs[k]
             next == From(k, last.line + 1)
             behind == From(k, EndOf(k, last.line))
             j == Index
  <1>1. /\ AtLine /\ here.type = "if" /\ status = "running" /\ RInv
        /\ \/ TRUE \in Conditions(here.opcode) /\ GoTo(next)
           \/ FALSE \in Conditions(here.opcode) /\ GoTo(behind)
        /\ status' = status /\ funcs' = funcs /\ text' = text /\ UNCHANGED machine
    BY DEF EnterIf, PassIf, AtLine, gvars, HInv
  <1>2. text = Printed /\ Tables
    BY <1>1, RunningFacts
  <1>3. /\ k \in DOMAIN funcs /\ last.line \in DOMAIN Printed[k] /\ here = Printed[k][last.line]
        /\ last.line + 1 \in 1..(Len(Printed[k]) + 1) /\ IsSkip(here.opcode)
    BY <1>1, LineFacts
  <1>4. /\ j \in 1..Size(f) /\ here = Main(f, j) /\ Outcome = "running" /\ here.opcode \in Word
        /\ I!op = here.opcode /\ here.at \in Nat /\ Pc = Entry + here.at
        /\ Entry + here.at + 1 < RamSize /\ I!InRam(Pc + 1)
    BY <1>1, LineView
  <1> HIDE DEF j
  <1>5. here.opcode = f.opcodes[j] /\ f \in Entries
    BY <1>2, <1>3, <1>4, PrintedType, MainType
  <1>6. ~SkipsElse(f, j)
    BY <1>1 DEF Departs, j
  <1>7. /\ Class(here.opcode) \in SkipClasses /\ j # Size(f)
        /\ IsSkip(f.opcodes[j]) /\ ~IsSkip(f.opcodes[j + 1])
    BY <1>3, <1>5, <1>6 DEF SkipsElse, Size, IsSkip
  <1>8. OffsetOf(k, next) = here.at + 2 /\ OffsetOf(k, behind) = here.at + 4
    BY <1>1, <1>2, <1>3, <1>4, <1>7, SpotAfter, SpotBehind
  <1>9. next \in 1..(Len(Printed[k]) + 1) /\ behind \in 1..(Len(Printed[k]) + 1)
    <2>1. EndOf(k, last.line) \in 1..(Len(Printed[k]) + 1)
      BY <1>1, <1>2, <1>3, SkipHasEnd
    <2>2. QED
      BY <1>2, <1>3, <2>1, FromStands
  <1> HIDE DEF next, behind
  <1>10. /\ Tracked /\ Sp' = Sp
         /\ \/ TRUE \in Conditions(here.opcode) /\ Pc' = Entry + OffsetOf(k, next)
            \/ FALSE \in Conditions(here.opcode) /\ Pc' = Entry + OffsetOf(k, behind)
    <2>1. funcs' = funcs /\ text' = text /\ slots' = slots
      BY <1>1
    <2>2. CASE TRUE \in Conditions(here.opcode) /\ GoTo(next)
      BY <1>1, <1>9, <2>1, <2>2, GoToTracked
    <2>3. CASE FALSE \in Conditions(here.opcode) /\ GoTo(behind)
      BY <1>1, <1>9, <2>1, <2>3, GoToTracked
    <2>4. QED
      BY Zenon, <1>1, <2>2, <2>3
  <1>11. Pc \in 0..RamSize /\ Entry + (here.at + 2) = Pc + 2 /\ Entry + (here.at + 4) = Pc + 4
    BY <1>4, SkipAddresses
  <1>12. Outcome' = "running"
    BY <1>1 DEF Outcome
  <1>13. I!Next
    BY <1>1, <1>4, <1>7, <1>8, <1>10, <1>11, <1>12, SkipImplements
  <1>14. QED
    BY <1>10, <1>13

\* The address of an access that does not start below ram.
LEMMA InRamBelow == ASSUME NEW a \in Nat PROVE I!InRam(a) <=> a < RamSize
  <1>1. I!RamSize = RamSize /\ RamSize \in Nat
    BY SameMemory DEF RamSize
  <1>2. QED
    BY <1>1 DEF I!InRam

\* A statement of the text leaves the arrays exactly where the interpreter does.
LEMMA SameBounds ==
  ASSUME NEW h \in Word, I!op = h, I!InRam(Pc + 1), i \in Nat, Class(h) # OP_CALL,
         Class(h) = OP_MISC => Imm(h) = \hE0,
         Class(h) = OP_MISC2 => Imm(h) \in {\h29, \h33} \/ (Imm(h) = \h65 /\ X(h) = 0)
  PROVE  I!InBounds <=> InBounds(h)
  <1>1. X(h) \in Nat /\ Nib(h) \in Nat
    BY Ranges DEF X, Nib
  <1>2. I!InRam(i + 2) <=> i + 2 < RamSize
    BY InRamBelow
  <1>3. I!InRam(i + X(h)) <=> i + X(h) < RamSize
    BY <1>1, InRamBelow
  <1>4. Nib(h) > 0 => (I!InRam(i + Nib(h) - 1) <=> i + Nib(h) - 1 < RamSize)
    <2>1. Nib(h) > 0 => i + Nib(h) - 1 \in Nat
      BY <1>1
    <2>2. QED
      BY <2>1, InRamBelow
  <1>5. I!Touched(I!DrawX, I!DrawY, Nib(h)) \subseteq I!Pixels
           <=> Touched(v[X(h)] % 64, v[Y(h)] % 64, Nib(h)) \subseteq Pixels
    BY SameScreen, SameDecoding DEF I!DrawX, I!DrawY, FrameWidth
  <1>6. I!Class(I!op) = Class(h) /\ I!Imm(I!op) = Imm(h) /\ I!Nib(I!op) = Nib(h) /\ I!X(I!op) = X(h)
    BY SameDecoding
  <1>7. /\ I!OP_MISC = OP_MISC /\ I!OP_CALL = OP_CALL /\ I!OP_DRAW = OP_DRAW /\ I!OP_MISC2 = OP_MISC2
    BY SameDecoding
  <1>8. Imm(h) # \hEE \/ Class(h) # OP_MISC
    OBVIOUS
  <1>9. ~(Class(h) = OP_MISC2 /\ Imm(h) = \h55)
    OBVIOUS
  <1> DEFINE touched == Touched(v[X(h)] % 64, v[Y(h)] % 64, Nib(h)) \subseteq Pixels
             digits == Class(h) = OP_MISC2 /\ Imm(h) = \h33 => i + 2 < RamSize
             filled == Class(h) = OP_MISC2 /\ Imm(h) = \h65 => i + X(h) < RamSize
             drawn == Class(h) = OP_DRAW /\ Nib(h) > 0 => i + Nib(h) - 1 < RamSize /\ touched
  <1>10. InBounds(h) <=> digits /\ filled /\ drawn
    <2> HIDE DEF touched
    <2>1. InBounds(h) <=>
             /\ Class(h) = OP_MISC2 /\ Imm(h) = \h33 => i + 2 < RamSize
             /\ (Class(h) = OP_MISC2 /\ Imm(h) = \h55) \/ (Class(h) = OP_MISC2 /\ Imm(h) = \h65)
                    => i + X(h) < RamSize
             /\ Class(h) = OP_DRAW /\ Nib(h) > 0 => i + Nib(h) - 1 < RamSize /\ touched
      BY Zenon DEF InBounds, touched
    <2>2. QED
      BY Zenon, <1>9, <2>1
  <1>11. I!InBounds <=> digits /\ filled /\ drawn
    <2> DEFINE itouched == I!Touched(I!DrawX, I!DrawY, Nib(h)) \subseteq I!Pixels
    <2>1. I!InBounds <=>
             /\ I!InRam(Pc + 1)
             /\ Class(h) = OP_CALL => Sp < I!StackSize
             /\ Class(h) = OP_MISC /\ Imm(h) = \hEE => Sp \in 1..I!StackSize
             /\ Class(h) = OP_MISC2 /\ Imm(h) = \h33 => I!InRam(i + 2)
             /\ Class(h) = OP_MISC2 /\ Imm(h) = \h65 => I!InRam(i + X(h))
             /\ Class(h) = OP_DRAW /\ Nib(h) > 0 => I!InRam(i + Nib(h) - 1) /\ itouched
      BY <1>6, <1>7 DEF I!InBounds
    <2>2. itouched <=> touched
      BY <1>5
    <2> HIDE DEF itouched, touched
    <2>3. (Class(h) = OP_MISC2 /\ Imm(h) = \h33 => I!InRam(i + 2)) <=> digits
      BY Zenon, <1>2
    <2>4. (Class(h) = OP_MISC2 /\ Imm(h) = \h65 => I!InRam(i + X(h))) <=> filled
      BY Zenon, <1>3
    <2>5. (Class(h) = OP_DRAW /\ Nib(h) > 0 => I!InRam(i + Nib(h) - 1) /\ itouched) <=> drawn
      BY Zenon, <1>4, <2>2
    <2> HIDE DEF digits, filled, drawn
    <2>6. QED
      BY <1>8, <2>1, <2>3, <2>4, <2>5
  <1>12. QED
    BY Zenon, <1>10, <1>11

\* The statements that mean the same to both.
LEMMA StatementClasses ==
  ASSUME HInv, AtLine, here.type = "do", ~Departs, IsStatement(here.opcode)
  PROVE  LET h == here.opcode IN
         /\ Class(h) \in {OP_MISC, OP_MOV_IMM, OP_ADD_IMM, OP_MATH, OP_STORE, OP_RAND, OP_DRAW, OP_MISC2}
         /\ Class(h) = OP_MISC => Imm(h) = \hE0
         /\ Class(h) = OP_MATH => Nib(h) \in {0, 1, 2, 4, 6, 14}
         /\ Class(h) = OP_MISC2 => Imm(h) \in {\h29, \h33} \/ (Imm(h) = \h65 /\ X(h) = 0)
  <1> DEFINE h == here.opcode
  <1>1. /\ h \in Word /\ Class(h) # OP_JMP_INDEX /\ ~IsSkip(h) /\ status = "running"
    BY LineFacts DEF HInv, AtLine
  <1>2. ~MeansElse(h)
    BY <1>1 DEF Departs
  <1>3. Class(h) \in 0..15
    BY <1>1, FieldTypes
  <1>4. Class(h) \notin {OP_JMP, OP_CALL} /\ ~(Class(h) = OP_MISC /\ Nib(h) = 14)
    BY DEF IsStatement, Transfers, IsReturn
  <1>5. Class(h) \notin {OP_SKIP1, OP_SKIP2, OP_SKIP3, OP_SKIP4, OP_IN}
    BY <1>1 DEF IsSkip, SkipClasses
  <1> HIDE DEF h
  <1>6. Class(h) \in {OP_MISC, OP_MOV_IMM, OP_ADD_IMM, OP_MATH, OP_STORE, OP_RAND, OP_DRAW, OP_MISC2}
    BY <1>1, <1>3, <1>4, <1>5
       DEF OP_MISC, OP_JMP, OP_CALL, OP_SKIP1, OP_SKIP2, OP_SKIP3, OP_SKIP4, OP_MOV_IMM, OP_ADD_IMM,
           OP_MATH, OP_STORE, OP_JMP_INDEX, OP_RAND, OP_DRAW, OP_IN, OP_MISC2
  <1>7. Class(h) = OP_MISC => Imm(h) = \hE0
    <2>1. \A n \in Nat : n % 256 = 238 => n % 16 = 14
      OBVIOUS
    <2>2. Class(h) = OP_MISC => Imm(h) \in {\hE0, \hEE}
      BY <1>2, MeansSame
    <2>3. Imm(h) = \hEE => Nib(h) = 14
      BY <1>1, <2>1, Ranges DEF Imm, Nib
    <2>4. QED
      BY <1>4, <2>2, <2>3
  <1>8. QED
    BY <1>2, <1>6, <1>7, MeansSame DEF h

\* A sprite or a dump that reaches behind its array.
LEMMA LeaveArraysImplements ==
  ASSUME HInv, LeaveArrays, ~Departs, slots' = slots
  PROVE  I!Next /\ Tracked
  <1>1. /\ AtLine /\ here.type = "do" /\ IsStatement(here.opcode) /\ ~InBounds(here.opcode)
        /\ status = "running" /\ status' = "outside"
        /\ calls' = calls /\ funcs' = funcs /\ text' = text /\ UNCHANGED machine
    BY DEF LeaveArrays, Doing, AtLine
  <1>2. here.opcode \in Word /\ I!op = here.opcode /\ I!InRam(Pc + 1)
    BY <1>1, LineView
  <1>3. i \in Nat
    BY <1>1, RunningFacts, Ranges DEF HInv, Typed
  <1>4. Class(here.opcode) # OP_CALL
    BY <1>1 DEF IsStatement, Transfers
  <1>5. ~I!InBounds
    BY <1>1, <1>2, <1>3, <1>4, StatementClasses, SameBounds
  <1>6. QED
    BY <1>1, <1>5, WildImplements

\* What each class of statement does to the machine.
LEMMA EffectFacts ==
  ASSUME NEW h, NEW m \in Effects(h)
  PROVE  /\ Class(h) = OP_MISC => m = [Machine EXCEPT !.fb = {}]
         /\ Class(h) = OP_MOV_IMM => m = [Machine EXCEPT !.v = Assign(v, X(h), Imm(h))]
         /\ Class(h) = OP_ADD_IMM => m = [Machine EXCEPT !.v = Assign(v, X(h), v[X(h)] + Imm(h))]
         /\ Class(h) = OP_MATH => m = [Machine EXCEPT !.v = MathText(Nib(h), v, X(h), Y(h))]
         /\ Class(h) = OP_STORE => m = [Machine EXCEPT !.i = Addr(h)]
         /\ Class(h) = OP_RAND => m \in RandText(h)
         /\ Class(h) = OP_DRAW => m = DrawText(h)
         /\ Class(h) = OP_MISC2 => m = MiscText(h)
  BY DEF Effects, OP_MISC, OP_MOV_IMM, OP_ADD_IMM, OP_MATH, OP_STORE, OP_RAND, OP_DRAW, OP_MISC2

\* The cases of OP_MATH whose text computes what the interpreter does.
LEMMA SameMath ==
  ASSUME NEW w, NEW x, NEW y
  PROVE  /\ MathText(0, w, x, y) = I!Assign(w, x, w[y])
         /\ MathText(1, w, x, y) = I!Assign(w, x, I!Or8(w[x], w[y]))
         /\ MathText(2, w, x, y) = I!Assign(w, x, I!And8(w[x], w[y]))
         /\ MathText(4, w, x, y) = I!AddTo(w, x, y)
         /\ MathText(6, w, x, y) = I!ShiftRight(w, x)
         /\ MathText(14, w, x, y) = I!ShiftLeft(w, x)
  <1>1. MathText(0, w, x, y) = I!Assign(w, x, w[y])
    BY SameBytes DEF MathText
  <1>2. MathText(1, w, x, y) = I!Assign(w, x, I!Or8(w[x], w[y]))
    BY SameBytes DEF MathText
  <1>3. MathText(2, w, x, y) = I!Assign(w, x, I!And8(w[x], w[y]))
    BY SameBytes DEF MathText
  <1>4. MathText(4, w, x, y) = I!AddTo(w, x, y)
    BY SameBytes DEF MathText, I!AddTo, Flag, I!Flag
  <1>5. MathText(6, w, x, y) = I!ShiftRight(w, x)
    BY SameBytes DEF MathText, I!ShiftRight, Flag, I!Flag
  <1>6. MathText(14, w, x, y) = I!ShiftLeft(w, x)
    BY SameBytes DEF MathText, I!ShiftLeft, Flag, I!Flag
  <1>7. QED
    BY <1>1, <1>2, <1>3, <1>4, <1>5, <1>6

\* What every statement has in common: the interpreter goes on to the next address.
LEMMA StatementView ==
  ASSUME HInv, Statement, ~Departs, slots' = slots
  PROVE  /\ AtLine /\ here.type = "do" /\ IsStatement(here.opcode) /\ here.opcode \in Word
         /\ I!op = here.opcode /\ Outcome = "running" /\ I!InBounds /\ i \in Word
         /\ Tracked /\ Sp' = Sp /\ Outcome' = Outcome /\ I!Finish(Pc)
  <1> DEFINE k == last.func
             next == From(k, last.line + 1)
  <1>1. /\ AtLine /\ here.type = "do" /\ IsStatement(here.opcode) /\ InBounds(here.opcode)
        /\ GoTo(next) /\ funcs' = funcs /\ text' = text
        /\ status = "running" /\ status' \in {"running", "closed"}
    BY DEF Statement, Doing, AtLine
  <1>2. RInv /\ text = Printed /\ Tables /\ i \in Word
    BY <1>1, RunningFacts DEF HInv, Typed
  <1>3. /\ k \in DOMAIN funcs /\ last.line \in DOMAIN Printed[k] /\ here = Printed[k][last.line]
        /\ last.line + 1 \in 1..(Len(Printed[k]) + 1)
    BY <1>1, <1>2, LineFacts
  <1>4. /\ Outcome = "running" /\ here.opcode \in Word /\ I!op = here.opcode /\ here.at \in Nat
        /\ Pc = Entry + here.at /\ Entry + here.at + 1 < RamSize /\ I!InRam(Pc + 1)
    BY <1>1, LineView
  <1>5. i \in Nat
    BY <1>2, Ranges
  <1>6. Class(here.opcode) # OP_CALL
    BY <1>1 DEF IsStatement, Transfers
  <1>7. I!InBounds
    BY <1>1, <1>4, <1>5, <1>6, StatementClasses, SameBounds
  <1>8. OffsetOf(k, next) = here.at + 2
    BY <1>1, <1>2, <1>3, SpotAfter
  <1>9. next \in 1..(Len(Printed[k]) + 1)
    BY <1>2, <1>3, FromStands
  <1> HIDE DEF next
  <1>10. Tracked /\ Pc' = Entry + OffsetOf(k, next) /\ Sp' = Sp
    BY <1>1, <1>9, GoToTracked
  <1>11. Pc \in 0..RamSize /\ Pc' = Pc + 2
    BY <1>4, <1>8, <1>10, SkipAddresses
  <1>12. Pc \in Int /\ Pc + 2 \in 0..(2 * RamSize)
    BY <1>11 DEF RamSize
  <1>13. I!Finish(Pc)
    BY <1>11, <1>12, FinishAt
  <1>14. Outcome' = Outcome
    BY <1>1 DEF Outcome
  <1>15. QED
    BY <1>1, <1>2, <1>4, <1>7, <1>10, <1>13, <1>14

\* A statement that changes the registers alone.
LEMMA RegistersImplement ==
  ASSUME I!Finish(Pc), UNCHANGED <<i, ram, fb, slots>>, Sp' = Sp, Outcome' = Outcome
  PROVE  I!SetRegisters(v')
  BY DEF I!SetRegisters

LEMMA StatementImplements ==
  ASSUME HInv, Statement, ~Departs, slots' = slots
  PROVE  I!Next /\ Tracked
  <1> DEFINE h == here.opcode
  <1>1. /\ AtLine /\ here.type = "do" /\ IsStatement(h) /\ h \in Word
        /\ I!op = h /\ Outcome = "running" /\ I!InBounds /\ i \in Word
        /\ Tracked /\ Sp' = Sp /\ Outcome' = Outcome /\ I!Finish(Pc)
    BY StatementView
  <1>2. /\ Class(h) \in {OP_MISC, OP_MOV_IMM, OP_ADD_IMM, OP_MATH, OP_STORE, OP_RAND, OP_DRAW, OP_MISC2}
        /\ Class(h) = OP_MISC => Imm(h) = \hE0
        /\ Class(h) = OP_MATH => Nib(h) \in {0, 1, 2, 4, 6, 14}
        /\ Class(h) = OP_MISC2 => Imm(h) \in {\h29, \h33} \/ (Imm(h) = \h65 /\ X(h) = 0)
    BY <1>1, StatementClasses
  <1>3. PICK m \in Effects(h) : v' = m.v /\ i' = m.i /\ ram' = m.ram /\ fb' = m.fb
    BY DEF Statement
  <1> HIDE DEF h
  <1>4. I!Executing(Class(h))
    BY <1>1, SameDecoding DEF I!Executing
  <1>5. /\ I!X(I!op) = X(h) /\ I!Y(I!op) = Y(h) /\ I!Nib(I!op) = Nib(h) /\ I!Imm(I!op) = Imm(h)
        /\ I!Addr(I!op) = Addr(h)
    BY <1>1, SameDecoding
  <1>6. UNCHANGED <<i, ram, fb>> => I!SetRegisters(v')
    BY <1>1, RegistersImplement
  <1>7. CASE Class(h) = OP_MISC
    <2>1. fb' = {} /\ UNCHANGED <<v, i, ram>>
      <3>1. m = [Machine EXCEPT !.fb = {}]
        BY <1>3, <1>7, EffectFacts
      <3>2. QED
        BY <1>3, <3>1, MachineFields
    <2>2. I!ClearScreen
      BY <1>1, <1>2, <1>4, <1>5, <1>7, <2>1, SameDecoding DEF I!ClearScreen, I!registers
    <2>3. QED
      BY <1>1, <2>2 DEF I!Next
  <1>8. CASE Class(h) = OP_MOV_IMM
    <2>1. v' = Assign(v, X(h), Imm(h)) /\ UNCHANGED <<i, ram, fb>>
      <3>1. m = [Machine EXCEPT !.v = Assign(v, X(h), Imm(h))]
        BY <1>3, <1>8, EffectFacts
      <3>2. QED
        BY <1>3, <3>1, MachineFields
    <2>2. I!MoveImm
      BY <1>4, <1>5, <1>6, <1>8, <2>1, SameDecoding, SameBytes DEF I!MoveImm
    <2>3. QED
      BY <1>1, <2>2 DEF I!Next
  <1>9. CASE Class(h) = OP_ADD_IMM
    <2>1. v' = Assign(v, X(h), v[X(h)] + Imm(h)) /\ UNCHANGED <<i, ram, fb>>
      <3>1. m = [Machine EXCEPT !.v = Assign(v, X(h), v[X(h)] + Imm(h))]
        BY <1>3, <1>9, EffectFacts
      <3>2. QED
        BY <1>3, <3>1, MachineFields
    <2>2. I!AddImm
      BY <1>4, <1>5, <1>6, <1>9, <2>1, SameDecoding, SameBytes DEF I!AddImm
    <2>3. QED
      BY <1>1, <2>2 DEF I!Next
  <1>10. CASE Class(h) = OP_MATH
    <2>1. v' = MathText(Nib(h), v, X(h), Y(h)) /\ UNCHANGED <<i, ram, fb>>
      <3>1. m = [Machine EXCEPT !.v = MathText(Nib(h), v, X(h), Y(h))]
        BY <1>3, <1>10, EffectFacts
      <3>2. QED
        BY <1>3, <3>1, MachineFields
    <2>2. I!Executing(I!OP_MATH) /\ I!SetRegisters(v')
      BY <1>4, <1>6, <1>10, <2>1, SameDecoding
    <2>3. CASE Nib(h) = 0
      <3>1. v' = I!Assign(v, X(h), v[Y(h)])
        <4>1. MathText(0, v, X(h), Y(h)) = I!Assign(v, X(h), v[Y(h)])
          BY SameMath
        <4>2. QED
          BY <2>1, <2>3, <4>1
      <3>2. I!MathMove
        BY <1>5, <2>2, <2>3, <3>1 DEF I!MathMove, I!MathCase
      <3>3. QED
        BY <1>1, <3>2 DEF I!Next
    <2>4. CASE Nib(h) = 1
      <3>1. v' = I!Assign(v, X(h), I!Or8(v[X(h)], v[Y(h)]))
        <4>1. MathText(1, v, X(h), Y(h)) = I!Assign(v, X(h), I!Or8(v[X(h)], v[Y(h)]))
          BY SameMath
        <4>2. QED
          BY <2>1, <2>4, <4>1
      <3>2. I!MathOr
        BY <1>5, <2>2, <2>4, <3>1 DEF I!MathOr, I!MathCase
      <3>3. QED
        BY <1>1, <3>2 DEF I!Next
    <2>5. CASE Nib(h) = 2
      <3>1. v' = I!Assign(v, X(h), I!And8(v[X(h)], v[Y(h)]))
        <4>1. MathText(2, v, X(h), Y(h)) = I!Assign(v, X(h), I!And8(v[X(h)], v[Y(h)]))
          BY SameMath
        <4>2. QED
          BY <2>1, <2>5, <4>1
      <3>2. I!MathAnd
        BY <1>5, <2>2, <2>5, <3>1 DEF I!MathAnd, I!MathCase
      <3>3. QED
        BY <1>1, <3>2 DEF I!Next
    <2>6. CASE Nib(h) = 4
      <3>1. v' = I!AddTo(v, X(h), Y(h))
        <4>1. MathText(4, v, X(h), Y(h)) = I!AddTo(v, X(h), Y(h))
          BY SameMath
        <4>2. QED
          BY <2>1, <2>6, <4>1
      <3>2. I!MathAdd
        BY <1>5, <2>2, <2>6, <3>1 DEF I!MathAdd, I!MathCase
      <3>3. QED
        BY <1>1, <3>2 DEF I!Next
    <2>7. CASE Nib(h) = 6
      <3>1. v' = I!ShiftRight(v, X(h))
        <4>1. MathText(6, v, X(h), Y(h)) = I!ShiftRight(v, X(h))
          BY SameMath
        <4>2. QED
          BY <2>1, <2>7, <4>1
      <3>2. I!MathShiftRight
        BY <1>5, <2>2, <2>7, <3>1 DEF I!MathShiftRight, I!MathCase
      <3>3. QED
        BY <1>1, <3>2 DEF I!Next
    <2>8. CASE Nib(h) = 14
      <3>1. v' = I!ShiftLeft(v, X(h))
        <4>1. MathText(14, v, X(h), Y(h)) = I!ShiftLeft(v, X(h))
          BY SameMath
        <4>2. QED
          BY <2>1, <2>8, <4>1
      <3>2. I!MathShiftLeft
        BY <1>5, <2>2, <2>8, <3>1 DEF I!MathShiftLeft, I!MathCase
      <3>3. QED
        BY <1>1, <3>2 DEF I!Next
    <2>9. QED
      BY <1>1, <1>2, <1>10, <2>3, <2>4, <2>5, <2>6, <2>7, <2>8
  <1>11. CASE Class(h) = OP_STORE
    <2>1. i' = Addr(h) /\ UNCHANGED <<v, ram, fb>>
      <3>1. m = [Machine EXCEPT !.i = Addr(h)]
        BY <1>3, <1>11, EffectFacts
      <3>2. QED
        BY <1>3, <3>1, MachineFields
    <2>2. I!Store
      BY <1>1, <1>4, <1>5, <1>11, <2>1, SameDecoding DEF I!Store, I!SetIndex
    <2>3. QED
      BY <1>1, <2>2 DEF I!Next
  <1>12. CASE Class(h) = OP_RAND
    <2>1. m \in RandText(h)
      BY <1>3, <1>12, EffectFacts
    <2>2. PICK r \in 0..254 : m = [Machine EXCEPT !.v = Assign(v, X(h), And8(r, Imm(h)))]
      BY <2>1 DEF RandText
    <2>3. v' = Assign(v, X(h), And8(r, Imm(h))) /\ UNCHANGED <<i, ram, fb>>
      BY <1>3, <2>2, MachineFields
    <2> DEFINE S == Bits(r) \cap Bits(Imm(h))
    <2>4. And8(r, Imm(h)) = ByteOf(S)
      BY DEF And8
    <2>5. S \in SUBSET Bits(Imm(h))
      OBVIOUS
    <2> HIDE DEF S
    <2>6. I!Rand
      BY <1>4, <1>5, <1>6, <1>12, <2>3, <2>4, <2>5, SameDecoding, SameBytes DEF I!Rand
    <2>7. QED
      BY <1>1, <2>6 DEF I!Next
  <1>13. CASE Class(h) = OP_DRAW
    <2> DEFINE T == Toggled(ram, i, v[X(h)] % 64, v[Y(h)] % 64, Nib(h))
               w == Flag(v, T \cap fb # {})
    <2>1. m = [Machine EXCEPT !.fb = Flip(fb, T), !.v = w]
      <3>1. m = DrawText(h)
        BY <1>3, <1>13, EffectFacts
      <3>2. DrawText(h) = [Machine EXCEPT !.fb = Flip(fb, T), !.v = w]
        BY DEF DrawText
      <3>3. QED
        BY <3>1, <3>2
    <2>2. I!Toggled(ram, i, I!DrawX, I!DrawY, I!Nib(I!op)) = T
      BY <1>5, SameScreen DEF I!DrawX, I!DrawY, FrameWidth
    <2> HIDE DEF T
    <2>3. I!Flag(v, T \cap fb # {}) = w
      BY DEF I!Flag, Flag
    <2> HIDE DEF w
    <2>4. fb' = Flip(fb, T) /\ v' = w /\ UNCHANGED <<i, ram>>
      BY <1>3, <2>1, MachineFields
    <2>5. I!Draw
      BY <1>1, <1>4, <1>13, <2>2, <2>3, <2>4, SameDecoding, SameScreen DEF I!Draw
    <2>6. QED
      BY <1>1, <2>5 DEF I!Next
  <1>14. CASE Class(h) = OP_MISC2
    <2>1. m = MiscText(h) /\ I!Executing(I!OP_MISC2)
      BY <1>3, <1>4, <1>14, EffectFacts, SameDecoding
    <2>2. CASE Imm(h) = \h29
      <3>1. m = [Machine EXCEPT !.i = v[X(h)] * 5]
        BY <2>1, <2>2 DEF MiscText
      <3>2. i' = v[X(h)] * 5 /\ UNCHANGED <<v, ram, fb>>
        BY <1>3, <3>1, MachineFields
      <3>3. I!Glyph
        BY <1>1, <1>5, <2>1, <2>2, <3>2 DEF I!Glyph, I!SetIndex
      <3>4. QED
        BY <1>1, <3>3 DEF I!Next
    <2>3. CASE Imm(h) = \h33
      <3>1. m = [Machine EXCEPT !.ram = PokeDigits(ram, i, v[X(h)])]
        BY <2>1, <2>3 DEF MiscText
      <3>2. ram' = PokeDigits(ram, i, v[X(h)]) /\ UNCHANGED <<v, i, fb>>
        BY <1>3, <3>1, MachineFields
      <3>3. I!Bcd
        BY <1>1, <1>5, <2>1, <2>3, <3>2, SameMemory DEF I!Bcd, I!registers
      <3>4. QED
        BY <1>1, <3>3 DEF I!Next
    <2>4. CASE Imm(h) = \h65 /\ X(h) = 0
      <3>1. m = [[Machine EXCEPT !.v = Fill(ram, i, v, X(h))] EXCEPT !.i = (i + X(h)) % WordSize]
        BY <2>1, <2>4 DEF MiscText
      <3>2. (i + X(h)) % WordSize = i
        <4>1. \A n \in Nat : n <= 65535 => (n + 0) % 65536 = n
          OBVIOUS
        <4>2. i \in Nat /\ i <= 65535 /\ WordSize = 65536 /\ X(h) = 0
          BY <1>1, <2>4, WordRange, Sizes
        <4>3. QED
          BY <4>1, <4>2
      <3>3. v' = Fill(ram, i, v, X(h)) /\ UNCHANGED <<i, ram, fb>>
        BY <1>3, <3>1, <3>2, MachineFields
      <3>4. Fill(ram, i, v, X(h)) = I!LoadRegisters(v, ram, i, X(h))
        BY SameMemory DEF Fill, I!LoadRegisters
      <3>5. I!Load
        BY <1>5, <1>6, <2>1, <2>4, <3>3, <3>4 DEF I!Load
      <3>6. QED
        BY <1>1, <3>5 DEF I!Next
    <2>5. QED
      BY <1>2, <1>14, <2>2, <2>3, <2>4
  <1>15. QED
    BY <1>2, <1>7, <1>8, <1>9, <1>10, <1>11, <1>12, <1>13, <1>14

-----------------------------------------------------------------------------
(* Before the compiled program runs the interpreter waits at its start.     *)

\* A step that calls nothing, as the recompiler and the C compiler do.
Preparing == Grabs \/ RejectIndexedJump \/ WriteWild \/ Write

LEMMA PreparingStutters ==
  ASSUME HInv, Preparing, slots' = slots
  PROVE  UNCHANGED I!vars /\ Tracked /\ calls = <<>> /\ calls' = <<>>
  <1>1. /\ status \in {"grabbing", "grabbed"} /\ calls' = calls /\ UNCHANGED machine
        /\ status' \in {"grabbing", "grabbed", "wild", "exited", "compiled", "rejected"}
    <2>1. CASE Grabs
      <3>1. GrabNext /\ calls' = calls /\ UNCHANGED machine
        BY <2>1 DEF Grabs
      <3>2. status = "grabbing"
        BY <3>1 DEF GrabNext, StoreOpcode, GrabTarget, LeaveTables, EndAtJump, Advance, EndOfRom, Grabbing
      <3>3. CInv'
        BY <3>1, <3>2, CInvStep DEF HInv, RInv
      <3>4. status' \in {"grabbing", "grabbed", "wild"}
        BY <3>3 DEF CInv, GInv, TypeOK
      <3>5. QED
        BY <3>1, <3>2, <3>4
    <2>2. CASE RejectIndexedJump \/ WriteWild
      BY <2>2 DEF RejectIndexedJump, WriteWild
    <2>3. CASE Write
      BY <2>3 DEF Write
    <2>4. QED
      BY <2>1, <2>2, <2>3 DEF Preparing
  <1>2. calls = <<>> /\ calls' = <<>>
    BY <1>1 DEF HInv, RInv, Kept
  <1>3. Pc = Entry + 0 /\ Pc' = Entry + 0 /\ Sp = 0 /\ Sp' = 0
    BY <1>2 DEF Pc, Sp
  <1>4. Outcome = "running" /\ Outcome' = "running"
    BY <1>1 DEF Outcome
  <1>5. UNCHANGED I!vars
    BY <1>1, <1>3, <1>4 DEF I!vars, machine
  <1>6. Tracked
    <2>1. Recorded(<<>>, slots) /\ Len(<<>>) <= MaxCalls
      BY <1>2 DEF HInv
    <2>2. Len(<<>>) = 0
      OBVIOUS
    <2>3. \A d \in 1..(0 - 1) : FALSE
      OBVIOUS
    <2>4. Recorded(calls, slots)'
      BY <1>2, <2>1, <2>2, <2>3 DEF Recorded
    <2>5. QED
      BY <1>2, <2>1, <2>4 DEF Tracked
  <1>7. QED
    BY <1>2, <1>5, <1>6

\* main calls func_0000, which is at the start of the ROM.
LEMMA StartStutters ==
  ASSUME HInv, Start, slots' = slots
  PROVE  UNCHANGED I!vars /\ Tracked
  <1> DEFINE e == Entered(0)
  <1>1. /\ status = "compiled" /\ status' = "running" /\ calls' = << e >> /\ calls = <<>>
        /\ funcs' = funcs /\ text' = text /\ UNCHANGED machine
    BY DEF Start, HInv
  <1>2. text = Printed /\ Tables /\ 0 \in Resolved
    BY <1>1 DEF HInv, RInv, Kept, Accepted
  <1>3. Spot(e) = 0
    BY <1>2, EnteredSpot
  <1> HIDE DEF e
  <1>4. Len(calls') = 1 /\ calls'[Len(calls')] = e /\ calls' # <<>>
    BY <1>1
  <1>5. Pc' = Entry + 0 /\ Sp' = 0
    BY <1>1, <1>3, <1>4, NextSpot
  <1>6. Pc = Entry + 0 /\ Sp = 0 /\ Outcome = "running" /\ Outcome' = "running"
    BY <1>1 DEF Pc, Sp, Outcome
  <1>7. UNCHANGED I!vars
    BY <1>1, <1>5, <1>6 DEF I!vars, machine
  <1>8. Tracked
    <2>1. DOMAIN slots = 0..(StackSize - 1)
      BY DEF HInv, Recorded
    <2>2. \A d \in 1..(1 - 1) : FALSE
      OBVIOUS
    <2>3. Recorded(calls, slots)'
      BY <1>4, <2>1, <2>2 DEF Recorded, StackSize
    <2>4. Len(calls') <= MaxCalls
      BY <1>4, Sizes
    <2>5. QED
      BY <2>3, <2>4 DEF Tracked
  <1>9. QED
    BY <1>7, <1>8

-----------------------------------------------------------------------------
(* The refinement.                                                         *)

LEMMA FitsStays == ASSUME rom' = rom, funcs' = funcs PROVE Fits' = Fits
  BY DEF Fits, InRom, Node, Size, romSize

LEMMA HInvInit == HInit => HInv
  <1> SUFFICES ASSUME HInit PROVE HInv
    OBVIOUS
  <1>1. RInv /\ status = "grabbing" /\ calls = <<>>
    BY RInvInit DEF HInit, RInit, Init
  <1>2. Len(<<>>) = 0 /\ (\A d \in 1..(0 - 1) : FALSE) /\ 0 <= MaxCalls
    BY Sizes
  <1>3. Recorded(<<>>, slots)
    BY <1>2 DEF HInit, Recorded
  <1>4. QED
    BY <1>1, <1>2, <1>3 DEF HInv, Kept

\* Each action is a step of the interpreter or leaves it where it is.
LEMMA ActionImplements ==
  ASSUME HInv, HNext
  PROVE  [I!Next]_(I!vars) /\ Tracked
  <1>1. CASE HCall
    BY <1>1, CallImplements DEF HCall
  <1>2. CASE HElse /\ Preparing
    BY <1>2, PreparingStutters DEF HElse
  <1>3. CASE HElse /\ Start
    BY <1>3, StartStutters DEF HElse
  <1>4. CASE HElse /\ (Expand \/ Statement \/ LeaveArrays)
    BY <1>4, ExpandImplements, StatementImplements, LeaveArraysImplements DEF HElse
  <1>5. CASE HElse /\ (Goto \/ CallTooDeep)
    BY <1>5, GotoImplements, CallTooDeepImplements DEF HElse
  <1>6. CASE HElse /\ (Return \/ ReturnToMain \/ EnterIf \/ PassIf)
    BY <1>6, ReturnImplements, ReturnToMainImplements, IfImplements DEF HElse
  <1>7. QED
    BY <1>1, <1>2, <1>3, <1>4, <1>5, <1>6 DEF HNext, HElse, Preparing

LEMMA HInvStep == HInv /\ [HNext]_hvars => HInv'
  <1> SUFFICES ASSUME HInv, [HNext]_hvars PROVE HInv'
    OBVIOUS
  <1>1. [RNext]_rvars
    BY DEF HNext, HCall, HElse, RNext, Runs, hvars
  <1>2. RInv'
    BY <1>1, RInvStep DEF HInv
  <1>3. Tracked
    <2>1. CASE HNext
      BY <2>1, ActionImplements
    <2>2. CASE UNCHANGED hvars
      BY <2>2, StopTracked DEF hvars, rvars, gvars
    <2>3. QED
      BY <2>1, <2>2
  <1>4. status' \in Kept => Fits'
    <2>1. CASE Grabs \/ RejectIndexedJump \/ WriteWild
      <3>1. CASE Grabs
        <4>1. GrabNext
          BY <3>1 DEF Grabs
        <4>2. status = "grabbing"
          BY <4>1 DEF GrabNext, StoreOpcode, GrabTarget, LeaveTables, EndAtJump, Advance, EndOfRom, Grabbing
        <4>3. CInv'
          BY <4>1, <4>2, CInvStep DEF HInv, RInv
        <4>4. QED
          BY <4>3 DEF CInv, GInv, TypeOK, Kept
      <3>2. CASE RejectIndexedJump \/ WriteWild
        BY <3>2 DEF RejectIndexedJump, WriteWild, Kept
      <3>3. QED
        BY <2>1, <3>1, <3>2
    <2>2. CASE Write
      <3>1. status = "grabbed" /\ rom' = rom /\ funcs' = funcs
        BY <2>2 DEF Write
      <3>2. Fits
        BY <3>1 DEF HInv, RInv, CInv, GInv, Faithful, Fits
      <3>3. QED
        BY <3>1, <3>2, FitsStays
    <2>3. CASE Runs \/ UNCHANGED hvars
      <3>1. rom' = rom /\ funcs' = funcs /\ (status' \in Kept => status \in Kept)
        <4>1. CASE UNCHANGED hvars
          BY <4>1 DEF hvars, rvars, gvars
        <4>2. CASE Start
          BY <4>2 DEF Start, Kept
        <4>3. CASE Expand \/ Goto \/ Call \/ Return \/ EnterIf \/ PassIf
          BY <4>3 DEF Expand, Goto, Call, Return, EnterIf, PassIf, gvars
        <4>4. CASE Statement \/ LeaveArrays \/ CallTooDeep
          BY <4>4 DEF Statement, LeaveArrays, CallTooDeep, Doing, AtLine, Kept
        <4>5. CASE ReturnToMain
          BY <4>5 DEF ReturnToMain, AtReturn, Kept
        <4>6. QED
          BY <2>3, <4>1, <4>2, <4>3, <4>4, <4>5 DEF Runs
      <3>2. QED
        BY <3>1, FitsStays DEF HInv
    <2>4. QED
      BY <2>1, <2>2, <2>3 DEF HNext, HCall, HElse, Runs
  <1>5. status' = "compiled" => calls' = <<>>
    <2>1. CASE Preparing
      <3>1. calls' = calls
        BY <2>1 DEF Preparing, Grabs, RejectIndexedJump, WriteWild, Write
      <3>2. status \notin Kept
        BY <2>1 DEF Preparing, Grabs, RejectIndexedJump, WriteWild, Write, GrabNext, StoreOpcode, GrabTarget,
           LeaveTables, EndAtJump, Advance, EndOfRom, Grabbing, Kept
      <3>3. QED
        BY <3>1, <3>2 DEF HInv, RInv
    <2>2. CASE Runs
      BY <2>2 DEF Runs, Start, Expand, Statement, LeaveArrays, Goto, Call, CallTooDeep, Return, ReturnToMain,
         EnterIf, PassIf, Doing, AtLine, AtReturn, gvars
    <2>3. CASE UNCHANGED hvars
      BY <2>3 DEF HInv, hvars, rvars, gvars
    <2>4. QED
      BY <2>1, <2>2, <2>3 DEF HNext, HCall, HElse, Runs, Preparing
  <1>6. QED
    BY <1>2, <1>3, <1>4, <1>5 DEF HInv, Tracked

LEMMA StepImplements == HInv /\ [HNext]_hvars => [I!Next]_(I!vars)
  <1> SUFFICES ASSUME HInv, [HNext]_hvars PROVE [I!Next]_(I!vars)
    OBVIOUS
  <1>1. CASE HNext
    BY <1>1, ActionImplements
  <1>2. CASE UNCHANGED hvars
    <2>1. UNCHANGED <<calls, funcs, text, slots, status>> /\ UNCHANGED machine
      BY <1>2 DEF hvars, rvars, gvars
    <2>2. Pc' = Pc /\ Sp' = Sp
      BY <2>1, StopTracked
    <2>3. Outcome' = Outcome
      BY <2>1 DEF Outcome
    <2>4. QED
      BY <2>1, <2>2, <2>3 DEF I!vars, machine
  <1>3. QED
    BY <1>1, <1>2

LEMMA InitImplements == HInit => I!Init
  <1> SUFFICES ASSUME HInit PROVE I!Init
    OBVIOUS
  <1>1. /\ rom \in Roms /\ status = "grabbing" /\ calls = <<>>
        /\ v = [r \in Reg |-> 0] /\ i = 0 /\ ram = Boot(rom) /\ fb = {}
        /\ slots = [k \in 0..(StackSize - 1) |-> 0]
    BY DEF HInit, RInit, Init
  <1>2. Pc = Entry /\ Sp = 0 /\ Outcome = "running"
    BY <1>1 DEF Pc, Sp, Outcome, Entry
  <1>3. ram \in BootImages
    BY <1>1 DEF BootImages
  <1>4. QED
    BY <1>1, <1>2, <1>3, SameMemory DEF I!Init

\* For every set of ROMs and every size of the tables: up to the first instruction to
\* which it gives another meaning, the compiled program is the interpreter
\* (ImplementsInterp).
THEOREM Implementation == HSpec => ImplementsInterp
  <1>1. HSpec => []HInv
    BY HInvInit, HInvStep, PTL DEF HSpec
  <1>2. QED
    BY <1>1, InitImplements, StepImplements, PTL DEF HSpec, ImplementsInterp, I!Spec

=============================================================================
