------------------------------- MODULE TwoPass -------------------------------
(***************************************************************************)
(* What the assembler promises: a source without errors becomes, in one      *)
(* step, the words that a first pass over all labels and a second pass over   *)
(* all instructions would give; any other source becomes nothing.          *)
(*                                                                         *)
(* A source is a sequence of tokens, newlines and semicolons.  Everything is *)
(* said in terms of positions in it.                                       *)
(***************************************************************************)
EXTENDS Integers, FiniteSets, Sequences

CONSTANTS
    Entry,            \* the address of the first word
    MaxLineLen,
    Newline, Semicolon,
    Unrecognized(_),  \* of a token: it is none
    Operands(_),      \* of an instruction: what its operands must be
    Transfers,        \* the instructions whose operand is a label
    Encode(_, _, _)   \* the word of an instruction, its operands and an address

VARIABLES
    source,
    file,     \* the words of out.ch8
    outcome   \* "none", "saved" or "failed"

\* The tokens: what is not a newline and not in a comment.
Shown ==
    { p \in DOMAIN source :
        /\ source[p] # Newline
        /\ \A q \in 1..p : source[q] = Semicolon => \E n \in q..p : source[n] = Newline }

Is(p, type) == source[p].type = type

Instructions == { p \in Shown : Is(p, "instruction") }

\* The operands of the instruction at position p.
Behind(p) == (p + 1)..(p + Len(Operands(source[p].val)))

Taken(starts) == UNION { Behind(p) : p \in starts }

\* Where a register or a number may stand, any token is taken, an instruction or a
\* label too, which then is neither.
Readable(p) ==
    \A q \in Behind(p) : LET operand == Operands(source[p].val)[q - p]
                         IN  operand = "either" \/ Is(q, operand)

\* Every token is an instruction that starts a word, one of the operands that follow
\* such an instruction in its line, or a label.
Reading(starts) ==
    /\ \A p \in starts : Behind(p) \subseteq Shown \ starts /\ Readable(p)
    /\ \A p \in Shown \ (starts \cup Taken(starts)) : Is(p, "label")

\* The first pass: an instruction takes one word, and the first label of a name
\* is the one that counts.
AddressAt(starts, p) == Entry + 2 * Cardinality({ q \in starts : q < p })

Definitions(starts, name) ==
    { p \in Shown \ Taken(starts) : Is(p, "label") /\ source[p].val = name }

LabelAddress(starts, name) ==
    AddressAt(starts, CHOOSE p \in Definitions(starts, name) :
                          \A q \in Definitions(starts, name) : p <= q)

\* The second pass.
WordAt(starts, p) ==
    LET name == source[p].val
        args == SubSeq(source, p + 1, p + Len(Operands(name)))
    IN  Encode(name, args, IF name \in Transfers THEN LabelAddress(starts, args[1].val) ELSE 0)

Words(starts) ==
    [k \in 1..Cardinality(starts) |->
        WordAt(starts, CHOOSE p \in starts : AddressAt(starts, p) = Entry + 2 * (k - 1))]

Correct(starts) ==
    /\ Reading(starts)
    /\ \A p \in starts : source[p].val \in Transfers => Definitions(starts, source[p + 1].val) # {}
    /\ \A p \in Shown : ~Unrecognized(source[p]) /\ ~(p..(p + MaxLineLen) \subseteq Shown)

Init ==
    /\ file = <<>>
    /\ outcome = "none"

Succeed ==
    /\ outcome = "none" /\ outcome' = "saved"
    /\ \E starts \in SUBSET Instructions : Correct(starts) /\ file' = Words(starts)
    /\ source' = source

Fail ==
    /\ outcome = "none" /\ outcome' = "failed"
    /\ ~\E starts \in SUBSET Instructions : Correct(starts)
    /\ UNCHANGED <<source, file>>

Next == Succeed \/ Fail

Spec == Init /\ [][Next]_<<source, file, outcome>>

=============================================================================
