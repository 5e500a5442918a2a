---------------------------- MODULE MessageBody ----------------------------
(***************************************************************************)
(* The body of a message (net_message.h): a vector of bytes used as a      *)
(* stack, and the two ways this program puts a string on it.               *)
(*                                                                         *)
(* A C string is a sequence of nonzero bytes; a short is two bytes, an int *)
(* four, the low one first.  Base is how many values a byte has, 256; the  *)
(* runs take a small one, so that a short overflows on short strings.      *)
(***************************************************************************)
EXTENDS Integers, Sequences, SequencesExt

CONSTANT Base

ASSUME BaseAssumption == Base \in Nat /\ Base >= 2

Byte == 0..(Base - 1)
Nul == 0
CStrings == Seq(Byte \ {Nul})

\* Mistake: the low byte is not cut.
ShortUncut(n) == <<n, n \div Base>>

\* uint16_t and int, and the numbers their bytes are read as.
Short(n) == <<n % Base, n \div Base>>
ShortOf(b) == b[1] + Base * b[2]
Int32(n) == Short(n % (Base * Base)) \o Short(n \div (Base * Base))
Int32Of(b) == ShortOf(SubSeq(b, 1, 2)) + Base * Base * ShortOf(SubSeq(b, 3, 4))

\* operator<<
Push(body, bytes) == body \o bytes

\* operator>> of w bytes: the bytes read and those that are left.  With fewer
\* than w in the body it would read and resize out of bounds.
Popped(body, w) == SubSeq(body, Len(body) - w + 1, Len(body))
Left(body, w) == SubSeq(body, 1, Len(body) - w)

\* What strcpy puts into the array, and what a string is made of again.
CArray(s) == Append(s, Nul)
UpToNul(a) == SubSeq(a, 1, SelectInSeq(a, LAMBDA c : c = Nul) - 1)

\* n characters one by one, the last one first, popped the first one first.
PushChars(body, a) == Push(body, Reverse(a))
PoppedChars(body, n) == Reverse(Popped(body, n))

\* n = length + 1, cut to 16 bits.
StrLen(s) == (Len(s) + 1) % (Base * Base)

\* Mistake: the first character is pushed first.
PushStrForward(body, s) ==
  Push(Push(body, SubSeq(CArray(s), 1, StrLen(s))), Short(StrLen(s)))

\* push_str: n characters and n.
PushStr(body, s) ==
  Push(PushChars(body, SubSeq(CArray(s), 1, StrLen(s))), Short(StrLen(s)))

\* pop_str: the string and what is left of the body.
PopStr(body) ==
  LET n == ShortOf(Popped(body, 2)) IN
    [str  |-> UpToNul(PoppedChars(Left(body, 2), n)),
     left |-> Left(Left(body, 2), n)]

\* The server's answers carry the length as an int, and the client pops one.
PushText(body, s) ==
  Push(PushChars(body, CArray(s)), Int32(Len(s) + 1))
PopText(body) ==
  LET n == Int32Of(Popped(body, 4)) IN
    [str  |-> UpToNul(PoppedChars(Left(body, 4), n)),
     left |-> Left(Left(body, 4), n)]

\* Does n fit into 16 bits?
Fits(s) == Len(s) + 1 < Base * Base
=============================================================================
