------------------------- MODULE MessageBodyProofs -------------------------
(***************************************************************************)
(* What is pushed on a body is popped again, for every number of values a  *)
(* byte may have, every string and whatever is below it.                   *)
(***************************************************************************)
EXTENDS MessageBody, SequenceTheorems, TLAPS

-----------------------------------------------------------------------------
(* The stack.                                                              *)

\* The two parts of a concatenation.
LEMMA ConcatParts ==
  ASSUME NEW S, NEW b \in Seq(S), NEW c \in Seq(S)
  PROVE  /\ SubSeq(b \o c, 1, Len(b)) = b
         /\ SubSeq(b \o c, Len(b) + 1, Len(b) + Len(c)) = c
<1>1. SubSeq(b \o c, 1, Len(b)) = b
  <2>1. CASE Len(b) = 0
    BY <2>1, SubSeqEmpty, EmptySeq
  <2>2. CASE Len(b) # 0
    <3>1. Len(b) \in Nat /\ 1 \in 1..Len(b) /\ Len(b) \in 1..Len(b)
      BY <2>2, LenProperties
    <3>2. SubSeq(b \o c, 1, Len(b)) = SubSeq(b, 1, Len(b))
      BY <3>1, SubSeqOfConcat1
    <3> QED BY <3>2, SubSeqFull
  <2> QED BY <2>1, <2>2
<1>2. SubSeq(b \o c, Len(b) + 1, Len(b) + Len(c)) = c
  <2>1. CASE Len(c) = 0
    <3>1. SubSeq(b \o c, Len(b) + 1, Len(b)) = <<>>
      BY SubSeqEmpty, LenProperties
    <3>2. c = <<>> /\ Len(b) + Len(c) = Len(b)
      BY <2>1, LenProperties, EmptySeq
    <3> QED BY <3>1, <3>2
  <2>2. CASE Len(c) # 0
    <3>1. /\ Len(b) \in Nat /\ Len(c) \in Nat
          /\ Len(b) + 1 \in Len(b) + 1..Len(b) + Len(c)
          /\ Len(b) + Len(c) \in Len(b) + 1..Len(b) + Len(c)
      BY <2>2, LenProperties
    <3>2. SubSeq(b \o c, Len(b) + 1, Len(b) + Len(c))
            = SubSeq(c, Len(b) + 1 - Len(b), Len(b) + Len(c) - Len(b))
      BY <3>1, SubSeqOfConcat2
    <3>3. Len(b) + 1 - Len(b) = 1 /\ Len(b) + Len(c) - Len(b) = Len(c)
      BY <3>1
    <3> QED BY <3>2, <3>3, SubSeqFull
  <2> QED BY <2>1, <2>2
<1> QED BY <1>1, <1>2

\* What is popped is what was pushed last, and what is left what was there.
LEMMA PushedIsPopped ==
  ASSUME NEW S, NEW body \in Seq(S), NEW bytes \in Seq(S)
  PROVE  /\ Push(body, bytes) \in Seq(S)
         /\ Popped(Push(body, bytes), Len(bytes)) = bytes
         /\ Left(Push(body, bytes), Len(bytes)) = body
<1>1. /\ Len(body) \in Nat /\ Len(bytes) \in Nat
      /\ body \o bytes \in Seq(S)
      /\ Len(body \o bytes) = Len(body) + Len(bytes)
  BY LenProperties, ConcatProperties
<1>2. /\ Len(body \o bytes) - Len(bytes) + 1 = Len(body) + 1
      /\ Len(body \o bytes) - Len(bytes) = Len(body)
  BY <1>1
<1> QED BY <1>1, <1>2, ConcatParts DEF Push, Popped, Left

\* Reversing twice.
LEMMA ReverseTwice ==
  ASSUME NEW S, NEW a \in Seq(S)
  PROVE  Reverse(a) \in Seq(S) /\ Len(Reverse(a)) = Len(a) /\ Reverse(Reverse(a)) = a
<1> DEFINE r == Reverse(a)
<1>1. Len(a) \in Nat /\ \A i \in 1..Len(a) : a[i] \in S
  BY LenProperties, ElementOfSeq
<1>2. r \in Seq(S) /\ Len(r) = Len(a) /\ \A i \in 1..Len(a) : r[i] = a[Len(a) - i + 1]
  BY <1>1 DEF Reverse
<1> HIDE DEF r
<1>3. /\ Reverse(r) \in Seq(S) /\ Len(Reverse(r)) = Len(a)
      /\ \A i \in 1..Len(a) : Reverse(r)[i] = r[Len(a) - i + 1]
  BY <1>1, <1>2, ElementOfSeq DEF Reverse
<1>4. ASSUME NEW i \in 1..Len(a) PROVE Reverse(r)[i] = a[i]
  <2>1. Len(a) - i + 1 \in 1..Len(a) /\ Len(a) - (Len(a) - i + 1) + 1 = i
    BY <1>1
  <2> QED BY <1>2, <1>3, <2>1
<1>5. Reverse(r) = a
  BY <1>3, <1>4, SeqEqual
<1> QED BY <1>2, <1>5 DEF r

\* Characters pushed last to first are popped first to last.
LEMMA CharsComeBack ==
  ASSUME NEW S, NEW body \in Seq(S), NEW a \in Seq(S)
  PROVE  /\ PushChars(body, a) \in Seq(S)
         /\ PoppedChars(PushChars(body, a), Len(a)) = a
         /\ Left(PushChars(body, a), Len(a)) = body
<1>1. Reverse(a) \in Seq(S) /\ Len(Reverse(a)) = Len(a) /\ Reverse(Reverse(a)) = a
  BY ReverseTwice
<1> QED BY <1>1, PushedIsPopped DEF PushChars, PoppedChars

-----------------------------------------------------------------------------
(* Numbers.                                                                *)

\* Division with remainder.
LEMMA DivMod ==
  ASSUME NEW n \in Nat, NEW d \in Nat \ {0}
  PROVE  /\ n % d \in 0..(d - 1) /\ n \div d \in Nat
         /\ n = d * (n \div d) + (n % d)
OBVIOUS

\* A number is read back from its two bytes, and they are bytes if it fits.
LEMMA ShortComesBack ==
  ASSUME NEW n \in Nat
  PROVE  /\ Short(n) \in Seq(Nat) /\ Len(Short(n)) = 2
         /\ ShortOf(Short(n)) = n
         /\ n < Base * Base => Short(n) \in Seq(Byte)
<1> DEFINE lo == n % Base
           hi == n \div Base
<1>1. lo \in 0..(Base - 1) /\ hi \in Nat /\ n = Base * hi + lo
  <2>1. Base \in Nat \ {0}
    BY BaseAssumption
  <2> QED BY <2>1, DivMod
<1>2. Short(n) = <<lo, hi>>
  BY DEF Short
<1> HIDE DEF lo, hi
<1>3. n < Base * Base => hi \in Byte
  BY <1>1, BaseAssumption DEF Byte
<1>4. lo + Base * hi = n
  BY <1>1, BaseAssumption
<1>5. lo \in Byte /\ lo \in Nat
  BY <1>1, BaseAssumption DEF Byte
<1>6. ShortOf(Short(n)) = n
  BY <1>2, <1>4 DEF ShortOf
<1>7. <<lo, hi>> \in Seq(Nat) /\ Len(<<lo, hi>>) = 2
  BY <1>1, <1>5
<1>8. hi \in Byte => <<lo, hi>> \in Seq(Byte)
  BY <1>5
<1> QED BY <1>2, <1>3, <1>6, <1>7, <1>8

\* The same of four bytes.
LEMMA Int32ComesBack ==
  ASSUME NEW n \in Nat
  PROVE  /\ Int32(n) \in Seq(Nat) /\ Len(Int32(n)) = 4
         /\ Int32Of(Int32(n)) = n
         /\ n < Base * Base * (Base * Base) => Int32(n) \in Seq(Byte)
<1> DEFINE B2 == Base * Base
           lo == n % B2
           hi == n \div B2
<1>1. B2 \in Nat \ {0}
  BY BaseAssumption
<1>2. lo \in 0..(B2 - 1) /\ hi \in Nat /\ n = B2 * hi + lo
  <2> HIDE DEF B2
  <2> QED BY <1>1, DivMod DEF lo, hi
<1>3. Int32(n) = Short(lo) \o Short(hi)
  BY DEF Int32
<1> HIDE DEF lo, hi
<1>4. lo \in Nat /\ lo < B2
  BY <1>1, <1>2
<1> DEFINE x == Short(lo)
           y == Short(hi)
<1>5. /\ SubSeq(Int32(n), 1, 2) = x /\ SubSeq(Int32(n), 3, 4) = y
      /\ Int32(n) \in Seq(Nat) /\ Len(Int32(n)) = 4
  <2>1. x \in Seq(Nat) /\ Len(x) = 2 /\ y \in Seq(Nat) /\ Len(y) = 2
    BY <1>2, <1>4, ShortComesBack
  <2> HIDE DEF x, y
  <2>2. /\ SubSeq(x \o y, 1, Len(x)) = x
        /\ SubSeq(x \o y, Len(x) + 1, Len(x) + Len(y)) = y
    BY <2>1, ConcatParts
  <2>3. x \o y \in Seq(Nat) /\ Len(x \o y) = Len(x) + Len(y)
    BY <2>1, ConcatProperties
  <2>4. Len(x) + 1 = 3 /\ Len(x) + Len(y) = 4
    BY <2>1
  <2>5. Int32(n) = x \o y
    BY <1>3 DEF x, y
  <2> QED BY <2>1, <2>2, <2>3, <2>4, <2>5
<1>6. Int32Of(Int32(n)) = lo + B2 * hi
  BY <1>2, <1>4, <1>5, ShortComesBack DEF Int32Of
<1>7. n < B2 * B2 => hi < B2
  <2> HIDE DEF B2
  <2> QED BY <1>1, <1>2
<1>8. n < B2 * B2 => Int32(n) \in Seq(Byte)
  BY <1>2, <1>3, <1>4, <1>7, ShortComesBack, ConcatProperties
<1>9. lo + B2 * hi = n
  <2> HIDE DEF B2
  <2> QED BY <1>1, <1>2
<1> QED BY <1>5, <1>6, <1>8, <1>9

-----------------------------------------------------------------------------
(* Strings.                                                                *)

\* A C string ends at its first Nul.
LEMMA CArrayEnds ==
  ASSUME NEW s \in CStrings
  PROVE  /\ CArray(s) \in Seq(Byte) /\ Len(CArray(s)) = Len(s) + 1
         /\ UpToNul(CArray(s)) = s
         /\ Len(s) \in Nat
<1> DEFINE a == CArray(s)
           n == Len(s)
           ends == {i \in 1..Len(a) : a[i] = Nul}
<1>1. s \in Seq(Byte) /\ Nul \in Byte /\ n \in Nat
  <2>1. s \in Seq(Byte \ {Nul})
    BY DEF CStrings
  <2> QED BY <2>1, BaseAssumption, SeqMonotonic, LenProperties DEF Byte, Nul
<1>2. \A i \in 1..n : s[i] # Nul
  BY ElementOfSeq DEF CStrings
<1>3. a \in Seq(Byte) /\ Len(a) = n + 1 /\ a[n + 1] = Nul /\ \A i \in 1..n : a[i] = s[i]
  BY <1>1, AppendProperties DEF CArray
<1>4. ends = {n + 1}
  BY <1>1, <1>2, <1>3
<1>5. UpToNul(a) = SubSeq(a, 1, (IF ends # {} THEN Min(ends) ELSE 0) - 1)
  BY DEF UpToNul, SelectInSeq
<1> HIDE DEF ends
<1>6. UpToNul(a) = SubSeq(a, 1, n)
  <2>1. Min(ends) = n + 1
    BY <1>1, <1>4 DEF Min
  <2>2. (IF ends # {} THEN Min(ends) ELSE 0) - 1 = n
    BY <1>1, <1>4, <2>1
  <2> QED BY <1>5, <2>2
<1>7. SubSeq(a, 1, n) = s
  <2>1. a = s \o <<Nul>> /\ <<Nul>> \in Seq(Byte)
    BY <1>1, AppendIsConcat DEF CArray
  <2> QED BY <1>1, <2>1, ConcatParts
<1> QED BY <1>1, <1>3, <1>6, <1>7

\* What push_str has pushed is what pop_str returns, and nothing below it is
\* touched, if the string with its Nul is shorter than 2^16 (client.cpp:77-92,
\* SimpleServer.cpp:62-81).
THEOREM StrComesBack ==
  ASSUME NEW body \in Seq(Byte), NEW s \in CStrings, Fits(s)
  PROVE  /\ PushStr(body, s) \in Seq(Byte)
         /\ PopStr(PushStr(body, s)) = [str |-> s, left |-> body]
<1> DEFINE a == CArray(s)
           n == Len(s) + 1
           chars == PushChars(body, a)
           pushed == Push(chars, Short(n))
<1>1. a \in Seq(Byte) /\ Len(a) = n /\ UpToNul(a) = s /\ n \in Nat
  BY CArrayEnds
<1>2. n < Base * Base
  BY DEF Fits
<1>3. StrLen(s) = n
  BY <1>1, <1>2, BaseAssumption DEF StrLen
<1>4. PushStr(body, s) = pushed
  <2>1. SubSeq(a, 1, n) = a
    BY <1>1, SubSeqFull
  <2> QED BY <1>3, <2>1 DEF PushStr
<1> HIDE DEF a, n
<1>5. /\ Short(n) \in Seq(Byte) /\ Len(Short(n)) = 2 /\ ShortOf(Short(n)) = n
  BY <1>1, <1>2, ShortComesBack
<1>6. /\ chars \in Seq(Byte) /\ PoppedChars(chars, n) = a /\ Left(chars, n) = body
  BY <1>1, CharsComeBack
<1> HIDE DEF chars
<1>7. /\ pushed \in Seq(Byte)
      /\ Popped(pushed, 2) = Short(n) /\ Left(pushed, 2) = chars
  BY <1>5, <1>6, PushedIsPopped
<1> HIDE DEF pushed
<1>8. PopStr(pushed) = [str |-> UpToNul(a), left |-> body]
  BY <1>5, <1>6, <1>7 DEF PopStr
<1> QED BY <1>1, <1>4, <1>7, <1>8

\* The same of the server's answers and the client's way of reading them
\* (SimpleServer.cpp:333-343, client.cpp:384-393).
THEOREM TextComesBack ==
  ASSUME NEW body \in Seq(Byte), NEW s \in CStrings,
         Len(s) + 1 < Base * Base * (Base * Base)
  PROVE  /\ PushText(body, s) \in Seq(Byte)
         /\ PopText(PushText(body, s)) = [str |-> s, left |-> body]
<1> DEFINE a == CArray(s)
           n == Len(s) + 1
           chars == PushChars(body, a)
           pushed == Push(chars, Int32(n))
<1>1. a \in Seq(Byte) /\ Len(a) = n /\ UpToNul(a) = s /\ n \in Nat
  BY CArrayEnds
<1>2. PushText(body, s) = pushed
  BY DEF PushText
<1>3. n < Base * Base * (Base * Base)
  OBVIOUS
<1> HIDE DEF a, n
<1>4. Int32(n) \in Seq(Byte) /\ Len(Int32(n)) = 4 /\ Int32Of(Int32(n)) = n
  BY <1>1, <1>3, Int32ComesBack
<1>5. chars \in Seq(Byte) /\ PoppedChars(chars, n) = a /\ Left(chars, n) = body
  BY <1>1, CharsComeBack
<1> HIDE DEF chars
<1>6. /\ pushed \in Seq(Byte)
      /\ Popped(pushed, 4) = Int32(n) /\ Left(pushed, 4) = chars
  BY <1>4, <1>5, PushedIsPopped
<1> HIDE DEF pushed
<1>7. PopText(pushed) = [str |-> UpToNul(a), left |-> body]
  BY <1>4, <1>5, <1>6 DEF PopText
<1> QED BY <1>1, <1>2, <1>6, <1>7
=============================================================================
