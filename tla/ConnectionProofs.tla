------------------------- MODULE ConnectionProofs --------------------------
(***************************************************************************)
(* What the two ends of a connection make of what they send each other,    *)
(* for any messages and any number of them.                                *)
(***************************************************************************)
EXTENDS Connection, SequenceTheorems, TLAPS

-----------------------------------------------------------------------------
(* The ends, and sequences.                                                *)

LEMMA EndsFacts ==
  /\ "client" \in Ends /\ "server" \in Ends /\ "client" # "server"
  /\ \A e \in Ends : /\ e = "client" \/ e = "server"
                     /\ Peer(e) \in Ends /\ Peer(Peer(e)) = e /\ Peer(e) # e
  /\ Peer("client") = "server" /\ Peer("server") = "client"
BY DEF Ends, Peer

LEMMA UnitFacts ==
  /\ \A m \in Messages : /\ Unit("header", m) \in Units
                         /\ Unit("body", m) \in Units
  /\ Puzzle \in Units
  /\ \A u \in Units : Scramble(u) \in Units
  /\ \A u \in Units : u.msg \in Messages \cup {NoMsg}
BY DEF Unit, Units, Puzzle, Scramble

\* A message has a body or not.
LEMMA MessageFacts ==
  /\ \A m \in Messages : m \in Bare <=> m \notin Bodied
  /\ Bare \subseteq Messages /\ Bodied \subseteq Messages
  /\ ServerAccept \in Messages /\ NoMsg \notin Messages
BY ConnectionAssumption DEF Messages

\* The header that starts the front message of a queue.
LEMMA HeaderOfFacts ==
  ASSUME NEW q \in Seq(Messages)
  PROVE  /\ HeaderOf(q) \in Seq(Units)
         /\ q = <<>> => HeaderOf(q) = <<>>
         /\ q # <<>> => /\ Head(q) \in Messages
                        /\ HeaderOf(q) = <<Unit("header", Head(q))>>
                        /\ Len(HeaderOf(q)) = 1
                        /\ HeaderOf(q)[1] = Unit("header", Head(q))
<1>1. CASE q = <<>>
  BY <1>1, EmptySeq DEF HeaderOf
<1>2. CASE q # <<>>
  <2>1. Head(q) \in Messages
    BY <1>2, HeadTailProperties
  <2>2. Unit("header", Head(q)) \in Units
    BY <2>1, UnitFacts
  <2>3. \A u \in Units : <<u>> \in Seq(Units) /\ Len(<<u>>) = 1 /\ <<u>>[1] = u
    OBVIOUS
  <2>4. HeaderOf(q) = <<Unit("header", Head(q))>>
    BY <1>2 DEF HeaderOf
  <2> QED BY <1>2, <2>1, <2>2, <2>3, <2>4, Zenon
<1> QED BY <1>1, <1>2

-----------------------------------------------------------------------------
(* What is being written.                                                  *)

\* The unit of the handshake that an end writes.
Handshake(e) == IF e = "client" THEN "answer" ELSE "puzzle"

\* A part of a message.
IsPart(u) == u.kind \in {"header", "body"}

\* The writes w of an end whose unit of the handshake is h and whose messages are
\* q: the unit of the handshake, once, or a part of the front message; if there
\* are messages, a part of one is being written.
Orderly(w, h, q) ==
  /\ \A i \in DOMAIN w :
       IF IsPart(w[i])
       THEN /\ q # <<>> /\ w[i].msg = Head(q)
            /\ w[i].kind = "body" => Head(q) \in Bodied
       ELSE w[i].kind = h
  /\ \A i, j \in DOMAIN w : (IsPart(w[i]) <=> IsPart(w[j])) => i = j
  /\ q # <<>> => \E i \in DOMAIN w : IsPart(w[i])

Writes == \A e \in Ends : open[e] => Orderly(writing[e], Handshake(e), out[e])

\* A unit of this kind is among the writes.
Has(w, kind) == \E i \in DOMAIN w : w[i].kind = kind

\* While a body is read the message it belongs to is in m_msgTemporaryIn.
HoldsBodied == \A e \in Ends : reading[e] = "body" => temporary[e] \in Bodied

\* The write at the front.
LEMMA FrontWrite ==
  ASSUME NEW w \in Seq(Units), NEW h, NEW q, Orderly(w, h, q), w # <<>>
  PROVE  /\ 1 \in DOMAIN w /\ Head(w) = w[1] /\ Head(w) \in Units
         /\ IsPart(Head(w)) =>
              /\ q # <<>> /\ Head(w).msg = Head(q)
              /\ Head(w).kind = "body" => Head(q) \in Bodied
         /\ ~IsPart(Head(w)) => Head(w).kind = h
<1>1. 1 \in DOMAIN w /\ Head(w) = w[1] /\ Head(w) \in Units
  BY LenProperties, EmptySeq, HeadTailProperties
<1> QED BY <1>1 DEF Orderly

\* Writes that are started take their turn at the end, those that are over leave
\* from the front.
LEMMA AppendWrite ==
  ASSUME NEW w \in Seq(Units), NEW u \in Units
  PROVE  /\ DOMAIN w = 1..Len(w) /\ Len(w) \in Nat
         /\ DOMAIN Append(w, u) = 1..(Len(w)+1)
         /\ Append(w, u)[Len(w)+1] = u
         /\ \A i \in DOMAIN w : Append(w, u)[i] = w[i]
BY LenProperties, AppendProperties

LEMMA TailWrite ==
  ASSUME NEW w \in Seq(Units), w # <<>>
  PROVE  /\ DOMAIN w = 1..Len(w) /\ Len(w) \in Nat \ {0}
         /\ Tail(w) \in Seq(Units) /\ DOMAIN Tail(w) = 1..(Len(w)-1)
         /\ \A i \in DOMAIN Tail(w) : i+1 \in DOMAIN w /\ Tail(w)[i] = w[i+1]
BY LenProperties, EmptySeq, HeadTailProperties

LEMMA HasAppend ==
  ASSUME NEW w \in Seq(Units), NEW u \in Units, NEW kind
  PROVE  Has(Append(w, u), kind) <=> Has(w, kind) \/ u.kind = kind
<1> DEFINE t == Append(w, u)
<1>1. /\ DOMAIN w = 1..Len(w) /\ Len(w) \in Nat /\ DOMAIN t = 1..(Len(w)+1)
      /\ t[Len(w)+1] = u /\ \A i \in DOMAIN w : t[i] = w[i]
  BY AppendWrite
<1> HIDE DEF t
<1>2. DOMAIN t = DOMAIN w \cup {Len(w)+1}
  BY <1>1
<1>3. Has(t, kind) <=> Has(w, kind) \/ u.kind = kind
  BY <1>1, <1>2 DEF Has
<1> QED BY <1>3 DEF t

\* A header after the writes is the unit appended, if there is a message.
LEMMA HeaderAppended ==
  ASSUME NEW w \in Seq(Units), NEW q \in Seq(Messages)
  PROVE  w \o HeaderOf(q) = IF q = <<>> THEN w ELSE Append(w, Unit("header", Head(q)))
<1>1. CASE q = <<>>
  BY <1>1, ConcatEmptySeq DEF HeaderOf
<1>2. CASE q # <<>>
  <2>1. Head(q) \in Messages
    BY <1>2, HeadTailProperties
  <2>2. Unit("header", Head(q)) \in Units
    BY <2>1, UnitFacts
  <2>3. \A u \in Units : w \o <<u>> = Append(w, u)
    BY AppendIsConcat
  <2>4. HeaderOf(q) = <<Unit("header", Head(q))>>
    BY <1>2 DEF HeaderOf
  <2> QED BY <1>2, <2>2, <2>3, <2>4
<1> QED BY <1>1, <1>2

\* The first message of a queue starts being written.
LEMMA OrderlyFirst ==
  ASSUME NEW w \in Seq(Units), NEW h, Orderly(w, h, <<>>),
         NEW q \in Seq(Messages), q # <<>>
  PROVE  Orderly(Append(w, Unit("header", Head(q))), h, q)
<1> DEFINE u == Unit("header", Head(q))
           t == Append(w, u)
<1>1. Head(q) \in Messages
  BY HeadTailProperties
<1>2. u \in Units /\ IsPart(u) /\ u.msg = Head(q) /\ u.kind = "header"
  BY <1>1, UnitFacts DEF IsPart, Unit
<1> HIDE DEF u
<1>3. /\ DOMAIN w = 1..Len(w) /\ Len(w) \in Nat /\ DOMAIN t = 1..(Len(w)+1)
      /\ t[Len(w)+1] = u /\ \A i \in DOMAIN w : t[i] = w[i]
  BY <1>2, AppendWrite
<1> HIDE DEF t
<1>4. DOMAIN t = DOMAIN w \cup {Len(w)+1} /\ Len(w)+1 \notin DOMAIN w
  BY <1>3
<1>5. \A i \in DOMAIN w : ~IsPart(w[i]) /\ w[i].kind = h
  BY DEF Orderly
<1>6. \A i, j \in DOMAIN w : i = j
  BY <1>5 DEF Orderly
<1>7. Orderly(t, h, q)
  BY <1>2, <1>3, <1>4, <1>5, <1>6 DEF Orderly
<1> QED BY <1>7 DEF t, u

\* Another message queues up.
LEMMA OrderlyNext ==
  ASSUME NEW w, NEW h, NEW q \in Seq(Messages), NEW m \in Messages,
         Orderly(w, h, q), q # <<>>
  PROVE  Orderly(w, h, Append(q, m))
<1>1. Append(q, m) # <<>> /\ Head(Append(q, m)) = Head(q)
  <2>1. Append(q, m) \in Seq(Messages) /\ Append(q, m) # <<>> /\ 1 \in 1..Len(q)
        /\ Append(q, m)[1] = q[1]
    BY AppendProperties, LenProperties, EmptySeq
  <2>2. \A s \in Seq(Messages) : s # <<>> => Head(s) = s[1]
    OBVIOUS
  <2> QED BY <2>1, <2>2
<1> DEFINE r == Append(q, m)
<1> HIDE DEF r
<1>2. r # <<>> /\ Head(r) = Head(q)
  BY <1>1 DEF r
<1>3. Orderly(w, h, r)
  BY <1>2 DEF Orderly
<1> QED BY <1>3 DEF r

\* The unit of the handshake starts being written.
LEMMA OrderlyHandshake ==
  ASSUME NEW w \in Seq(Units), NEW q, NEW u \in Units,
         Orderly(w, u.kind, q), ~IsPart(u), ~Has(w, u.kind)
  PROVE  Orderly(Append(w, u), u.kind, q)
<1> DEFINE t == Append(w, u)
<1>1. /\ DOMAIN w = 1..Len(w) /\ Len(w) \in Nat /\ DOMAIN t = 1..(Len(w)+1)
      /\ t[Len(w)+1] = u /\ \A i \in DOMAIN w : t[i] = w[i]
  BY AppendWrite
<1> HIDE DEF t
<1>2. DOMAIN t = DOMAIN w \cup {Len(w)+1}
  BY <1>1
<1>3. \A i \in DOMAIN w : IsPart(w[i])
  BY DEF Orderly, Has
<1>4. Orderly(t, u.kind, q)
  BY <1>1, <1>2, <1>3 DEF Orderly
<1> QED BY <1>4 DEF t

\* The unit of the handshake is out.
LEMMA OrderlyStarted ==
  ASSUME NEW w \in Seq(Units), NEW h, NEW q, Orderly(w, h, q), w # <<>>,
         ~IsPart(Head(w))
  PROVE  /\ Orderly(Tail(w), h, q) /\ ~Has(Tail(w), h)
         /\ Has(w, "body") <=> Has(Tail(w), "body")
<1> DEFINE t == Tail(w)
<1>1. /\ DOMAIN w = 1..Len(w) /\ Len(w) \in Nat \ {0} /\ DOMAIN t = 1..(Len(w)-1)
      /\ \A i \in DOMAIN t : i+1 \in DOMAIN w /\ t[i] = w[i+1]
  BY TailWrite
<1>2. 1 \in DOMAIN w /\ ~IsPart(w[1]) /\ w[1].kind = h
  BY FrontWrite
<1> HIDE DEF t
<1>3. \A j \in DOMAIN w : j = 1 \/ (j-1 \in DOMAIN t /\ w[j] = t[j-1])
  BY <1>1
<1>4. \A i \in DOMAIN t : IsPart(t[i])
  BY <1>1, <1>2 DEF Orderly
<1>5. Orderly(t, h, q)
  BY <1>1, <1>2, <1>3, <1>4 DEF Orderly
<1>6. ~Has(t, h)
  BY <1>2, <1>4 DEF Has, IsPart
<1>7. Has(w, "body") <=> Has(t, "body")
  BY <1>1, <1>2, <1>3 DEF Has, IsPart
<1> QED BY <1>5, <1>6, <1>7 DEF t

\* A part of the front message is out: no other part is being written.
LEMMA OrderlyPart ==
  ASSUME NEW w \in Seq(Units), NEW h, NEW q, Orderly(w, h, q), w # <<>>,
         IsPart(Head(w)), h \notin {"header", "body"}
  PROVE  /\ Orderly(Tail(w), h, <<>>)
         /\ Has(Tail(w), h) <=> Has(w, h)
         /\ ~Has(Tail(w), "body")
         /\ Has(w, "body") <=> Head(w).kind = "body"
<1> DEFINE t == Tail(w)
<1>1. /\ DOMAIN w = 1..Len(w) /\ Len(w) \in Nat \ {0} /\ DOMAIN t = 1..(Len(w)-1)
      /\ \A i \in DOMAIN t : i+1 \in DOMAIN w /\ t[i] = w[i+1]
  BY TailWrite
<1>2. 1 \in DOMAIN w /\ IsPart(w[1]) /\ w[1] = Head(w)
  BY FrontWrite
<1> HIDE DEF t
<1>3. \A j \in DOMAIN w : j = 1 \/ (j-1 \in DOMAIN t /\ w[j] = t[j-1])
  BY <1>1
<1>4. \A i \in DOMAIN t : ~IsPart(t[i])
  BY <1>1, <1>2 DEF Orderly
<1>5. Orderly(t, h, <<>>)
  BY <1>1, <1>4 DEF Orderly
<1>6. Has(t, h) <=> Has(w, h)
  BY <1>1, <1>2, <1>3 DEF Has, IsPart
<1>7. ~Has(t, "body")
  BY <1>4 DEF Has, IsPart
<1>8. Has(w, "body") <=> Head(w).kind = "body"
  BY <1>1, <1>2, <1>3, <1>4 DEF Has, IsPart
<1> QED BY <1>5, <1>6, <1>7, <1>8 DEF t

\* The body follows the header of the front message.
LEMMA OrderlyBody ==
  ASSUME NEW w \in Seq(Units), NEW h, NEW q \in Seq(Messages), q # <<>>,
         Orderly(w, h, <<>>), Head(q) \in Bodied
  PROVE  Orderly(Append(w, Unit("body", Head(q))), h, q)
<1> DEFINE u == Unit("body", Head(q))
           t == Append(w, u)
<1>1. Head(q) \in Messages
  BY HeadTailProperties
<1>2. u \in Units /\ IsPart(u) /\ u.msg = Head(q) /\ u.kind = "body"
  BY <1>1, UnitFacts DEF IsPart, Unit
<1> HIDE DEF u
<1>3. /\ DOMAIN w = 1..Len(w) /\ Len(w) \in Nat /\ DOMAIN t = 1..(Len(w)+1)
      /\ t[Len(w)+1] = u /\ \A i \in DOMAIN w : t[i] = w[i]
  BY <1>2, AppendWrite
<1> HIDE DEF t
<1>4. DOMAIN t = DOMAIN w \cup {Len(w)+1} /\ Len(w)+1 \notin DOMAIN w
  BY <1>3
<1>5. \A i \in DOMAIN w : ~IsPart(w[i]) /\ w[i].kind = h
  BY DEF Orderly
<1>6. \A i, j \in DOMAIN w : i = j
  BY <1>5 DEF Orderly
<1>7. Orderly(t, h, q)
  BY <1>2, <1>3, <1>4, <1>5, <1>6 DEF Orderly
<1> QED BY <1>7 DEF t, u

-----------------------------------------------------------------------------
(* Types.                                                                  *)

TypeFlags ==
  /\ tcp \in {"connecting", "up", "refused", "lost"}
  /\ context \in {"running", "returned", "exited"}
  /\ open \in [Ends -> BOOLEAN] /\ started \in [Ends -> BOOLEAN]
  /\ validated \in BOOLEAN

TypeMessages ==
  /\ posts \in [Ends -> Seq(Messages)] /\ out \in [Ends -> Seq(Messages)]
  /\ in \in [Ends -> Seq(Messages)] /\ sent \in [Ends -> Seq(Messages)]

Bodies == Messages \cup {NoMsg}
TypeBodies == body \in [Ends -> Bodies] /\ inBody \in [Ends -> Seq(Bodies)]

TypeUnits == writing \in [Ends -> Seq(Units)] /\ stream \in [Ends -> Seq(Units)]

TypeReading ==
  /\ reading \in [Ends -> {"validation", "header", "body", "none"}]
  /\ temporary \in [Ends -> Messages \cup {NoMsg}]

LEMMA TypeParts ==
  TypeOK <=> TypeFlags /\ TypeMessages /\ TypeBodies /\ TypeUnits /\ TypeReading
BY DEF TypeOK, TypeFlags, TypeMessages, TypeBodies, Bodies, TypeUnits, TypeReading

LEMMA TypeInit == Init => TypeOK
<1> SUFFICES ASSUME Init PROVE TypeOK
  OBVIOUS
<1>1. TypeFlags
  BY DEF Init, TypeFlags
<1>2. <<>> \in Seq(Messages) /\ <<>> \in Seq(Units)
  BY EmptySeq
<1>3. TypeMessages
  BY <1>2 DEF Init, TypeMessages
<1>4. TypeUnits
  BY <1>2 DEF Init, TypeUnits
<1>5. TypeReading
  BY DEF Init, TypeReading
<1>6. TypeBodies
  <2>1. <<>> \in Seq(Bodies)
    BY EmptySeq
  <2> QED BY <2>1 DEF Init, TypeBodies, Bodies
<1> QED BY <1>1, <1>3, <1>4, <1>5, <1>6, TypeParts

LEMMA TypeFlagsNext ==
  ASSUME TypeFlags, [Next]_vars
  PROVE  TypeFlags'
<1> USE DEF TypeFlags, link, inbound, queues, received
<1>1. CASE Establish \/ Refuse \/ Lose \/ Exit
  BY <1>1, EndsFacts DEF Establish, Refuse, Lose, Exit
<1>2. ASSUME NEW e \in Ends, Handler(e) PROVE TypeFlags'
  <2>1. CASE ConnectHandler \/ ContextReturns \/ SolvePuzzle
    BY <2>1, EndsFacts DEF ConnectHandler, ContextReturns, SolvePuzzle
  <2>2. CASE AcceptHandler \/ AcceptThrows \/ AcceptAnswer \/ RejectAnswer
    BY <2>2, EndsFacts DEF AcceptHandler, AcceptThrows, AcceptAnswer, RejectAnswer
  <2>3. CASE RunPosted(e) \/ ValidationWritten(e) \/ HeaderWritten(e) \/ MessageWritten(e)
    BY <2>3 DEF RunPosted, ValidationWritten, HeaderWritten, MessageWritten
  <2>4. CASE HeaderRead(e) \/ BareRead(e) \/ BodyRead(e)
    BY <2>4 DEF HeaderRead, BareRead, BodyRead
  <2>5. CASE WriteFail(e) \/ ReadFail(e)
    BY <2>5 DEF WriteFail, ReadFail
  <2> QED BY <1>2, <2>1, <2>2, <2>3, <2>4, <2>5 DEF Handler
<1>3. ASSUME NEW e \in Ends, NEW m \in Messages, Send(e, m) PROVE TypeFlags'
  BY <1>3 DEF Send
<1>4. CASE UNCHANGED vars
  BY <1>4 DEF vars
<1> QED BY <1>1, <1>2, <1>3, <1>4 DEF Next

LEMMA TypeMessagesNext ==
  ASSUME TypeOK, Writes, HoldsBodied, [Next]_vars
  PROVE  TypeMessages'
<1>0. TypeMessages /\ TypeUnits /\ TypeReading
  BY TypeParts
<1> USE <1>0 DEF TypeMessages, link, inbound, queues, received
<1>a. \A q \in Seq(Messages), m \in Messages : Append(q, m) \in Seq(Messages)
  BY AppendProperties
<1>b. \A q \in Seq(Messages) :
        q # <<>> => Head(q) \in Messages /\ Tail(q) \in Seq(Messages)
  BY HeadTailProperties
<1>1. CASE Establish \/ Refuse \/ Lose \/ Exit
  BY <1>1 DEF Establish, Refuse, Lose, Exit
<1>2. ASSUME NEW e \in Ends, Handler(e) PROVE TypeMessages'
  <2>1. CASE ConnectHandler \/ ContextReturns \/ SolvePuzzle
    BY <2>1 DEF ConnectHandler, ContextReturns, SolvePuzzle
  <2>2. CASE AcceptHandler
    BY <1>a, <2>2, EndsFacts, MessageFacts DEF AcceptHandler, OnClientConnect
  <2>3. CASE AcceptThrows \/ AcceptAnswer \/ RejectAnswer
    BY <2>3 DEF AcceptThrows, AcceptAnswer, RejectAnswer
  <2>4. CASE RunPosted(e)
    BY <1>a, <1>b, <2>4 DEF RunPosted
  <2>5. CASE ValidationWritten(e) \/ HeaderWritten(e) \/ WriteFail(e)
    BY <2>5 DEF ValidationWritten, HeaderWritten, WriteFail
  <2>6. CASE MessageWritten(e)
    <3>1. out[e] # <<>>
      BY <1>0, <2>6, FrontWrite DEF MessageWritten, Written, Writes, IsPart, TypeUnits
    <3>2. Tail(out[e]) \in Seq(Messages)
      BY <1>b, <3>1
    <3> QED BY <2>6, <3>2 DEF MessageWritten
  <2>7. CASE HeaderRead(e) \/ ReadFail(e)
    BY <2>7 DEF HeaderRead, ReadFail
  <2>8. CASE BareRead(e)
    <3>1. Head(stream[e]).msg \in Messages
      BY <2>8, MessageFacts DEF BareRead
    <3> QED BY <1>a, <2>8, <3>1 DEF BareRead, AddToIncomingMessageQueue
  <2>9. CASE BodyRead(e)
    <3>1. temporary[e] \in Messages
      BY <2>9, MessageFacts DEF BodyRead, Got, HoldsBodied
    <3> QED BY <1>a, <2>9, <3>1 DEF BodyRead, AddToIncomingMessageQueue
  <2> QED BY <1>2, <2>1, <2>2, <2>3, <2>4, <2>5, <2>6, <2>7, <2>8, <2>9 DEF Handler
<1>3. ASSUME NEW e \in Ends, NEW m \in Messages, Send(e, m) PROVE TypeMessages'
  BY <1>a, <1>3 DEF Send
<1>4. CASE UNCHANGED vars
  BY <1>4 DEF vars
<1> QED BY <1>1, <1>2, <1>3, <1>4 DEF Next

\* Bodies are messages'; a body that is read is that of the unit read.
LEMMA TypeBodiesNext ==
  ASSUME TypeOK, [Next]_vars
  PROVE  TypeBodies'
<1>0. /\ TypeBodies /\ NoMsg \in Bodies
      /\ \A e \in Ends : stream[e] # <<>> => Head(stream[e]).msg \in Bodies
  <2>1. \A s \in Seq(Units) : s # <<>> => Head(s) \in Units
    BY HeadTailProperties
  <2>2. \A e \in Ends : stream[e] \in Seq(Units)
    BY DEF TypeOK
  <2> QED BY <2>1, <2>2, TypeParts, UnitFacts DEF Bodies
<1>a. \A s \in Seq(Bodies), b \in Bodies : Append(s, b) \in Seq(Bodies)
  BY AppendProperties
<1> USE DEF TypeBodies, link, inbound, queues, received
<1>1. CASE Establish \/ Refuse \/ Lose \/ Exit \/ UNCHANGED vars
  BY <1>0, <1>1 DEF Establish, Refuse, Lose, Exit, vars
<1>2. ASSUME NEW e \in Ends, Handler(e) PROVE TypeBodies'
  <2>1. CASE ConnectHandler \/ ContextReturns \/ SolvePuzzle
    BY <1>0, <2>1 DEF ConnectHandler, ContextReturns, SolvePuzzle
  <2>2. CASE AcceptHandler \/ AcceptThrows \/ AcceptAnswer \/ RejectAnswer
    BY <1>0, <2>2 DEF AcceptHandler, AcceptThrows, AcceptAnswer, RejectAnswer
  <2>3. CASE RunPosted(e) \/ ValidationWritten(e) \/ HeaderWritten(e) \/ MessageWritten(e)
    BY <1>0, <2>3 DEF RunPosted, ValidationWritten, HeaderWritten, MessageWritten
  <2>4. CASE WriteFail(e) \/ ReadFail(e) \/ HeaderRead(e)
    BY <1>0, <2>4 DEF WriteFail, ReadFail, HeaderRead
  <2>5. CASE BareRead(e)
    BY <1>0, <1>a, <2>5 DEF BareRead, AddToIncomingMessageQueue
  <2>6. CASE BodyRead(e)
    BY <1>0, <1>a, <2>6 DEF BodyRead, Got, AddToIncomingMessageQueue
  <2> QED BY <1>2, <2>1, <2>2, <2>3, <2>4, <2>5, <2>6 DEF Handler
<1>3. ASSUME NEW e \in Ends, NEW m \in Messages, Send(e, m) PROVE TypeBodies'
  BY <1>0, <1>3 DEF Send
<1> QED BY <1>1, <1>2, <1>3 DEF Next

LEMMA TypeUnitsNext ==
  ASSUME TypeOK, Writes, [Next]_vars
  PROVE  TypeUnits'
<1>0. TypeMessages /\ TypeUnits /\ TypeReading
  BY TypeParts
<1> USE <1>0 DEF TypeUnits, link, inbound, queues, received
<1>a. \A s \in Seq(Units), u \in Units : Append(s, u) \in Seq(Units)
  BY AppendProperties
<1>b. \A s \in Seq(Units) :
        s # <<>> => Head(s) \in Units /\ Tail(s) \in Seq(Units)
  BY HeadTailProperties
<1>c. \A s \in Seq(Units), q \in Seq(Messages) : s \o HeaderOf(q) \in Seq(Units)
  BY HeaderOfFacts, ConcatProperties
<1>1. CASE Establish \/ Refuse \/ Lose \/ Exit
  BY <1>1 DEF Establish, Refuse, Lose, Exit
<1>2. ASSUME NEW e \in Ends, Handler(e) PROVE TypeUnits'
  <2>1. CASE ConnectHandler \/ ContextReturns \/ AcceptThrows
    BY <2>1 DEF ConnectHandler, ContextReturns, AcceptThrows
  <2>2. CASE SolvePuzzle
    BY <1>a, <1>b, <2>2, EndsFacts, UnitFacts DEF SolvePuzzle, Got
  <2>3. CASE AcceptHandler
    BY <1>a, <2>3, EndsFacts, UnitFacts DEF AcceptHandler, ConnectToClient
  <2>4. CASE AcceptAnswer \/ RejectAnswer
    <3>1. /\ stream' = [stream EXCEPT !["server"] = Tail(@)]
          /\ stream["server"] # <<>> /\ writing' = writing
      BY <2>4 DEF AcceptAnswer, RejectAnswer, Got
    <3> QED BY <1>b, <3>1, EndsFacts
  <2>5. CASE RunPosted(e)
    <3>1. writing[e] \o HeaderOf(posts[e]) \in Seq(Units)
      BY <1>c DEF TypeMessages
    <3> QED BY <2>5, <3>1 DEF RunPosted
  <2>6. CASE ValidationWritten(e)
    BY <1>a, <1>b, <2>6, EndsFacts DEF ValidationWritten, Written
  <2>7. CASE HeaderWritten(e)
    <3>1. Unit("body", Head(out[e])) \in Units
      BY <2>7, UnitFacts, MessageFacts DEF HeaderWritten
    <3> QED BY <1>a, <1>b, <2>7, <3>1, EndsFacts DEF HeaderWritten, Written
  <2>8. CASE MessageWritten(e)
    <3>1. writing[e] # <<>> /\ out[e] # <<>>
      BY <2>8, FrontWrite DEF MessageWritten, Written, Writes, IsPart
    <3>2. Tail(out[e]) \in Seq(Messages) /\ Tail(writing[e]) \in Seq(Units)
      BY <3>1, HeadTailProperties DEF TypeMessages
    <3>3. Tail(writing[e]) \o HeaderOf(Tail(out[e])) \in Seq(Units)
      BY <1>c, <3>2
    <3> QED BY <1>a, <1>b, <2>8, <3>3, EndsFacts DEF MessageWritten, Written
  <2>9. CASE HeaderRead(e) \/ BareRead(e) \/ BodyRead(e)
    <3>1. /\ stream' = [stream EXCEPT ![e] = Tail(@)]
          /\ stream[e] # <<>> /\ writing' = writing
      BY <2>9 DEF HeaderRead, BareRead, BodyRead, Got
    <3> QED BY <1>b, <3>1
  <2>10. CASE WriteFail(e)
    <3>1. /\ writing' = [writing EXCEPT ![e] = Tail(@)]
          /\ writing[e] # <<>> /\ stream' = stream
      BY <2>10 DEF WriteFail
    <3> QED BY <1>b, <3>1
  <2>11. CASE ReadFail(e)
    BY <2>11 DEF ReadFail
  <2> QED BY <1>2, <2>1, <2>2, <2>3, <2>4, <2>5, <2>6, <2>7, <2>8, <2>9, <2>10, <2>11 DEF Handler
<1>3. ASSUME NEW e \in Ends, NEW m \in Messages, Send(e, m) PROVE TypeUnits'
  BY <1>3 DEF Send
<1>4. CASE UNCHANGED vars
  BY <1>4 DEF vars
<1> QED BY <1>1, <1>2, <1>3, <1>4 DEF Next

LEMMA TypeReadingNext ==
  ASSUME TypeOK, [Next]_vars
  PROVE  TypeReading'
<1>0. TypeReading
  BY TypeParts
<1> USE <1>0 DEF TypeReading, link, inbound, queues, received
<1>1. CASE Establish \/ Refuse \/ Lose \/ Exit
  BY <1>1 DEF Establish, Refuse, Lose, Exit
<1>2. ASSUME NEW e \in Ends, Handler(e) PROVE TypeReading'
  <2>1. CASE ConnectHandler \/ ContextReturns \/ SolvePuzzle
    BY <2>1, EndsFacts DEF ConnectHandler, ContextReturns, SolvePuzzle
  <2>2. CASE AcceptHandler \/ AcceptThrows \/ AcceptAnswer \/ RejectAnswer
    BY <2>2, EndsFacts
    DEF AcceptHandler, ConnectToClient, AcceptThrows, AcceptAnswer, RejectAnswer
  <2>3. CASE RunPosted(e) \/ ValidationWritten(e) \/ HeaderWritten(e) \/ MessageWritten(e)
    BY <2>3 DEF RunPosted, ValidationWritten, HeaderWritten, MessageWritten
  <2>4. CASE HeaderRead(e)
    BY <2>4, MessageFacts DEF HeaderRead
  <2>5. CASE BareRead(e)
    BY <2>5, MessageFacts DEF BareRead, AddToIncomingMessageQueue
  <2>6. CASE BodyRead(e)
    BY <2>6 DEF BodyRead, AddToIncomingMessageQueue
  <2>7. CASE WriteFail(e) \/ ReadFail(e)
    BY <2>7 DEF WriteFail, ReadFail
  <2> QED BY <1>2, <2>1, <2>2, <2>3, <2>4, <2>5, <2>6, <2>7 DEF Handler
<1>3. ASSUME NEW e \in Ends, NEW m \in Messages, Send(e, m) PROVE TypeReading'
  BY <1>3 DEF Send
<1>4. CASE UNCHANGED vars
  BY <1>4 DEF vars
<1> QED BY <1>1, <1>2, <1>3, <1>4 DEF Next

-----------------------------------------------------------------------------
(* Where a reader or a writer is in the messages q: at the handshake, or at *)
(* the header or the body of the n-th message.                             *)

Cursor == {"handshake", "header", "body"} \X Nat
Start == <<"handshake", 0>>

NextCursor(q, c) ==
  IF c[1] = "header" /\ c[2] \in DOMAIN q /\ q[c[2]] \in Bodied
  THEN <<"body", c[2]>>
  ELSE <<"header", c[2] + 1>>

\* Unit u is the one at c, where h is the kind of the unit of the handshake.
Matches(q, h, u, c) ==
  \/ c = Start /\ u.kind = h
  \/ /\ c[1] \in {"header", "body"} /\ c[2] \in DOMAIN q
     /\ u.kind = c[1] /\ u.msg = q[c[2]]

\* The units of s, one after another, are those from one cursor up to another.
Along(q, h, s, c) ==
  \A i \in 1..Len(s) : Matches(q, h, s[i], c[i]) /\ c[i+1] = NextCursor(q, c[i])

Path(q, h, s, from, to) ==
  \E c \in [1..(Len(s)+1) -> Cursor] :
    c[1] = from /\ c[Len(s)+1] = to /\ Along(q, h, s, c)

LEMMA CursorFacts ==
  /\ Start \in Cursor
  /\ \A n \in Nat : <<"header", n>> \in Cursor /\ <<"body", n>> \in Cursor
  /\ \A q \in Seq(Messages), c \in Cursor :
       /\ NextCursor(q, c) \in Cursor /\ NextCursor(q, c) # Start
       /\ NextCursor(q, Start) = <<"header", 1>>
  /\ \A x, y, m, n : <<x, m>> = <<y, n>> => x = y /\ m = n
BY DEF Cursor, Start, NextCursor

LEMMA PathEmpty ==
  ASSUME NEW q \in Seq(Messages), NEW h, NEW from \in Cursor
  PROVE  /\ Path(q, h, <<>>, from, from)
         /\ \A to : Path(q, h, <<>>, from, to) => to = from
<1>1. Len(<<>>) = 0
  BY EmptySeq
<1>2. Path(q, h, <<>>, from, from)
  <2> DEFINE c == [i \in 1..1 |-> from]
  <2>1. c \in [1..1 -> Cursor] /\ c[1] = from
    OBVIOUS
  <2>2. Along(q, h, <<>>, c)
    BY <1>1 DEF Along
  <2> QED BY <1>1, <2>1, <2>2 DEF Path
<1>3. \A to : Path(q, h, <<>>, from, to) => to = from
  BY <1>1 DEF Path
<1> QED BY <1>2, <1>3

\* The path starts with the head of what it goes along.
LEMMA PathHead ==
  ASSUME NEW q \in Seq(Messages), NEW h, NEW s \in Seq(Units), s # <<>>,
         NEW from \in Cursor, NEW to, Path(q, h, s, from, to)
  PROVE  /\ Matches(q, h, Head(s), from)
         /\ Path(q, h, Tail(s), NextCursor(q, from), to)
<1> DEFINE n == Len(s)
           t == Tail(s)
<1>1. PICK c \in [1..(n+1) -> Cursor] :
        c[1] = from /\ c[n+1] = to /\ Along(q, h, s, c)
  BY DEF Path
<1>2. n \in Nat \ {0} /\ Head(s) = s[1] /\ Len(t) = n-1
      /\ \A i \in 1..(n-1) : t[i] = s[i+1]
  <2>1. n \in Nat \ {0}
    BY LenProperties, EmptySeq
  <2> QED BY <2>1, HeadTailProperties
<1> DEFINE d == [i \in 1..n |-> c[i+1]]
<1>3. Matches(q, h, s[1], c[1]) /\ c[2] = NextCursor(q, c[1])
  BY <1>1, <1>2 DEF Along
<1> HIDE DEF n, t
<1>4. d \in [1..(Len(t)+1) -> Cursor]
  BY <1>1, <1>2
<1>5. d[1] = NextCursor(q, from) /\ d[Len(t)+1] = to
  BY <1>1, <1>2, <1>3
<1>6. Along(q, h, t, d)
  <2> SUFFICES ASSUME NEW i \in 1..(n-1)
               PROVE  Matches(q, h, t[i], d[i]) /\ d[i+1] = NextCursor(q, d[i])
    BY <1>2 DEF Along
  <2>1. i+1 \in 1..n /\ i \in 1..n /\ d[i] = c[i+1] /\ d[i+1] = c[(i+1)+1]
    BY <1>2
  <2>2. Matches(q, h, s[i+1], c[i+1]) /\ c[(i+1)+1] = NextCursor(q, c[i+1])
    BY <1>1, <2>1 DEF Along, n
  <2> HIDE DEF d
  <2> QED BY <1>2, <2>1, <2>2
<1>7. Path(q, h, t, NextCursor(q, from), to)
  <2> HIDE DEF d
  <2> QED BY <1>4, <1>5, <1>6 DEF Path
<1> QED BY <1>1, <1>2, <1>3, <1>7 DEF t

\* A unit that matches where the path ends lengthens it.
LEMMA PathAppend ==
  ASSUME NEW q \in Seq(Messages), NEW h, NEW s \in Seq(Units), NEW u \in Units,
         NEW from \in Cursor, NEW to \in Cursor, Path(q, h, s, from, to),
         Matches(q, h, u, to)
  PROVE  Path(q, h, Append(s, u), from, NextCursor(q, to))
<1> DEFINE n == Len(s)
           t == Append(s, u)
           last == NextCursor(q, to)
<1>1. PICK c \in [1..(n+1) -> Cursor] :
        c[1] = from /\ c[n+1] = to /\ Along(q, h, s, c)
  BY DEF Path
<1>2. n \in Nat /\ Len(t) = n+1 /\ t[n+1] = u /\ \A i \in 1..n : t[i] = s[i]
  BY LenProperties, AppendProperties
<1> DEFINE d == [i \in 1..(n+2) |-> IF i = n+2 THEN last ELSE c[i]]
<1>3. last \in Cursor
  BY CursorFacts
<1>a. \A i \in 1..n : Matches(q, h, s[i], c[i]) /\ c[i+1] = NextCursor(q, c[i])
  BY <1>1 DEF Along
<1> HIDE DEF n, t, last
<1>4. d \in [1..(n+2) -> Cursor]
  BY <1>1, <1>2, <1>3
<1>5. d[1] = from /\ d[n+2] = last /\ \A i \in 1..(n+1) : d[i] = c[i]
  BY <1>1, <1>2
<1> HIDE DEF d
<1>6. Along(q, h, t, d)
  <2> SUFFICES ASSUME NEW i \in 1..(n+1)
               PROVE  Matches(q, h, t[i], d[i]) /\ d[i+1] = NextCursor(q, d[i])
    BY <1>2 DEF Along
  <2>1. CASE i = n+1
    <3>1. t[i] = u /\ d[i] = to /\ d[i+1] = last
      BY <1>1, <1>2, <1>5, <2>1
    <3> QED BY <3>1 DEF last
  <2>2. CASE i # n+1
    <3>1. i \in 1..n /\ d[i] = c[i] /\ d[i+1] = c[i+1] /\ t[i] = s[i]
      BY <1>2, <1>5, <2>2
    <3> QED BY <1>a, <3>1
  <2> QED BY <2>1, <2>2
<1>7. Len(t)+1 = n+2
  BY <1>2
<1>8. Path(q, h, t, from, last)
  BY <1>4, <1>5, <1>6, <1>7 DEF Path
<1> QED BY <1>8 DEF t, last

\* Later messages change nothing of a path.
LEMMA PathMonotone ==
  ASSUME NEW q \in Seq(Messages), NEW h, NEW s \in Seq(Units), NEW m \in Messages,
         NEW from, NEW to, Path(q, h, s, from, to)
  PROVE  Path(Append(q, m), h, s, from, to)
<1> DEFINE n == Len(s)
           r == Append(q, m)
<1>1. PICK c \in [1..(n+1) -> Cursor] :
        c[1] = from /\ c[n+1] = to /\ Along(q, h, s, c)
  BY DEF Path
<1>2. /\ DOMAIN q = 1..Len(q) /\ DOMAIN r = 1..(Len(q)+1) /\ Len(q) \in Nat
      /\ \A i \in 1..Len(q) : r[i] = q[i]
  BY LenProperties, AppendProperties
<1>3. \A k \in DOMAIN q : k \in DOMAIN r /\ r[k] = q[k]
  BY <1>2
<1> HIDE DEF r
<1>4. ASSUME NEW d \in Cursor, NEW u, Matches(q, h, u, d)
      PROVE  Matches(r, h, u, d) /\ NextCursor(r, d) = NextCursor(q, d)
  <2>1. CASE d = Start /\ u.kind = h
    BY <2>1 DEF Matches, NextCursor, Start
  <2>2. CASE d[2] \in DOMAIN q /\ d[1] \in {"header", "body"} /\ u.kind = d[1] /\ u.msg = q[d[2]]
    BY <1>3, <2>2 DEF Matches, NextCursor
  <2> QED BY <1>4, <2>1, <2>2 DEF Matches
<1>5. Along(r, h, s, c)
  <2> SUFFICES ASSUME NEW i \in 1..Len(s)
               PROVE  Matches(r, h, s[i], c[i]) /\ c[i+1] = NextCursor(r, c[i])
    BY DEF Along
  <2>1. c[i] \in Cursor
    BY <1>1, LenProperties
  <2> QED BY <1>1, <1>4, <2>1 DEF Along
<1> QED BY <1>1, <1>5 DEF Path, r

\* A path that ends at the handshake has not begun.
LEMMA PathToStart ==
  ASSUME NEW q \in Seq(Messages), NEW h, NEW s \in Seq(Units),
         NEW from \in Cursor, Path(q, h, s, from, Start)
  PROVE  s = <<>> /\ from = Start
<1> DEFINE n == Len(s)
<1>1. PICK c \in [1..(n+1) -> Cursor] :
        c[1] = from /\ c[n+1] = Start /\ Along(q, h, s, c)
  BY DEF Path
<1>2. n \in Nat
  BY LenProperties
<1>3. s = <<>>
  <2> SUFFICES ASSUME s # <<>> PROVE FALSE
    OBVIOUS
  <2>1. n \in 1..n
    BY <1>2, EmptySeq
  <2>2. c[n] \in Cursor /\ c[n+1] = NextCursor(q, c[n])
    BY <1>1, <1>2, <2>1 DEF Along
  <2> QED BY <1>1, <2>2, CursorFacts
<1> QED BY <1>3, PathEmpty

-----------------------------------------------------------------------------
(* What became of the messages q passed to Send: the first are written, the *)
(* next are in m_qMessagesOut (o), the last are posted (p).                 *)

Done(q, o, p) == Len(q) - Len(o) - Len(p)

Queued(q, o, p) ==
  /\ Done(q, o, p) \in Nat
  /\ \A i \in 1..Len(o) : o[i] = q[Done(q, o, p) + i]
  /\ \A i \in 1..Len(p) : p[i] = q[Done(q, o, p) + Len(o) + i]

LEMMA QueuedSend ==
  ASSUME NEW q \in Seq(Messages), NEW o \in Seq(Messages), NEW p \in Seq(Messages),
         NEW m \in Messages, Queued(q, o, p)
  PROVE  /\ Queued(Append(q, m), o, Append(p, m))
         /\ Done(Append(q, m), o, Append(p, m)) = Done(q, o, p)
<1> DEFINE q2 == Append(q, m)
           p2 == Append(p, m)
<1>1. /\ Len(q) \in Nat /\ Len(p) \in Nat /\ Len(o) \in Nat
      /\ Len(q2) = Len(q)+1 /\ Len(p2) = Len(p)+1
      /\ q2[Len(q)+1] = m /\ p2[Len(p)+1] = m
      /\ \A i \in 1..Len(q) : q2[i] = q[i]
      /\ \A i \in 1..Len(p) : p2[i] = p[i]
  BY LenProperties, AppendProperties
<1>9. Len(q) \in Nat /\ Len(p) \in Nat /\ Len(o) \in Nat
  BY <1>1
<1> HIDE DEF q2, p2
<1>2. Done(q2, o, p2) = Done(q, o, p)
  BY <1>1 DEF Done
<1> DEFINE n == Done(q, o, p)
<1>3. n \in Nat /\ n + Len(o) + Len(p) = Len(q)
  BY <1>1 DEF Done, Queued
<1>4. \A i \in 1..Len(o) : o[i] = q[n + i]
  BY DEF Queued
<1>5. \A i \in 1..Len(p) : p[i] = q[n + Len(o) + i]
  BY DEF Queued
<1> HIDE DEF n
<1>6. \A i \in 1..Len(o) : o[i] = q2[n + i]
  BY <1>1, <1>3, <1>4
<1>7. ASSUME NEW i \in 1..Len(p2) PROVE p2[i] = q2[n + Len(o) + i]
  <2>1. CASE i = Len(p)+1
    <3>1. n + Len(o) + i = Len(q)+1
      BY <1>3, <1>9, <2>1
    <3> QED BY <1>1, <2>1, <3>1
  <2>2. CASE i # Len(p)+1
    <3>1. i \in 1..Len(p) /\ n + Len(o) + i \in 1..Len(q)
      BY <1>1, <1>3, <2>2
    <3> QED BY <1>1, <1>5, <3>1
  <2> QED BY <2>1, <2>2
<1>8. Queued(q2, o, p2)
  BY <1>2, <1>3, <1>6, <1>7 DEF Queued, n
<1> QED BY <1>2, <1>8 DEF q2, p2

LEMMA QueuedPost ==
  ASSUME NEW q \in Seq(Messages), NEW o \in Seq(Messages), NEW p \in Seq(Messages),
         p # <<>>, Queued(q, o, p)
  PROVE  /\ Queued(q, Append(o, Head(p)), Tail(p))
         /\ Done(q, Append(o, Head(p)), Tail(p)) = Done(q, o, p)
<1> DEFINE m == Head(p)
           o2 == Append(o, m)
           p2 == Tail(p)
<1>0. m \in Messages /\ m = p[1]
  BY HeadTailProperties
<1>1. /\ Len(q) \in Nat /\ Len(p) \in Nat \ {0} /\ Len(o) \in Nat
      /\ Len(o2) = Len(o)+1 /\ Len(p2) = Len(p)-1
      /\ o2[Len(o)+1] = p[1]
      /\ \A i \in 1..Len(o) : o2[i] = o[i]
      /\ \A i \in 1..Len(p2) : p2[i] = p[i+1]
  BY <1>0, LenProperties, EmptySeq, AppendProperties, HeadTailProperties
<1> HIDE DEF m, o2, p2
<1>9. Len(p) \in Nat \ {0} /\ Len(o) \in Nat /\ Len(o2) = Len(o)+1 /\ Len(p2) = Len(p)-1
  BY <1>1
<1>2. Done(q, o2, p2) = Done(q, o, p)
  BY <1>1 DEF Done
<1> DEFINE n == Done(q, o, p)
<1>3. n \in Nat /\ n + Len(o) + Len(p) = Len(q)
  BY <1>1 DEF Done, Queued
<1>4. \A i \in 1..Len(o) : o[i] = q[n + i]
  BY DEF Queued
<1>5. \A i \in 1..Len(p) : p[i] = q[n + Len(o) + i]
  BY DEF Queued
<1> HIDE DEF n
<1>6. ASSUME NEW i \in 1..Len(o2) PROVE o2[i] = q[n + i]
  <2>1. CASE i = Len(o)+1
    <3>1. n + Len(o) + 1 = n + i /\ 1 \in 1..Len(p)
      BY <1>3, <1>9, <2>1
    <3> QED BY <1>1, <1>5, <2>1, <3>1
  <2>2. CASE i # Len(o)+1
    <3>1. i \in 1..Len(o)
      BY <1>9, <2>2
    <3> QED BY <1>1, <1>4, <3>1
  <2> QED BY <2>1, <2>2
<1>7. ASSUME NEW i \in 1..Len(p2) PROVE p2[i] = q[n + Len(o2) + i]
  <2>1. i+1 \in 1..Len(p) /\ n + Len(o) + (i+1) = n + Len(o2) + i
    BY <1>3, <1>9
  <2> QED BY <1>1, <1>5, <2>1
<1>8. Queued(q, o2, p2)
  BY <1>2, <1>3, <1>6, <1>7 DEF Queued, n
<1> QED BY <1>2, <1>8 DEF o2, p2, m

LEMMA QueuedWrite ==
  ASSUME NEW q \in Seq(Messages), NEW o \in Seq(Messages), NEW p \in Seq(Messages),
         o # <<>>, Queued(q, o, p)
  PROVE  /\ Queued(q, Tail(o), p)
         /\ Done(q, o, p) \in Nat
         /\ Done(q, Tail(o), p) = Done(q, o, p) + 1
         /\ Done(q, o, p) + 1 \in DOMAIN q /\ q[Done(q, o, p) + 1] = Head(o)
<1> DEFINE o2 == Tail(o)
<1>1. /\ Len(q) \in Nat /\ Len(p) \in Nat /\ Len(o) \in Nat \ {0}
      /\ Len(o2) = Len(o)-1 /\ Head(o) = o[1] /\ DOMAIN q = 1..Len(q)
      /\ \A i \in 1..Len(o2) : o2[i] = o[i+1]
  BY LenProperties, EmptySeq, HeadTailProperties
<1> HIDE DEF o2
<1> DEFINE n == Done(q, o, p)
<1>2. n \in Nat /\ n + Len(o) + Len(p) = Len(q)
  BY <1>1 DEF Done, Queued
<1>3. Done(q, o2, p) = n + 1
  BY <1>1 DEF Done
<1>4. \A i \in 1..Len(o) : o[i] = q[n + i]
  BY DEF Queued
<1>5. \A i \in 1..Len(p) : p[i] = q[n + Len(o) + i]
  BY DEF Queued
<1> HIDE DEF n
<1>6. ASSUME NEW i \in 1..Len(o2) PROVE o2[i] = q[(n+1) + i]
  <2>1. i+1 \in 1..Len(o) /\ n + (i+1) = (n+1) + i
    BY <1>1, <1>2
  <2> QED BY <1>1, <1>4, <2>1
<1>7. ASSUME NEW i \in 1..Len(p) PROVE p[i] = q[(n+1) + Len(o2) + i]
  <2>1. (n+1) + Len(o2) + i = n + Len(o) + i
    BY <1>1, <1>2
  <2> QED BY <1>5, <2>1
<1>8. Queued(q, o2, p)
  BY <1>2, <1>3, <1>6, <1>7 DEF Queued
<1>9. n+1 \in DOMAIN q /\ q[n+1] = Head(o)
  BY <1>1, <1>2, <1>4
<1> QED BY <1>2, <1>3, <1>8, <1>9 DEF o2, n

\* What r has received are the first of the messages q.
Arrived(r, q) == Len(r) <= Len(q) /\ \A i \in 1..Len(r) : r[i] = q[i]

LEMMA ArrivedMore ==
  ASSUME NEW r \in Seq(Messages), NEW q \in Seq(Messages), NEW m \in Messages,
         Arrived(r, q)
  PROVE  Arrived(r, Append(q, m))
<1>1. /\ Len(r) \in Nat /\ Len(q) \in Nat /\ Len(Append(q, m)) = Len(q)+1
      /\ \A i \in 1..Len(q) : Append(q, m)[i] = q[i]
  BY LenProperties, AppendProperties
<1> QED BY <1>1 DEF Arrived

LEMMA ArrivedNext ==
  ASSUME NEW r \in Seq(Messages), NEW q \in Seq(Messages), NEW m \in Messages,
         Arrived(r, q), Len(r)+1 \in DOMAIN q, q[Len(r)+1] = m
  PROVE  Arrived(Append(r, m), q)
<1> DEFINE t == Append(r, m)
<1>1. /\ Len(r) \in Nat /\ DOMAIN q = 1..Len(q) /\ Len(t) = Len(r)+1
      /\ t[Len(r)+1] = m /\ \A i \in 1..Len(r) : t[i] = r[i]
  BY LenProperties, AppendProperties
<1> HIDE DEF t
<1>2. Arrived(t, q)
  BY <1>1 DEF Arrived
<1> QED BY <1>2 DEF t

LEMMA ArrivedIsPrefix ==
  ASSUME NEW r \in Seq(Messages), NEW q \in Seq(Messages), Arrived(r, q)
  PROVE  IsPrefix(r, q)
<1> DEFINE n == Len(r)
           t == SubSeq(q, 1, n)
<1>1. n \in Nat /\ Len(q) \in Nat /\ n <= Len(q)
      /\ \A i \in 1..Len(q) : q[i] \in Messages
  BY LenProperties, ElementOfSeq DEF Arrived
<1>2. /\ t \in Seq(Messages) /\ Len(t) = n /\ \A i \in 1..n : t[i] = q[i]
  <2> HIDE DEF n
  <2>1. \A i \in 1..n : q[i] \in Messages
    BY <1>1
  <2>2. /\ t \in Seq(Messages) /\ Len(t) = IF 1 <= n THEN n-1+1 ELSE 0
        /\ \A i \in 1..(n-1+1) : t[i] = q[1+i-1]
    BY <1>1, <2>1, SubSeqProperties
  <2> HIDE DEF t
  <2> QED BY <1>1, <2>2
<1>3. r = t
  <2>1. \A i \in 1..n : r[i] = t[i]
    BY <1>2 DEF Arrived
  <2> HIDE DEF t
  <2> QED BY <1>2, <2>1, SeqEqual
<1> QED BY <1>1, <1>3 DEF IsPrefix

-----------------------------------------------------------------------------
(* The invariant.                                                          *)

\* The unit of the handshake, or a body, is being written; messages written.
HandshakeFlies(e) == Has(writing[e], Handshake(e))
BodyFlies(e) == Has(writing[e], "body")
MessagesWritten(e) == Done(sent[e], out[e], posts[e])

\* An end has written its unit of the handshake.
Greeted(e) ==
  IF e = "client" THEN reading[e] \in {"header", "body"}
  ELSE started[e] /\ ~HandshakeFlies(e)

\* What it writes next.
WriteCursor(e) ==
  IF Greeted(e) THEN <<IF BodyFlies(e) THEN "body" ELSE "header", MessagesWritten(e) + 1>>
  ELSE Start

\* An end has not read the unit of the handshake, or what was in its place.
Awaits(p) ==
  IF p = "client" THEN ~started[p] \/ reading[p] = "validation"
  ELSE reading[p] \in {"none", "validation"}

\* What it reads next.
ReadCursor(p) ==
  IF Awaits(p) THEN Start
  ELSE <<IF reading[p] = "body" THEN "body" ELSE "header", Len(in[p]) + 1>>

\* It reads, or may start to.
Alive(p) == open[p] \/ reading[p] # "none" \/ ~started[p]

\* The server is about to read a message in the place of the answer.
TurnsAway(p) ==
  /\ p = "server" /\ Awaits(p)
  /\ stream[p] # <<>> /\ Head(stream[p]).kind # "answer"

\* From what an end reads next the units on their way to it lead to what its peer
\* writes next, which until its handshake is over has written no message.
Leads(p, to) ==
  /\ Path(sent[Peer(p)], Handshake(Peer(p)), stream[p], ReadCursor(p), to)
  /\ open[p] /\ open[Peer(p)] =>
       /\ to = WriteCursor(Peer(p))
       /\ ~Greeted(Peer(p)) => MessagesWritten(Peer(p)) = 0 /\ ~BodyFlies(Peer(p))

Follows(p) ==
  tcp # "refused" /\ Alive(p) /\ ~TurnsAway(p) => \E to \in Cursor : Leads(p, to)

Streams == \A p \in Ends : Follows(p)

\* A read is started by the handler of connect or accept, or after it.
ReadsStarted == \A e \in Ends : reading[e] # "none" => started[e]

\* A unit of this kind can only be the first of the writes.
OnlyFirst(w, kind) == \A i \in DOMAIN w : w[i].kind = kind => i = 1

\* The server writes nothing before the puzzle.
PuzzleFirst ==
  /\ ~started["server"] =>
       /\ writing["server"] = <<>> /\ out["server"] = <<>>
       /\ posts["server"] = <<>> /\ sent["server"] = <<>>
       /\ reading["server"] = "none"
  /\ OnlyFirst(writing["server"], "puzzle")

\* The client reads nothing while its answer is being written.
AnswerAlone ==
  open["client"] /\ HandshakeFlies("client") =>
    started["client"] /\ reading["client"] = "none"

Queues == \A e \in Ends : Queued(sent[e], out[e], posts[e])

Arrivals == \A p \in Ends : Arrived(in[p], sent[Peer(p)])

\* While a body is read the message in m_msgTemporaryIn is the next one.
HoldsNext ==
  \A p \in Ends : reading[p] = "body" =>
    Len(in[p]) + 1 \in DOMAIN sent[Peer(p)] /\ temporary[p] = sent[Peer(p)][Len(in[p]) + 1]

\* Every message received with a body came with its own, and m_msgTemporaryIn.body
\* holds the body that came last.
BodiesOf(r, bodies, held) ==
  /\ Len(bodies) = Len(r)
  /\ \A i \in 1..Len(r) : r[i] \in Bodied => bodies[i] = r[i]
  /\ held = IF bodies = <<>> THEN NoMsg ELSE bodies[Len(bodies)]

BodiesKept == \A p \in Ends : BodiesOf(in[p], inBody[p], body[p])

\* Nothing has been received by an end that still reads, before the handshake.
NothingYet == \A p \in Ends : Alive(p) /\ Awaits(p) => in[p] = <<>>

Unconnected ==
  tcp \in {"connecting", "refused"} => ~started["server"] /\ \A e \in Ends : stream[e] = <<>>

ReadsValidated ==
  reading["server"] \in {"header", "body"} \/ in["server"] # <<>> => validated

ConnectionInv ==
  /\ TypeOK /\ Writes /\ HoldsBodied
  /\ ReadsStarted /\ PuzzleFirst /\ AnswerAlone /\ Unconnected /\ ReadsValidated
  /\ Queues /\ Arrivals /\ HoldsNext /\ BodiesKept /\ NothingYet
  /\ Streams

LEMMA ConnectionInvInit == Init => ConnectionInv
<1> SUFFICES ASSUME Init PROVE ConnectionInv
  OBVIOUS
<1>1. TypeOK
  BY TypeInit
<1>2. Writes /\ HoldsBodied
  <2>1. DOMAIN <<>> = {}
    BY EmptySeq, LenProperties
  <2> QED BY <2>1 DEF Init, Writes, Orderly, HoldsBodied
<1>3. ReadsStarted /\ Unconnected
  BY EndsFacts DEF Init, ReadsStarted, Unconnected
<1>4. PuzzleFirst
  BY EndsFacts DEF Init, PuzzleFirst, OnlyFirst
<1>5. AnswerAlone /\ ReadsValidated
  BY EndsFacts DEF Init, AnswerAlone, ReadsValidated, HandshakeFlies, Has
<1>6. ASSUME NEW e \in Ends
      PROVE  /\ Queued(sent[e], out[e], posts[e]) /\ Arrived(in[e], sent[Peer(e)])
             /\ MessagesWritten(e) = 0 /\ stream[e] = <<>>
  <2>1. /\ sent[e] = <<>> /\ out[e] = <<>> /\ posts[e] = <<>> /\ in[e] = <<>>
        /\ sent[Peer(e)] = <<>> /\ stream[e] = <<>>
    BY EndsFacts DEF Init
  <2>2. Len(<<>>) = 0
    BY EmptySeq
  <2>4. Done(<<>>, <<>>, <<>>) = 0
    <3>1. \A q \in Seq(Messages) : Len(q) = 0 => Done(q, q, q) = 0
      BY DEF Done
    <3>2. <<>> \in Seq(Messages)
      OBVIOUS
    <3> QED BY <2>2, <3>1, <3>2, Zenon
  <2>3. Queued(<<>>, <<>>, <<>>) /\ Arrived(<<>>, <<>>)
    BY <2>2, <2>4 DEF Queued, Arrived
  <2> QED BY <2>1, <2>3, <2>4 DEF MessagesWritten
<1>7. Queues /\ Arrivals /\ HoldsNext /\ NothingYet
  BY <1>6 DEF Queues, Arrivals, HoldsNext, NothingYet, Init
<1>b. BodiesKept
  <2>1. Len(<<>>) = 0
    BY EmptySeq
  <2>2. BodiesOf(<<>>, <<>>, NoMsg)
    BY <2>1 DEF BodiesOf
  <2> QED BY <2>2 DEF Init, BodiesKept
<1>8. ASSUME NEW p \in Ends PROVE Follows(p)
  <2>1. Peer(p) \in Ends /\ sent[Peer(p)] = <<>> /\ stream[p] = <<>>
    BY EndsFacts DEF Init
  <2>2. ReadCursor(p) = Start
    BY DEF Init, ReadCursor, Awaits
  <2>3. ~Greeted(Peer(p)) /\ ~BodyFlies(Peer(p)) /\ MessagesWritten(Peer(p)) = 0
    BY <1>6, <2>1 DEF Init, Greeted, BodyFlies, Has
  <2>4. Path(<<>>, Handshake(Peer(p)), <<>>, Start, Start)
    <3>1. <<>> \in Seq(Messages)
      OBVIOUS
    <3> QED BY <3>1, PathEmpty, CursorFacts
  <2>5. Leads(p, Start)
    BY <2>1, <2>2, <2>3, <2>4 DEF Leads, WriteCursor
  <2> QED BY <2>5, CursorFacts DEF Follows
<1> QED BY <1>1, <1>2, <1>3, <1>4, <1>5, <1>7, <1>b, <1>8 DEF ConnectionInv, Streams

-----------------------------------------------------------------------------
(* What the invariant says of a handler that runs.                         *)

LEMMA EndTypes ==
  ASSUME TypeOK, NEW e \in Ends
  PROVE  /\ posts[e] \in Seq(Messages) /\ out[e] \in Seq(Messages)
         /\ in[e] \in Seq(Messages) /\ sent[e] \in Seq(Messages)
         /\ writing[e] \in Seq(Units) /\ stream[e] \in Seq(Units)
BY DEF TypeOK

LEMMA Handshakes ==
  \A e \in Ends : /\ Handshake(e) \notin {"header", "body"}
                  /\ Handshake(e) = IF e = "client" THEN "answer" ELSE "puzzle"
BY DEF Handshake

LEMMA CursorTypes ==
  ASSUME TypeOK, Queues, NEW e \in Ends
  PROVE  ReadCursor(e) \in Cursor /\ WriteCursor(e) \in Cursor /\ MessagesWritten(e) \in Nat
<1>1. MessagesWritten(e) \in Nat
  BY DEF Queues, Queued, MessagesWritten
<1>2. Len(in[e]) \in Nat
  BY EndTypes, LenProperties
<1>3. MessagesWritten(e) + 1 \in Nat /\ Len(in[e]) + 1 \in Nat
  BY <1>1, <1>2
<1> QED BY <1>1, <1>3, CursorFacts DEF ReadCursor, WriteCursor

\* A read that is not to be turned away takes the unit the reader expects.
LEMMA TakesExpected ==
  ASSUME ConnectionInv, NEW p \in Ends, reading[p] # "none", stream[p] # <<>>,
         ~TurnsAway(p)
  PROVE  /\ tcp # "refused"
         /\ \E to \in Cursor : Leads(p, to)
         /\ Matches(sent[Peer(p)], Handshake(Peer(p)), Head(stream[p]), ReadCursor(p))
<1>1. tcp # "refused"
  BY DEF ConnectionInv, Unconnected
<1>2. PICK to \in Cursor : Leads(p, to)
  BY <1>1 DEF ConnectionInv, Streams, Follows, Alive
<1>3. /\ sent[Peer(p)] \in Seq(Messages) /\ stream[p] \in Seq(Units)
      /\ ReadCursor(p) \in Cursor
  BY EndsFacts, EndTypes, CursorTypes DEF ConnectionInv
<1>4. Path(sent[Peer(p)], Handshake(Peer(p)), stream[p], ReadCursor(p), to)
  BY <1>2 DEF Leads
<1>5. Matches(sent[Peer(p)], Handshake(Peer(p)), Head(stream[p]), ReadCursor(p))
  BY <1>3, <1>4, PathHead
<1> QED BY <1>1, <1>2, <1>5

\* The header or the body of the next message.
LEMMA TakesMessage ==
  ASSUME ConnectionInv, NEW p \in Ends, reading[p] \in {"header", "body"}, stream[p] # <<>>
  PROVE  /\ ~TurnsAway(p) /\ ~Awaits(p) /\ started[p]
         /\ Head(stream[p]).kind = reading[p]
         /\ Len(in[p]) + 1 \in DOMAIN sent[Peer(p)]
         /\ Head(stream[p]).msg = sent[Peer(p)][Len(in[p]) + 1]
<1>0. started[p]
  BY DEF ConnectionInv, ReadsStarted
<1>1. ~Awaits(p)
  BY <1>0, EndsFacts DEF Awaits
<1>2. ~TurnsAway(p)
  BY <1>1 DEF TurnsAway
<1>3. Matches(sent[Peer(p)], Handshake(Peer(p)), Head(stream[p]), ReadCursor(p))
  BY <1>2, TakesExpected
<1>4. ReadCursor(p) = <<reading[p], Len(in[p]) + 1>>
  BY <1>1 DEF ReadCursor
<1>5. ReadCursor(p) # Start
  BY <1>4, CursorFacts DEF Start
<1>6. ReadCursor(p)[1] = reading[p] /\ ReadCursor(p)[2] = Len(in[p]) + 1
  BY <1>4
<1> QED BY <1>0, <1>1, <1>2, <1>3, <1>5, <1>6 DEF Matches

\* The puzzle.
LEMMA TakesPuzzle ==
  ASSUME ConnectionInv, reading["client"] = "validation", stream["client"] # <<>>
  PROVE  /\ Head(stream["client"]).kind = "puzzle"
         /\ Scramble(Head(stream["client"])) = Unit("answer", NoMsg)
         /\ ReadCursor("client") = Start /\ started["client"]
<1>1. ~TurnsAway("client") /\ Awaits("client")
  BY EndsFacts DEF TurnsAway, Awaits
<1>2. ReadCursor("client") = Start
  BY <1>1 DEF ReadCursor
<1>3. Matches(sent["server"], "puzzle", Head(stream["client"]), Start)
  BY <1>1, <1>2, TakesExpected, EndsFacts DEF Handshake
<1>4. Head(stream["client"]).kind = "puzzle"
  BY <1>3 DEF Matches, Start
<1>5. started["client"]
  BY EndsFacts DEF ConnectionInv, ReadsStarted
<1> QED BY <1>2, <1>4, <1>5 DEF Scramble

\* A write that completes: the unit of the handshake or a part of the front message.
LEMMA WritesFront ==
  ASSUME ConnectionInv, NEW e \in Ends, open[e], writing[e] # <<>>
  PROVE  /\ started["server"] \/ e = "client"
         /\ Orderly(writing[e], Handshake(e), out[e])
         /\ Head(writing[e]) \in Units
         /\ ~IsPart(Head(writing[e])) =>
              Head(writing[e]).kind = Handshake(e) /\ HandshakeFlies(e)
         /\ IsPart(Head(writing[e])) =>
              /\ out[e] # <<>> /\ Head(writing[e]).msg = Head(out[e])
              /\ Head(writing[e]).kind = "body" => Head(out[e]) \in Bodied
<1>1. Orderly(writing[e], Handshake(e), out[e]) /\ writing[e] \in Seq(Units)
  BY EndTypes DEF ConnectionInv, Writes
<1>2. started["server"] \/ e = "client"
  BY EndsFacts DEF ConnectionInv, PuzzleFirst
<1>3. Head(writing[e]).kind = Handshake(e) => HandshakeFlies(e)
  BY <1>1, FrontWrite DEF HandshakeFlies, Has
<1> QED BY <1>1, <1>2, <1>3, FrontWrite

-----------------------------------------------------------------------------
(* Each step keeps each part of the invariant.                             *)

LEMMA ReadsStartedNext ==
  ASSUME ConnectionInv, [Next]_vars
  PROVE  ReadsStarted'
<1>0. /\ ReadsStarted /\ started \in [Ends -> BOOLEAN]
      /\ reading \in [Ends -> {"validation", "header", "body", "none"}]
  BY DEF ConnectionInv, TypeOK
<1> USE DEF link, inbound, queues, received
<1>1. CASE Establish \/ Refuse \/ Lose \/ Exit \/ UNCHANGED vars
  BY <1>0, <1>1 DEF Establish, Refuse, Lose, Exit, vars, ReadsStarted
<1>2. ASSUME NEW e \in Ends, Handler(e) PROVE ReadsStarted'
  <2>1. CASE ConnectHandler
    BY <1>0, <2>1, EndsFacts DEF ConnectHandler, ReadsStarted
  <2>2. CASE AcceptHandler
    BY <1>0, <2>2, EndsFacts DEF AcceptHandler, ConnectToClient, ReadsStarted
  <2>3. CASE ContextReturns \/ SolvePuzzle \/ AcceptThrows \/ AcceptAnswer \/ RejectAnswer
    BY <1>0, <2>3, EndsFacts
    DEF ContextReturns, SolvePuzzle, AcceptThrows, AcceptAnswer, RejectAnswer, Got, ReadsStarted
  <2>4. CASE RunPosted(e) \/ HeaderWritten(e) \/ MessageWritten(e) \/ WriteFail(e)
    BY <1>0, <2>4 DEF RunPosted, HeaderWritten, MessageWritten, WriteFail, ReadsStarted
  <2>5. CASE ValidationWritten(e)
    <3>1. e = "client" => started["client"]
      <4> SUFFICES ASSUME e = "client" PROVE started["client"]
        OBVIOUS
      <4>1. writing[e] # <<>> /\ open[e]
        BY <2>5 DEF ValidationWritten, Written
      <4>2. ~IsPart(Head(writing[e]))
        BY <2>5 DEF ValidationWritten, Written, IsPart
      <4>3. open[e] /\ HandshakeFlies(e)
        BY <4>1, <4>2, WritesFront
      <4> QED BY <4>3 DEF ConnectionInv, AnswerAlone
    <3> QED BY <1>0, <2>5, <3>1 DEF ValidationWritten, ReadsStarted
  <2>6. CASE HeaderRead(e) \/ BareRead(e) \/ BodyRead(e) \/ ReadFail(e)
    BY <1>0, <2>6
    DEF HeaderRead, BareRead, BodyRead, ReadFail, Got, AddToIncomingMessageQueue, ReadsStarted
  <2> QED BY <1>2, <2>1, <2>2, <2>3, <2>4, <2>5, <2>6 DEF Handler
<1>3. ASSUME NEW e \in Ends, NEW m \in Messages, Send(e, m) PROVE ReadsStarted'
  BY <1>0, <1>3 DEF Send, ReadsStarted
<1> QED BY <1>1, <1>2, <1>3 DEF Next

LEMMA UnconnectedNext ==
  ASSUME ConnectionInv, [Next]_vars
  PROVE  Unconnected'
<1>0. Unconnected /\ stream \in [Ends -> Seq(Units)] /\ started \in [Ends -> BOOLEAN]
  BY DEF ConnectionInv, TypeOK
<1> USE DEF link, inbound, queues, received
<1>1. CASE Establish \/ Refuse \/ Lose \/ Exit \/ UNCHANGED vars
  BY <1>0, <1>1 DEF Establish, Refuse, Lose, Exit, vars, Unconnected
<1>2. ASSUME NEW e \in Ends, Handler(e) PROVE Unconnected'
  <2>1. CASE ConnectHandler
    BY <1>0, <2>1, EndsFacts DEF ConnectHandler, Unconnected
  <2>2. CASE AcceptHandler
    BY <1>0, <2>2, EndsFacts DEF AcceptHandler, Unconnected
  <2>3. CASE ContextReturns \/ AcceptThrows
    BY <1>0, <2>3 DEF ContextReturns, AcceptThrows, Unconnected
  <2>4. CASE \E x \in Ends : \E what : Got(x, what) /\ started' = started /\ tcp' = tcp
    BY <1>0, <2>4 DEF Got, Unconnected
  <2>5. CASE RunPosted(e) \/ WriteFail(e) \/ ReadFail(e)
    BY <1>0, <2>5 DEF RunPosted, WriteFail, ReadFail, Unconnected
  <2>6. CASE ValidationWritten(e) \/ HeaderWritten(e) \/ MessageWritten(e)
    BY <2>6 DEF ValidationWritten, HeaderWritten, MessageWritten, Written, Unconnected
  <2>7. CASE SolvePuzzle \/ AcceptAnswer \/ RejectAnswer
    BY <2>4, <2>7, EndsFacts DEF SolvePuzzle, AcceptAnswer, RejectAnswer
  <2>8. CASE HeaderRead(e) \/ BareRead(e) \/ BodyRead(e)
    BY <2>4, <2>8 DEF HeaderRead, BareRead, BodyRead
  <2> QED BY <1>2, <2>1, <2>2, <2>3, <2>5, <2>6, <2>7, <2>8 DEF Handler
<1>3. ASSUME NEW e \in Ends, NEW m \in Messages, Send(e, m) PROVE Unconnected'
  BY <1>0, <1>3 DEF Send, Unconnected
<1> QED BY <1>1, <1>2, <1>3 DEF Next

LEMMA OnlyFirstFacts ==
  ASSUME NEW w \in Seq(Units), NEW kind, OnlyFirst(w, kind)
  PROVE  /\ \A u \in Units : w = <<>> \/ u.kind # kind => OnlyFirst(Append(w, u), kind)
         /\ w # <<>> => OnlyFirst(Tail(w), kind)
<1>1. ASSUME NEW u \in Units, w = <<>> \/ u.kind # kind
      PROVE  OnlyFirst(Append(w, u), kind)
  <2> DEFINE t == Append(w, u)
  <2>1. /\ DOMAIN w = 1..Len(w) /\ Len(w) \in Nat /\ DOMAIN t = 1..(Len(w)+1)
        /\ t[Len(w)+1] = u /\ \A i \in DOMAIN w : t[i] = w[i]
    BY AppendWrite
  <2>2. w = <<>> => Len(w) = 0
    BY EmptySeq
  <2> HIDE DEF t
  <2>3. OnlyFirst(t, kind)
    BY <1>1, <2>1, <2>2 DEF OnlyFirst
  <2> QED BY <2>3 DEF t
<1>2. ASSUME w # <<>> PROVE OnlyFirst(Tail(w), kind)
  <2> DEFINE t == Tail(w)
  <2>1. /\ DOMAIN w = 1..Len(w) /\ Len(w) \in Nat /\ DOMAIN t = 1..(Len(w)-1)
        /\ \A i \in DOMAIN t : i+1 \in DOMAIN w /\ t[i] = w[i+1]
    BY <1>2, TailWrite
  <2> HIDE DEF t
  <2>2. OnlyFirst(t, kind)
    BY <2>1 DEF OnlyFirst
  <2> QED BY <2>2 DEF t
<1> QED BY <1>1, <1>2

LEMMA OnlyFirstHeader ==
  ASSUME NEW w \in Seq(Units), NEW q \in Seq(Messages), OnlyFirst(w, "puzzle")
  PROVE  OnlyFirst(w \o HeaderOf(q), "puzzle")
<1>1. CASE q = <<>>
  BY <1>1, HeaderAppended
<1>2. CASE q # <<>>
  <2>1. Unit("header", Head(q)) \in Units
    BY <1>2, HeadTailProperties, UnitFacts
  <2>2. Unit("header", Head(q)).kind # "puzzle"
    BY DEF Unit
  <2> QED BY <1>2, <2>1, <2>2, HeaderAppended, OnlyFirstFacts
<1> QED BY <1>1, <1>2

LEMMA PuzzleFirstKept ==
  ASSUME PuzzleFirst, started["server"] => started'["server"],
         UNCHANGED <<writing["server"], out["server"], posts["server"], sent["server"]>>,
         ~started["server"] => UNCHANGED reading["server"]
  PROVE  PuzzleFirst'
BY DEF PuzzleFirst

LEMMA PuzzleFirstNext ==
  ASSUME ConnectionInv, [Next]_vars
  PROVE  PuzzleFirst'
<1> DEFINE w == writing["server"]
<1>0. /\ PuzzleFirst /\ open \in [Ends -> BOOLEAN] /\ started \in [Ends -> BOOLEAN]
      /\ reading \in [Ends -> {"validation", "header", "body", "none"}]
      /\ writing \in [Ends -> Seq(Units)] /\ w \in Seq(Units)
      /\ OnlyFirst(w, "puzzle")
  BY EndsFacts DEF ConnectionInv, TypeOK, PuzzleFirst
<1>q. /\ posts \in [Ends -> Seq(Messages)] /\ out \in [Ends -> Seq(Messages)]
      /\ sent \in [Ends -> Seq(Messages)] /\ stream \in [Ends -> Seq(Units)]
  BY DEF ConnectionInv, TypeOK
<1> USE DEF link, inbound, queues, received
<1>s. ASSUME started'["server"], OnlyFirst(writing'["server"], "puzzle") PROVE PuzzleFirst'
  BY <1>s DEF PuzzleFirst
<1>n. ~started["server"] => /\ posts["server"] = <<>> /\ w = <<>>
                            /\ reading["server"] = "none"
  BY <1>0 DEF PuzzleFirst
<1>1. CASE Establish \/ Refuse \/ Lose \/ Exit \/ UNCHANGED vars
  BY <1>0, <1>1, EndsFacts, PuzzleFirstKept DEF Establish, Refuse, Lose, Exit, vars
<1>2. ASSUME NEW e \in Ends, Handler(e) PROVE PuzzleFirst'
  <2>1. CASE ConnectHandler \/ ContextReturns \/ AcceptThrows
    BY <1>0, <2>1, EndsFacts, PuzzleFirstKept
    DEF ConnectHandler, ContextReturns, AcceptThrows
  <2>2. CASE SolvePuzzle
    BY <1>0, <2>2, EndsFacts, PuzzleFirstKept DEF SolvePuzzle
  <2>3. CASE AcceptHandler
    <3>1. writing'["server"] = Append(w, Puzzle) /\ started'["server"]
      BY <1>0, <2>3, EndsFacts DEF AcceptHandler, ConnectToClient
    <3>2. w = <<>>
      BY <1>n, <2>3 DEF AcceptHandler
    <3>3. OnlyFirst(Append(w, Puzzle), "puzzle")
      BY <1>0, <3>2, OnlyFirstFacts, UnitFacts
    <3> QED BY <1>s, <3>1, <3>3
  <2>4. CASE AcceptAnswer \/ RejectAnswer
    <3>1. started["server"]
      BY <1>n, <2>4 DEF AcceptAnswer, RejectAnswer, Got
    <3>2. UNCHANGED <<writing, started>>
      BY <2>4 DEF AcceptAnswer, RejectAnswer
    <3> QED BY <1>s, <1>0, <3>1, <3>2
  <2>5. CASE e = "client" /\ (RunPosted(e) \/ ValidationWritten(e) \/ HeaderWritten(e))
    BY <1>0, <1>q, <2>5, EndsFacts, PuzzleFirstKept
    DEF RunPosted, ValidationWritten, HeaderWritten
  <2>6. CASE e = "client" /\ (MessageWritten(e) \/ WriteFail(e))
    BY <1>0, <1>q, <2>6, EndsFacts, PuzzleFirstKept DEF MessageWritten, WriteFail
  <2>7. CASE e = "client" /\ (HeaderRead(e) \/ BareRead(e) \/ BodyRead(e) \/ ReadFail(e))
    BY <1>0, <1>q, <2>7, EndsFacts, PuzzleFirstKept
    DEF HeaderRead, BareRead, BodyRead, ReadFail, AddToIncomingMessageQueue
  <2>8. CASE e = "server" /\ RunPosted(e)
    <3>1. started["server"] /\ started' = started
      BY <1>n, <2>8 DEF RunPosted
    <3>2. /\ writing'["server"] = IF out["server"] = <<>> THEN w \o HeaderOf(posts["server"]) ELSE w
          /\ posts["server"] \in Seq(Messages)
      BY <1>0, <1>q, <2>8, EndsFacts DEF RunPosted
    <3>3. OnlyFirst(w \o HeaderOf(posts["server"]), "puzzle")
      BY <1>0, <3>2, OnlyFirstHeader
    <3>4. OnlyFirst(writing'["server"], "puzzle")
      BY <1>0, <3>2, <3>3
    <3> QED BY <1>s, <3>1, <3>4
  <2>9. CASE e = "server" /\ (ValidationWritten(e) \/ WriteFail(e))
    <3>1. started["server"] /\ started' = started /\ w # <<>>
      BY <1>n, <2>9 DEF ValidationWritten, WriteFail, Written
    <3>2. writing'["server"] = Tail(w)
      BY <1>0, <2>9, EndsFacts DEF ValidationWritten, WriteFail
    <3>3. OnlyFirst(Tail(w), "puzzle")
      BY <1>0, <3>1, OnlyFirstFacts
    <3> QED BY <1>s, <3>1, <3>2, <3>3
  <2>10. CASE e = "server" /\ HeaderWritten(e)
    <3>1. started["server"] /\ started' = started /\ w # <<>> /\ Head(out[e]) \in Bodied
      BY <1>n, <2>10 DEF HeaderWritten, Written
    <3> DEFINE u == Unit("body", Head(out[e]))
    <3>2. writing'["server"] = Append(Tail(w), u)
      BY <1>0, <2>10, EndsFacts DEF HeaderWritten
    <3>3. u \in Units /\ u.kind # "puzzle"
      BY <3>1, UnitFacts, MessageFacts DEF Unit
    <3>4. Tail(w) \in Seq(Units) /\ OnlyFirst(Tail(w), "puzzle")
      BY <1>0, <3>1, OnlyFirstFacts, TailWrite
    <3>5. OnlyFirst(Append(Tail(w), u), "puzzle")
      <4> HIDE DEF u, w
      <4> QED BY <3>3, <3>4, OnlyFirstFacts
    <3> QED BY <1>s, <3>1, <3>2, <3>5
  <2>11. CASE e = "server" /\ MessageWritten(e)
    <3>1. started["server"] /\ started' = started /\ w # <<>> /\ open[e]
      BY <1>n, <2>11 DEF MessageWritten, Written
    <3>2. writing'["server"] = Tail(w) \o HeaderOf(Tail(out[e]))
      BY <1>0, <2>11, EndsFacts DEF MessageWritten
    <3>3. out[e] # <<>>
      BY <2>11, <3>1, WritesFront DEF MessageWritten, Written, IsPart
    <3>4. Tail(w) \in Seq(Units) /\ OnlyFirst(Tail(w), "puzzle")
      BY <1>0, <3>1, OnlyFirstFacts, TailWrite
    <3>5. Tail(out[e]) \in Seq(Messages)
      BY <1>q, <3>3, HeadTailProperties
    <3>6. OnlyFirst(Tail(w) \o HeaderOf(Tail(out[e])), "puzzle")
      BY <3>4, <3>5, OnlyFirstHeader
    <3> QED BY <1>s, <3>1, <3>2, <3>6
  <2>12. CASE e = "server" /\ (HeaderRead(e) \/ BareRead(e) \/ BodyRead(e) \/ ReadFail(e))
    <3>1. started["server"] /\ UNCHANGED <<started, writing>>
      BY <1>n, <2>12 DEF HeaderRead, BareRead, BodyRead, ReadFail, Got
    <3> QED BY <1>s, <1>0, <3>1
  <2> QED BY <1>2, <2>1, <2>2, <2>3, <2>4, <2>5, <2>6, <2>7, <2>8, <2>9, <2>10,
             <2>11, <2>12, EndsFacts DEF Handler
<1>3. ASSUME NEW e \in Ends, NEW m \in Messages, Send(e, m) PROVE PuzzleFirst'
  <2>1. CASE e = "client"
    BY <1>0, <1>q, <1>3, <2>1, EndsFacts, PuzzleFirstKept DEF Send
  <2>2. CASE e = "server"
    BY <1>0, <1>s, <1>3, <2>2, EndsFacts DEF Send
  <2> QED BY <2>1, <2>2, EndsFacts
<1> QED BY <1>1, <1>2, <1>3 DEF Next

\* Queueing a message and writing one leave the client's answer where it is.
LEMMA AnswerKept ==
  ASSUME ConnectionInv,
         RunPosted("client") \/ HeaderWritten("client") \/ MessageWritten("client")
  PROVE  /\ Has(writing'["client"], "answer") <=> Has(writing["client"], "answer")
         /\ UNCHANGED <<tcp, open, started, reading>>
<1> DEFINE w == writing["client"]
           msgs == out["client"]
           flies == Has(w, "answer")
           flies2 == Has(writing'["client"], "answer")
<1>0. /\ "client" \in Ends /\ writing \in [Ends -> Seq(Units)] /\ w \in Seq(Units)
      /\ posts \in [Ends -> Seq(Messages)] /\ out \in [Ends -> Seq(Messages)]
  BY EndsFacts DEF ConnectionInv, TypeOK
<1> USE DEF link, inbound, queues, received
<1>h. "answer" \notin {"header", "body"}
  OBVIOUS
<1>u. UNCHANGED <<tcp, open, started, reading>>
  BY DEF RunPosted, HeaderWritten, MessageWritten
<1>1. CASE RunPosted("client")
  <2> DEFINE q == posts["client"]
  <2>1. /\ q \in Seq(Messages) /\ q # <<>>
        /\ writing'["client"] = IF msgs = <<>> THEN w \o HeaderOf(q) ELSE w
    BY <1>0, <1>1 DEF RunPosted
  <2> HIDE DEF q
  <2>2. Unit("header", Head(q)) \in Units /\ Unit("header", Head(q)).kind # "answer"
    BY <2>1, HeadTailProperties, UnitFacts DEF Unit
  <2>3. w \o HeaderOf(q) = Append(w, Unit("header", Head(q)))
    BY <1>0, <2>1, HeaderAppended
  <2>4. Has(w \o HeaderOf(q), "answer") <=> flies
    BY <1>0, <2>2, <2>3, HasAppend
  <2> QED BY <1>u, <2>1, <2>4
<1>2. ASSUME HeaderWritten("client") \/ MessageWritten("client")
      PROVE  /\ w # <<>> /\ IsPart(Head(w)) /\ Orderly(w, "answer", msgs)
             /\ Tail(w) \in Seq(Units) /\ msgs # <<>>
             /\ Has(Tail(w), "answer") <=> flies
  <2>1. w # <<>> /\ IsPart(Head(w)) /\ open["client"]
    BY <1>2 DEF HeaderWritten, MessageWritten, Written, IsPart
  <2>2. Orderly(w, "answer", msgs)
    BY <2>1, EndsFacts, WritesFront DEF Handshake
  <2>3. Has(Tail(w), "answer") <=> flies
    BY <1>0, <1>h, <2>1, <2>2, OrderlyPart, Zenon
  <2>4. Tail(w) \in Seq(Units) /\ msgs # <<>>
    BY <1>0, <2>1, <2>2, TailWrite, FrontWrite
  <2> QED BY <2>1, <2>2, <2>3, <2>4
<1>3. CASE HeaderWritten("client")
  <2> DEFINE u == Unit("body", Head(msgs))
  <2>1. writing'["client"] = Append(Tail(w), u) /\ Head(msgs) \in Bodied
    BY <1>0, <1>3 DEF HeaderWritten
  <2>2. u \in Units /\ u.kind # "answer"
    BY <2>1, UnitFacts, MessageFacts DEF Unit
  <2>3. Has(Append(Tail(w), u), "answer") <=> Has(Tail(w), "answer")
    <3>1. Tail(w) \in Seq(Units)
      BY <1>2, <1>3
    <3> HIDE DEF u, w
    <3> QED BY <2>2, <3>1, HasAppend, Zenon
  <2>4. Has(Tail(w), "answer") <=> flies
    BY <1>2, <1>3
  <2> QED BY <1>u, <2>1, <2>3, <2>4, Zenon
<1>4. CASE MessageWritten("client")
  <2> DEFINE q == Tail(msgs)
  <2>1. writing'["client"] = Tail(w) \o HeaderOf(q)
    BY <1>0, <1>4 DEF MessageWritten
  <2>2. Tail(w) \in Seq(Units) /\ q \in Seq(Messages)
    BY <1>0, <1>2, <1>4, HeadTailProperties
  <2>3. Has(Tail(w) \o HeaderOf(q), "answer") <=> Has(Tail(w), "answer")
    <3> HIDE DEF q, w
    <3>1. CASE q = <<>>
      BY <2>2, <3>1, HeaderAppended
    <3>2. CASE q # <<>>
      <4>1. Unit("header", Head(q)) \in Units /\ Unit("header", Head(q)).kind # "answer"
        BY <2>2, <3>2, HeadTailProperties, UnitFacts DEF Unit
      <4>2. Tail(w) \o HeaderOf(q) = Append(Tail(w), Unit("header", Head(q)))
        BY <2>2, <3>2, HeaderAppended
      <4>3. Has(Append(Tail(w), Unit("header", Head(q))), "answer") <=> Has(Tail(w), "answer")
        BY <2>2, <4>1, HasAppend, Zenon
      <4> QED BY <4>2, <4>3
    <3> QED BY <3>1, <3>2
  <2>4. Has(Tail(w), "answer") <=> flies
    BY <1>2, <1>4
  <2> QED BY <1>u, <2>1, <2>3, <2>4, Zenon
<1> QED BY <1>1, <1>3, <1>4

LEMMA AnswerAloneNext ==
  ASSUME ConnectionInv, [Next]_vars
  PROVE  AnswerAlone'
<1> DEFINE w == writing["client"]
           flies == Has(w, "answer")
           flies2 == Has(writing'["client"], "answer")
<1>0. /\ open \in [Ends -> BOOLEAN] /\ started \in [Ends -> BOOLEAN]
      /\ reading \in [Ends -> {"validation", "header", "body", "none"}]
      /\ writing \in [Ends -> Seq(Units)] /\ w \in Seq(Units)
      /\ posts \in [Ends -> Seq(Messages)] /\ out \in [Ends -> Seq(Messages)]
      /\ stream \in [Ends -> Seq(Units)]
  BY EndsFacts DEF ConnectionInv, TypeOK
<1> USE DEF link, inbound, queues, received
<1>h. "answer" \notin {"header", "body"}
  OBVIOUS
<1>a. open["client"] /\ flies => started["client"] /\ reading["client"] = "none"
  BY EndsFacts DEF ConnectionInv, AnswerAlone, HandshakeFlies, Handshake
<1>b. ASSUME open'["client"] /\ flies2 => started'["client"] /\ reading'["client"] = "none"
      PROVE  AnswerAlone'
  BY <1>b DEF AnswerAlone, HandshakeFlies, Handshake
<1>k. ASSUME open'["client"] /\ flies2 => open["client"] /\ flies,
             started["client"] => started'["client"],
             reading["client"] = "none" /\ started["client"] /\ open'["client"]
               => reading'["client"] = "none"
      PROVE  AnswerAlone'
  BY <1>a, <1>b, <1>k
<1>1. CASE Establish \/ Refuse \/ Lose \/ Exit \/ UNCHANGED vars
  BY <1>0, <1>1, <1>k, EndsFacts DEF Establish, Refuse, Lose, Exit, vars
<1>2. ASSUME NEW e \in Ends, Handler(e) PROVE AnswerAlone'
  <2>1. CASE ConnectHandler \/ ContextReturns
    BY <1>0, <1>k, <2>1, EndsFacts DEF ConnectHandler, ContextReturns
  <2>2. CASE SolvePuzzle
    <3>1. started["client"] /\ started' = started
      BY <2>2, EndsFacts DEF SolvePuzzle, Got, ConnectionInv, ReadsStarted
    <3>2. reading'["client"] = "none"
      BY <1>0, <2>2, EndsFacts DEF SolvePuzzle
    <3> QED BY <1>b, <3>1, <3>2
  <2>3. CASE AcceptHandler \/ AcceptThrows \/ AcceptAnswer \/ RejectAnswer
    BY <1>0, <1>k, <2>3, EndsFacts
    DEF AcceptHandler, ConnectToClient, AcceptThrows, AcceptAnswer, RejectAnswer
  <2>4. CASE e = "server"
    <3>1. CASE RunPosted(e) \/ ValidationWritten(e) \/ HeaderWritten(e)
      BY <1>0, <1>k, <2>4, <3>1, EndsFacts DEF RunPosted, ValidationWritten, HeaderWritten
    <3>2. CASE MessageWritten(e) \/ WriteFail(e)
      BY <1>0, <1>k, <2>4, <3>2, EndsFacts DEF MessageWritten, WriteFail
    <3>3. CASE HeaderRead(e) \/ BareRead(e) \/ BodyRead(e) \/ ReadFail(e)
      BY <1>0, <1>k, <2>4, <3>3, EndsFacts
      DEF HeaderRead, BareRead, BodyRead, ReadFail, AddToIncomingMessageQueue
    <3> QED BY <1>2, <2>1, <2>2, <2>3, <3>1, <3>2, <3>3 DEF Handler
  <2>5. CASE e = "client" /\ (RunPosted(e) \/ HeaderWritten(e) \/ MessageWritten(e))
    BY <1>k, <2>5, AnswerKept
  <2>6. CASE e = "client" /\ ValidationWritten(e)
    <3>1. /\ writing'["client"] = Tail(w) /\ w # <<>> /\ open["client"]
          /\ ~IsPart(Head(w))
      BY <1>0, <2>6, EndsFacts DEF ValidationWritten, Written, IsPart
    <3>2. Orderly(w, "answer", out["client"])
      BY <3>1, EndsFacts, WritesFront DEF Handshake
    <3>3. ~flies2
      BY <1>0, <3>1, <3>2, OrderlyStarted
    <3> QED BY <1>b, <3>3
  <2>7. CASE e = "client" /\ (WriteFail(e) \/ ReadFail(e))
    <3>1. ~open'["client"]
      BY <1>0, <2>7, EndsFacts DEF WriteFail, ReadFail
    <3> QED BY <1>b, <3>1
  <2>8. CASE e = "client" /\ (HeaderRead(e) \/ BareRead(e) \/ BodyRead(e))
    <3>1. reading["client"] # "none" /\ UNCHANGED <<open, started, writing>>
      BY <2>8 DEF HeaderRead, BareRead, BodyRead, Got
    <3> QED BY <1>k, <3>1
  <2> QED BY <1>2, <2>1, <2>2, <2>3, <2>4, <2>5, <2>6, <2>7, <2>8,
             EndsFacts DEF Handler
<1>3. ASSUME NEW e \in Ends, NEW m \in Messages, Send(e, m) PROVE AnswerAlone'
  BY <1>0, <1>k, <1>3 DEF Send
<1> QED BY <1>1, <1>2, <1>3 DEF Next

LEMMA QueuesKept ==
  ASSUME Queues, UNCHANGED <<sent, out, posts>>
  PROVE  Queues'
BY DEF Queues

\* A step that only concerns the queues of end e.
LEMMA QueuesAt ==
  ASSUME Queues, NEW e \in Ends, Queued(sent'[e], out'[e], posts'[e]),
         \A x \in Ends \ {e} : /\ sent'[x] = sent[x] /\ out'[x] = out[x]
                               /\ posts'[x] = posts[x]
  PROVE  Queues'
BY DEF Queues

LEMMA QueuesNext ==
  ASSUME ConnectionInv, [Next]_vars
  PROVE  Queues'
<1>0. /\ posts \in [Ends -> Seq(Messages)] /\ out \in [Ends -> Seq(Messages)]
      /\ sent \in [Ends -> Seq(Messages)] /\ Queues
      /\ \A e \in Ends : Queued(sent[e], out[e], posts[e])
  BY DEF ConnectionInv, TypeOK, Queues
<1> USE DEF link, inbound, queues, received
<1>1. CASE Establish \/ Refuse \/ Lose \/ Exit \/ UNCHANGED vars
  BY <1>0, <1>1, QueuesKept DEF Establish, Refuse, Lose, Exit, vars
<1>s. ASSUME NEW e \in Ends, NEW m \in Messages, out' = out,
             sent' = [sent EXCEPT ![e] = Append(@, m)],
             posts' = [posts EXCEPT ![e] = Append(@, m)]
      PROVE  Queues'
  <2>1. Queued(Append(sent[e], m), out[e], Append(posts[e], m))
    BY <1>0, QueuedSend
  <2>2. sent'[e] = Append(sent[e], m) /\ posts'[e] = Append(posts[e], m)
    BY <1>0, <1>s
  <2>3. \A x \in Ends \ {e} : sent'[x] = sent[x] /\ posts'[x] = posts[x]
    BY <1>0, <1>s
  <2> QED BY <1>0, <1>s, <2>1, <2>2, <2>3, QueuesAt
<1>2. ASSUME NEW e \in Ends, Handler(e) PROVE Queues'
  <2>1. CASE \/ ConnectHandler \/ ContextReturns \/ SolvePuzzle
             \/ AcceptThrows \/ AcceptAnswer \/ RejectAnswer
    BY <1>0, <2>1, QueuesKept
    DEF ConnectHandler, ContextReturns, SolvePuzzle, AcceptThrows, AcceptAnswer,
        RejectAnswer
  <2>2. CASE AcceptHandler
    BY <1>s, <2>2, EndsFacts, MessageFacts DEF AcceptHandler, OnClientConnect
  <2>3. CASE RunPosted(e)
    <3>1. /\ posts[e] # <<>> /\ posts[e] \in Seq(Messages) /\ out[e] \in Seq(Messages)
          /\ sent[e] \in Seq(Messages) /\ Queued(sent[e], out[e], posts[e])
      BY <1>0, <2>3 DEF RunPosted
    <3>2. Queued(sent[e], Append(out[e], Head(posts[e])), Tail(posts[e]))
      BY <3>1, QueuedPost
    <3>3. /\ out'[e] = Append(out[e], Head(posts[e])) /\ posts'[e] = Tail(posts[e])
          /\ sent' = sent
          /\ \A x \in Ends \ {e} : out'[x] = out[x] /\ posts'[x] = posts[x]
      BY <1>0, <2>3 DEF RunPosted
    <3> QED BY <1>0, <3>2, <3>3, QueuesAt
  <2>4. CASE MessageWritten(e)
    <3>1. open[e] /\ writing[e] # <<>> /\ IsPart(Head(writing[e]))
      BY <2>4 DEF MessageWritten, Written, IsPart
    <3>2. /\ out[e] # <<>> /\ posts[e] \in Seq(Messages) /\ out[e] \in Seq(Messages)
          /\ sent[e] \in Seq(Messages) /\ Queued(sent[e], out[e], posts[e])
      BY <1>0, <3>1, WritesFront
    <3>3. Queued(sent[e], Tail(out[e]), posts[e])
      BY <3>2, QueuedWrite
    <3>4. /\ out'[e] = Tail(out[e]) /\ UNCHANGED <<sent, posts>>
          /\ \A x \in Ends \ {e} : out'[x] = out[x]
      BY <1>0, <2>4 DEF MessageWritten
    <3> QED BY <1>0, <3>3, <3>4, QueuesAt
  <2>5. CASE ValidationWritten(e) \/ HeaderWritten(e) \/ WriteFail(e)
    BY <1>0, <2>5, QueuesKept DEF ValidationWritten, HeaderWritten, WriteFail
  <2>6. CASE HeaderRead(e) \/ BareRead(e) \/ BodyRead(e) \/ ReadFail(e)
    BY <1>0, <2>6, QueuesKept DEF HeaderRead, BareRead, BodyRead, ReadFail
  <2> QED BY <1>2, <2>1, <2>2, <2>3, <2>4, <2>5, <2>6 DEF Handler
<1>3. ASSUME NEW e \in Ends, NEW m \in Messages, Send(e, m) PROVE Queues'
  BY <1>s, <1>3 DEF Send
<1> QED BY <1>1, <1>2, <1>3 DEF Next

\* No step but AcceptHandler and Send adds to the messages passed to Send, and
\* each of them adds one.
LEMMA SentGrows ==
  ASSUME TypeOK, [Next]_vars, NEW e \in Ends
  PROVE  sent'[e] = sent[e] \/ \E m \in Messages : sent'[e] = Append(sent[e], m)
<1>0. sent \in [Ends -> Seq(Messages)]
  BY DEF TypeOK
<1> USE DEF link, inbound, queues, received
<1>1. CASE Establish \/ Refuse \/ Lose \/ Exit \/ UNCHANGED vars
  BY <1>1 DEF Establish, Refuse, Lose, Exit, vars
<1>2. ASSUME NEW x \in Ends, Handler(x)
      PROVE  sent'[e] = sent[e] \/ \E m \in Messages : sent'[e] = Append(sent[e], m)
  <2>1. CASE \/ ConnectHandler \/ ContextReturns \/ SolvePuzzle
             \/ AcceptThrows \/ AcceptAnswer \/ RejectAnswer
    BY <2>1
    DEF ConnectHandler, ContextReturns, SolvePuzzle, AcceptThrows, AcceptAnswer,
        RejectAnswer
  <2>2. CASE AcceptHandler
    BY <1>0, <2>2, EndsFacts, MessageFacts DEF AcceptHandler, OnClientConnect
  <2>3. CASE RunPosted(x) \/ ValidationWritten(x) \/ HeaderWritten(x)
    BY <2>3 DEF RunPosted, ValidationWritten, HeaderWritten
  <2>4. CASE MessageWritten(x) \/ WriteFail(x)
    BY <2>4 DEF MessageWritten, WriteFail
  <2>5. CASE HeaderRead(x) \/ BareRead(x) \/ BodyRead(x) \/ ReadFail(x)
    BY <2>5 DEF HeaderRead, BareRead, BodyRead, ReadFail
  <2> QED BY <1>2, <2>1, <2>2, <2>3, <2>4, <2>5 DEF Handler
<1>3. ASSUME NEW x \in Ends, NEW m \in Messages, Send(x, m)
      PROVE  sent'[e] = sent[e] \/ \E m2 \in Messages : sent'[e] = Append(sent[e], m2)
  BY <1>0, <1>3 DEF Send
<1> QED BY <1>1, <1>2, <1>3 DEF Next

\* What has been received of them stays in step with them.
LEMMA SentKept ==
  ASSUME TypeOK, [Next]_vars, NEW e \in Ends
  PROVE  /\ sent'[e] \in Seq(Messages)
         /\ \A n \in DOMAIN sent[e] : n \in DOMAIN sent'[e] /\ sent'[e][n] = sent[e][n]
         /\ \A r \in Seq(Messages) : Arrived(r, sent[e]) => Arrived(r, sent'[e])
         /\ \A h, s, from, to :
              s \in Seq(Units) /\ Path(sent[e], h, s, from, to) => Path(sent'[e], h, s, from, to)
<1>0. sent[e] \in Seq(Messages)
  BY EndTypes
<1>1. CASE sent'[e] = sent[e]
  BY <1>0, <1>1
<1>2. ASSUME NEW m \in Messages, sent'[e] = Append(sent[e], m)
      PROVE  /\ sent'[e] \in Seq(Messages)
             /\ \A n \in DOMAIN sent[e] : n \in DOMAIN sent'[e] /\ sent'[e][n] = sent[e][n]
             /\ \A r \in Seq(Messages) : Arrived(r, sent[e]) => Arrived(r, sent'[e])
             /\ \A h, s, from, to :
                  s \in Seq(Units) /\ Path(sent[e], h, s, from, to)
                    => Path(sent'[e], h, s, from, to)
  <2>1. /\ Append(sent[e], m) \in Seq(Messages)
        /\ \A n \in DOMAIN sent[e] : /\ n \in DOMAIN Append(sent[e], m)
                                     /\ Append(sent[e], m)[n] = sent[e][n]
    <3> DEFINE q == sent[e]
               t == Append(q, m)
    <3>1. /\ t \in Seq(Messages) /\ Len(t) = Len(q)+1 /\ DOMAIN t = 1..Len(t)
          /\ DOMAIN q = 1..Len(q) /\ Len(q) \in Nat /\ \A n \in 1..Len(q) : t[n] = q[n]
      BY <1>0, AppendProperties, LenProperties
    <3> HIDE DEF t
    <3>2. t \in Seq(Messages) /\ \A n \in DOMAIN q : n \in DOMAIN t /\ t[n] = q[n]
      BY <3>1
    <3> QED BY <3>2 DEF t
  <2>2. \A r \in Seq(Messages) : Arrived(r, sent[e]) => Arrived(r, Append(sent[e], m))
    BY <1>0, ArrivedMore
  <2>3. \A h, s, from, to :
          s \in Seq(Units) /\ Path(sent[e], h, s, from, to)
            => Path(Append(sent[e], m), h, s, from, to)
    BY <1>0, PathMonotone
  <2> QED BY <1>2, <2>1, <2>2, <2>3, Zenon
<1> QED BY <1>1, <1>2, SentGrows

\* What a step reads, in terms of what was sent.
LEMMA ReceptionNext ==
  ASSUME ConnectionInv, [Next]_vars
  PROVE  Arrivals' /\ HoldsBodied' /\ HoldsNext'
<1> DEFINE holds(p) == /\ temporary[p] \in Bodied
                       /\ Len(in[p]) + 1 \in DOMAIN sent[Peer(p)]
                       /\ temporary[p] = sent[Peer(p)][Len(in[p]) + 1]
           good(p) == Arrived(in[p], sent[Peer(p)]) /\ (reading[p] = "body" => holds(p))
           good2(p) ==
             /\ Arrived(in'[p], sent'[Peer(p)])
             /\ reading'[p] = "body" =>
                  /\ temporary'[p] \in Bodied
                  /\ Len(in'[p]) + 1 \in DOMAIN sent'[Peer(p)]
                  /\ temporary'[p] = sent'[Peer(p)][Len(in'[p]) + 1]
<1>0. /\ in \in [Ends -> Seq(Messages)] /\ temporary \in [Ends -> Messages \cup {NoMsg}]
      /\ reading \in [Ends -> {"validation", "header", "body", "none"}]
      /\ stream \in [Ends -> Seq(Units)] /\ sent \in [Ends -> Seq(Messages)]
  BY DEF ConnectionInv, TypeOK
<1>g. \A p \in Ends : good(p)
  BY DEF ConnectionInv, Arrivals, HoldsBodied, HoldsNext
<1>q. (\A p \in Ends : good2(p)) => Arrivals' /\ HoldsBodied' /\ HoldsNext'
  BY DEF Arrivals, HoldsBodied, HoldsNext
<1> SUFFICES ASSUME NEW p \in Ends PROVE good2(p)
  BY <1>q
<1>p. Peer(p) \in Ends /\ in[p] \in Seq(Messages) /\ sent[Peer(p)] \in Seq(Messages)
  BY <1>0, EndsFacts
<1>s. /\ \A n \in DOMAIN sent[Peer(p)] :
           n \in DOMAIN sent'[Peer(p)] /\ sent'[Peer(p)][n] = sent[Peer(p)][n]
      /\ \A r \in Seq(Messages) : Arrived(r, sent[Peer(p)]) => Arrived(r, sent'[Peer(p)])
  BY <1>p, SentKept DEF ConnectionInv
\* A step that p receives nothing by.
<1>k. ASSUME in'[p] = in[p],
             reading'[p] = "body" => reading[p] = "body" /\ temporary'[p] = temporary[p]
      PROVE  good2(p)
  <2>1. Arrived(in'[p], sent'[Peer(p)])
    BY <1>g, <1>k, <1>p, <1>s
  <2>2. reading'[p] = "body" => holds(p) /\ temporary'[p] = temporary[p]
    BY <1>g, <1>k
  <2> QED BY <1>k, <1>s, <2>1, <2>2
\* A step by which it receives the next message.
<1>r. ASSUME NEW m \in Messages, in'[p] = Append(in[p], m), reading'[p] # "body",
             Len(in[p]) + 1 \in DOMAIN sent[Peer(p)], m = sent[Peer(p)][Len(in[p]) + 1]
      PROVE  good2(p)
  <2>1. Arrived(Append(in[p], m), sent[Peer(p)])
    BY <1>g, <1>p, <1>r, ArrivedNext
  <2>2. Append(in[p], m) \in Seq(Messages)
    BY <1>p, AppendProperties
  <2>3. Arrived(Append(in[p], m), sent'[Peer(p)])
    BY <1>s, <2>1, <2>2
  <2> QED BY <1>r, <2>3
<1> USE DEF link, inbound, queues, received
<1>1. CASE Establish \/ Refuse \/ Lose \/ Exit \/ UNCHANGED vars
  <2>1. UNCHANGED <<in, reading, temporary>>
    BY <1>1 DEF Establish, Refuse, Lose, Exit, vars
  <2> QED BY <1>k, <2>1
<1>2. ASSUME NEW e \in Ends, Handler(e) PROVE good2(p)
  <2>1. CASE ConnectHandler \/ ContextReturns \/ SolvePuzzle
    <3>1. in' = in /\ temporary' = temporary /\ (reading'[p] = "body" => reading[p] = "body")
      BY <1>0, <2>1, EndsFacts DEF ConnectHandler, ContextReturns, SolvePuzzle
    <3> QED BY <1>k, <3>1
  <2>2. CASE AcceptHandler \/ AcceptThrows \/ AcceptAnswer \/ RejectAnswer
    <3>1. in' = in /\ temporary' = temporary /\ (reading'[p] = "body" => reading[p] = "body")
      BY <1>0, <2>2, EndsFacts
      DEF AcceptHandler, ConnectToClient, AcceptThrows, AcceptAnswer, RejectAnswer
    <3> QED BY <1>k, <3>1
  <2>3. CASE RunPosted(e) \/ ValidationWritten(e) \/ HeaderWritten(e)
    <3>1. in' = in /\ temporary' = temporary /\ (reading'[p] = "body" => reading[p] = "body")
      BY <1>0, <2>3 DEF RunPosted, ValidationWritten, HeaderWritten
    <3> QED BY <1>k, <3>1
  <2>4. CASE MessageWritten(e) \/ WriteFail(e) \/ ReadFail(e)
    <3>1. in' = in /\ temporary' = temporary /\ (reading'[p] = "body" => reading[p] = "body")
      BY <1>0, <2>4 DEF MessageWritten, WriteFail, ReadFail
    <3> QED BY <1>k, <3>1
  <2>5. CASE p # e /\ (HeaderRead(e) \/ BareRead(e) \/ BodyRead(e))
    <3>1. in'[p] = in[p] /\ temporary'[p] = temporary[p] /\ reading'[p] = reading[p]
      BY <1>0, <2>5 DEF HeaderRead, BareRead, BodyRead, AddToIncomingMessageQueue
    <3> QED BY <1>k, <3>1
  <2>6. CASE HeaderRead(p)
    <3>1. /\ reading[p] \in {"header", "body"} /\ stream[p] # <<>>
          /\ Head(stream[p]).msg \in Bodied
          /\ in' = in /\ temporary'[p] = Head(stream[p]).msg
      BY <1>0, <2>6 DEF HeaderRead, Got
    <3>2. /\ Len(in[p]) + 1 \in DOMAIN sent[Peer(p)]
          /\ Head(stream[p]).msg = sent[Peer(p)][Len(in[p]) + 1]
      BY <3>1, TakesMessage
    <3>3. Arrived(in[p], sent'[Peer(p)])
      BY <1>g, <1>p, <1>s
    <3> QED BY <1>s, <3>1, <3>2, <3>3
  <2>7. CASE BareRead(p)
    <3> DEFINE m == Head(stream[p]).msg
    <3>1. /\ reading[p] \in {"header", "body"} /\ stream[p] # <<>> /\ m \in Messages
          /\ in'[p] = Append(in[p], m) /\ reading'[p] = "header"
      BY <1>0, <2>7, MessageFacts DEF BareRead, Got, AddToIncomingMessageQueue
    <3>2. Len(in[p]) + 1 \in DOMAIN sent[Peer(p)] /\ m = sent[Peer(p)][Len(in[p]) + 1]
      BY <3>1, TakesMessage
    <3> HIDE DEF m
    <3> QED BY <1>r, <3>1, <3>2
  <2>8. CASE BodyRead(p)
    <3>1. /\ reading[p] = "body" /\ in'[p] = Append(in[p], temporary[p])
          /\ reading'[p] = "header"
      BY <1>0, <2>8 DEF BodyRead, Got, AddToIncomingMessageQueue
    <3>2. holds(p) /\ temporary[p] \in Messages
      BY <1>g, <3>1, MessageFacts
    <3> QED BY <1>r, <3>1, <3>2
  <2>9. CASE HeaderRead(e) \/ BareRead(e) \/ BodyRead(e)
    BY <2>5, <2>6, <2>7, <2>8, <2>9
  <2> QED BY <1>2, <2>1, <2>2, <2>3, <2>4, <2>9 DEF Handler
<1>3. ASSUME NEW e \in Ends, NEW m \in Messages, Send(e, m) PROVE good2(p)
  <2>1. UNCHANGED <<in, reading, temporary>>
    BY <1>3 DEF Send
  <2> QED BY <1>k, <2>1
<1> QED BY <1>1, <1>2, <1>3 DEF Next

\* The bodies of what has been received and of what comes next.
LEMMA BodiesNext ==
  ASSUME NEW r \in Seq(Messages), NEW s \in Seq(Bodies), NEW held,
         NEW m \in Messages, NEW b \in Bodies,
         BodiesOf(r, s, held), m \in Bodied => b = m
  PROVE  BodiesOf(Append(r, m), Append(s, b), b)
<1> DEFINE t == Append(s, b)
           q == Append(r, m)
<1>1. /\ Len(r) \in Nat /\ Len(s) = Len(r)
      /\ \A i \in 1..Len(r) : r[i] \in Bodied => s[i] = r[i]
  BY LenProperties DEF BodiesOf
<1>2. /\ Len(q) = Len(r)+1 /\ q[Len(r)+1] = m /\ \A i \in 1..Len(r) : q[i] = r[i]
  BY AppendProperties
<1>3. /\ Len(t) = Len(s)+1 /\ t[Len(s)+1] = b /\ \A i \in 1..Len(s) : t[i] = s[i]
      /\ t # <<>>
  BY AppendProperties, EmptySeq
<1> HIDE DEF t, q
<1>4. Len(t) = Len(q) /\ b = t[Len(t)]
  BY <1>1, <1>2, <1>3
<1>5. ASSUME NEW i \in 1..Len(q), q[i] \in Bodied PROVE t[i] = q[i]
  <2>1. CASE i = Len(r)+1
    BY <1>1, <1>2, <1>3, <1>5, <2>1
  <2>2. CASE i # Len(r)+1
    <3>1. i \in 1..Len(r)
      BY <1>1, <1>2, <2>2
    <3> QED BY <1>1, <1>2, <1>3, <1>5, <3>1
  <2> QED BY <2>1, <2>2
<1>6. BodiesOf(q, t, b)
  BY <1>3, <1>4, <1>5 DEF BodiesOf
<1> QED BY <1>6 DEF t, q

LEMMA BodiesKeptNext ==
  ASSUME ConnectionInv, [Next]_vars
  PROVE  BodiesKept'
<1>0. /\ in \in [Ends -> Seq(Messages)] /\ temporary \in [Ends -> Messages \cup {NoMsg}]
      /\ body \in [Ends -> Bodies] /\ inBody \in [Ends -> Seq(Bodies)]
      /\ stream \in [Ends -> Seq(Units)] /\ BodiesKept
  BY DEF ConnectionInv, TypeOK, Bodies
<1> USE DEF link, inbound, queues, received
<1>k. ASSUME UNCHANGED <<in, inBody, body>> PROVE BodiesKept'
  BY <1>0, <1>k DEF BodiesKept
\* End e receives a message.
<1>r. ASSUME NEW e \in Ends, NEW m \in Messages, NEW b \in Bodies, m \in Bodied => b = m,
             in' = [in EXCEPT ![e] = Append(@, m)],
             inBody' = [inBody EXCEPT ![e] = Append(@, b)],
             body'[e] = b, \A p \in Ends \ {e} : body'[p] = body[p]
      PROVE  BodiesKept'
  <2>1. BodiesOf(Append(in[e], m), Append(inBody[e], b), b)
    <3>1. in[e] \in Seq(Messages) /\ inBody[e] \in Seq(Bodies)
          /\ BodiesOf(in[e], inBody[e], body[e])
      BY <1>0 DEF BodiesKept
    <3> QED BY <1>r, <3>1, BodiesNext
  <2>2. /\ in'[e] = Append(in[e], m) /\ inBody'[e] = Append(inBody[e], b)
        /\ \A p \in Ends \ {e} : in'[p] = in[p] /\ inBody'[p] = inBody[p]
    BY <1>0, <1>r
  <2>3. \A p \in Ends \ {e} : BodiesOf(in'[p], inBody'[p], body'[p])
    BY <1>0, <1>r, <2>2 DEF BodiesKept
  <2> QED BY <1>r, <2>1, <2>2, <2>3 DEF BodiesKept
<1>1. CASE Establish \/ Refuse \/ Lose \/ Exit \/ UNCHANGED vars
  BY <1>1, <1>k DEF Establish, Refuse, Lose, Exit, vars
<1>2. ASSUME NEW e \in Ends, Handler(e) PROVE BodiesKept'
  <2>1. CASE ConnectHandler \/ ContextReturns \/ SolvePuzzle
    BY <1>k, <2>1 DEF ConnectHandler, ContextReturns, SolvePuzzle
  <2>2. CASE AcceptHandler \/ AcceptThrows \/ AcceptAnswer \/ RejectAnswer
    BY <1>k, <2>2 DEF AcceptHandler, AcceptThrows, AcceptAnswer, RejectAnswer
  <2>3. CASE RunPosted(e) \/ ValidationWritten(e) \/ HeaderWritten(e) \/ MessageWritten(e)
    BY <1>k, <2>3 DEF RunPosted, ValidationWritten, HeaderWritten, MessageWritten
  <2>4. CASE WriteFail(e) \/ ReadFail(e) \/ HeaderRead(e)
    BY <1>k, <2>4 DEF WriteFail, ReadFail, HeaderRead
  <2>5. CASE BareRead(e)
    <3> DEFINE m == Head(stream[e]).msg
    <3>1. /\ m \in Messages /\ m \notin Bodied /\ body[e] \in Bodies /\ body' = body
          /\ in' = [in EXCEPT ![e] = Append(@, m)]
          /\ inBody' = [inBody EXCEPT ![e] = Append(@, body[e])]
      BY <1>0, <2>5, MessageFacts DEF BareRead, AddToIncomingMessageQueue
    <3> HIDE DEF m
    <3> QED BY <1>r, <3>1
  <2>6. CASE BodyRead(e)
    <3> DEFINE m == temporary[e]
               b == Head(stream[e]).msg
    <3>1. /\ reading[e] = "body" /\ stream[e] # <<>>
          /\ body' = [body EXCEPT ![e] = b]
          /\ in' = [in EXCEPT ![e] = Append(@, m)]
          /\ inBody' = [inBody EXCEPT ![e] = Append(@, b)]
      BY <2>6 DEF BodyRead, Got, AddToIncomingMessageQueue
    <3>2. m \in Messages
      BY <3>1, MessageFacts DEF ConnectionInv, HoldsBodied
    <3>3. b = m
      BY <3>1, TakesMessage DEF ConnectionInv, HoldsNext
    <3> HIDE DEF m, b
    <3>4. b \in Bodies
      BY <3>2, <3>3 DEF Bodies
    <3>5. body'[e] = b /\ \A p \in Ends \ {e} : body'[p] = body[p]
      BY <1>0, <3>1
    <3> QED BY <1>r, <3>1, <3>2, <3>3, <3>4, <3>5
  <2> QED BY <1>2, <2>1, <2>2, <2>3, <2>4, <2>5, <2>6 DEF Handler
<1>3. ASSUME NEW e \in Ends, NEW m \in Messages, Send(e, m) PROVE BodiesKept'
  BY <1>3, <1>k DEF Send
<1> QED BY <1>1, <1>2, <1>3 DEF Next

\* An end that has stopped reading does not start again, one that has read the
\* unit of the handshake does not wait for it again, one that waits receives
\* no message.
LEMMA WaitsBefore ==
  ASSUME ConnectionInv, [Next]_vars, NEW p \in Ends
  PROVE  /\ Alive(p)' => Alive(p)
         /\ Alive(p)' /\ Awaits(p)' => Awaits(p)
         /\ Awaits(p)' => in'[p] = in[p]
<1> DEFINE goal == /\ Alive(p)' => Alive(p)
                   /\ Alive(p)' /\ Awaits(p)' => Awaits(p)
                   /\ Awaits(p)' => in'[p] = in[p]
<1>0. /\ open \in [Ends -> BOOLEAN] /\ started \in [Ends -> BOOLEAN]
      /\ reading \in [Ends -> {"validation", "header", "body", "none"}]
      /\ in \in [Ends -> Seq(Messages)]
  BY DEF ConnectionInv, TypeOK
<1>n. reading[p] # "none" => started[p]
  BY DEF ConnectionInv, ReadsStarted
<1> USE DEF link, inbound, queues, received
<1>k. ASSUME in'[p] = in[p], reading'[p] = reading[p], open'[p] => open[p],
             started[p] => started'[p], started'[p] => started[p]
      PROVE  goal
  BY <1>k DEF Alive, Awaits
<1>1. CASE Establish \/ Refuse \/ Lose \/ Exit \/ UNCHANGED vars
  BY <1>0, <1>1, <1>k DEF Establish, Refuse, Lose, Exit, vars
<1>2. ASSUME NEW e \in Ends, Handler(e) PROVE goal
  <2>1. CASE ConnectHandler
    <3>1. in' = in /\ open' = open
      BY <2>1 DEF ConnectHandler
    <3>2. CASE p = "client"
      <4>1. ~started[p]
        BY <2>1, <3>2 DEF ConnectHandler
      <4> QED BY <3>1, <3>2, <4>1 DEF Alive, Awaits
    <3>3. CASE p # "client"
      BY <1>0, <1>k, <2>1, <3>1, <3>3 DEF ConnectHandler
    <3> QED BY <3>2, <3>3
  <2>2. CASE AcceptHandler
    <3>1. in' = in /\ open' = open
      BY <2>2 DEF AcceptHandler
    <3>2. CASE p = "server"
      <4>1. ~started[p] /\ reading[p] = "none"
        BY <1>0, <1>n, <2>2, <3>2 DEF AcceptHandler
      <4> QED BY <3>1, <3>2, <4>1, EndsFacts DEF Alive, Awaits
    <3>3. CASE p # "server"
      BY <1>0, <1>k, <2>2, <3>1, <3>3 DEF AcceptHandler, ConnectToClient
    <3> QED BY <3>2, <3>3
  <2>3. CASE \/ ContextReturns \/ AcceptThrows
             \/ RunPosted(e) \/ HeaderWritten(e) \/ MessageWritten(e)
    BY <1>0, <1>k, <2>3
    DEF ContextReturns, AcceptThrows, RunPosted, HeaderWritten, MessageWritten
  <2>4. CASE SolvePuzzle
    <3>1. in' = in /\ open' = open /\ started' = started
      BY <2>4 DEF SolvePuzzle
    <3>2. CASE p = "client"
      <4>1. reading[p] = "validation" /\ reading'[p] = "none" /\ started[p]
        BY <1>0, <1>n, <2>4, <3>2 DEF SolvePuzzle, Got
      <4> QED BY <3>1, <3>2, <4>1 DEF Alive, Awaits
    <3>3. CASE p # "client"
      BY <1>0, <1>k, <2>4, <3>1, <3>3 DEF SolvePuzzle
    <3> QED BY <3>2, <3>3
  <2>5. CASE AcceptAnswer \/ RejectAnswer
    <3>1. in' = in /\ started' = started
      BY <2>5 DEF AcceptAnswer, RejectAnswer
    <3>2. CASE p = "server"
      <4>1. reading[p] = "validation" /\ started[p]
        BY <1>n, <2>5, <3>2 DEF AcceptAnswer, RejectAnswer, Got
      <4> QED BY <3>1, <3>2, <4>1, EndsFacts DEF Alive, Awaits
    <3>3. CASE p # "server"
      BY <1>0, <1>k, <2>5, <3>1, <3>3 DEF AcceptAnswer, RejectAnswer
    <3> QED BY <3>2, <3>3
  <2>6. CASE ValidationWritten(e)
    <3>1. in' = in /\ open' = open /\ started' = started
      BY <2>6 DEF ValidationWritten
    <3>2. CASE p = e /\ p = "client"
      <4>1. open[p] /\ writing[p] # <<>> /\ ~IsPart(Head(writing[p]))
        BY <2>6, <3>2 DEF ValidationWritten, Written, IsPart
      <4>2. started[p]
        BY <3>2, <4>1, WritesFront DEF ConnectionInv, AnswerAlone
      <4>3. reading'[p] = "header"
        BY <1>0, <2>6, <3>2 DEF ValidationWritten
      <4> QED BY <3>1, <3>2, <4>1, <4>2, <4>3 DEF Alive, Awaits
    <3>3. CASE ~(p = e /\ p = "client")
      BY <1>0, <1>k, <2>6, <3>1, <3>3 DEF ValidationWritten
    <3> QED BY <3>2, <3>3
  <2>7. CASE WriteFail(e)
    BY <1>0, <1>k, <2>7 DEF WriteFail
  <2>8. CASE p # e /\ (HeaderRead(e) \/ BareRead(e) \/ BodyRead(e) \/ ReadFail(e))
    BY <1>0, <1>k, <2>8
    DEF HeaderRead, BareRead, BodyRead, ReadFail, AddToIncomingMessageQueue
  <2>9. CASE HeaderRead(p) \/ BareRead(p) \/ BodyRead(p)
    <3>1. /\ open' = open /\ started' = started /\ reading[p] # "none"
          /\ reading'[p] \in {"header", "body"}
      BY <1>0, <2>9 DEF HeaderRead, BareRead, BodyRead, Got, AddToIncomingMessageQueue
    <3>2. ~Awaits(p)'
      BY <1>n, <3>1 DEF Awaits
    <3>3. Alive(p)
      BY <3>1 DEF Alive
    <3> QED BY <3>2, <3>3
  <2>10. CASE ReadFail(p)
    <3>1. /\ in' = in /\ started' = started /\ reading[p] # "none"
          /\ reading'[p] = "none" /\ ~open'[p]
      BY <1>0, <2>10 DEF ReadFail
    <3>2. ~Alive(p)'
      BY <1>n, <3>1 DEF Alive
    <3> QED BY <3>1, <3>2
  <2>11. CASE HeaderRead(e) \/ BareRead(e) \/ BodyRead(e) \/ ReadFail(e)
    BY <2>8, <2>9, <2>10, <2>11
  <2> QED BY <1>2, <2>1, <2>2, <2>3, <2>4, <2>5, <2>6, <2>7, <2>11 DEF Handler
<1>3. ASSUME NEW e \in Ends, NEW m \in Messages, Send(e, m) PROVE goal
  BY <1>k, <1>3 DEF Send
<1> QED BY <1>1, <1>2, <1>3 DEF Next

LEMMA NothingYetNext ==
  ASSUME ConnectionInv, [Next]_vars
  PROVE  NothingYet'
<1> SUFFICES ASSUME NEW p \in Ends, Alive(p)', Awaits(p)' PROVE in'[p] = <<>>
  BY DEF NothingYet
<1>1. Alive(p) /\ Awaits(p) /\ in'[p] = in[p]
  BY WaitsBefore
<1> QED BY <1>1 DEF ConnectionInv, NothingYet

LEMMA ReadsValidatedNext ==
  ASSUME ConnectionInv, [Next]_vars
  PROVE  ReadsValidated'
<1> DEFINE reads == reading["server"] \in {"header", "body"}
<1>0. /\ reading \in [Ends -> {"validation", "header", "body", "none"}]
      /\ in \in [Ends -> Seq(Messages)]
      /\ reads \/ in["server"] # <<>> => validated
  BY DEF ConnectionInv, TypeOK, ReadsValidated
<1> USE DEF link, inbound, queues, received
<1>k. ASSUME validated => validated', in'["server"] = in["server"] \/ reads,
             reading'["server"] \in {"header", "body"} => reads
      PROVE  ReadsValidated'
  BY <1>0, <1>k DEF ReadsValidated
<1>1. CASE Establish \/ Refuse \/ Lose \/ Exit \/ UNCHANGED vars
  BY <1>1, <1>k DEF Establish, Refuse, Lose, Exit, vars
<1>2. ASSUME NEW e \in Ends, Handler(e) PROVE ReadsValidated'
  <2>1. CASE ConnectHandler \/ ContextReturns \/ SolvePuzzle
    BY <1>0, <1>k, <2>1, EndsFacts DEF ConnectHandler, ContextReturns, SolvePuzzle
  <2>2. CASE AcceptHandler \/ AcceptThrows \/ RejectAnswer
    BY <1>0, <1>k, <2>2, EndsFacts
    DEF AcceptHandler, ConnectToClient, AcceptThrows, RejectAnswer
  <2>3. CASE AcceptAnswer
    BY <2>3 DEF AcceptAnswer, ReadsValidated
  <2>4. CASE RunPosted(e) \/ HeaderWritten(e) \/ MessageWritten(e) \/ WriteFail(e)
    BY <1>k, <2>4 DEF RunPosted, HeaderWritten, MessageWritten, WriteFail
  <2>5. CASE ValidationWritten(e)
    BY <1>0, <1>k, <2>5, EndsFacts DEF ValidationWritten
  <2>6. CASE HeaderRead(e) \/ BareRead(e) \/ BodyRead(e)
    BY <1>0, <1>k, <2>6, EndsFacts
    DEF HeaderRead, BareRead, BodyRead, Got, AddToIncomingMessageQueue
  <2>7. CASE ReadFail(e)
    BY <1>0, <1>k, <2>7, EndsFacts DEF ReadFail
  <2> QED BY <1>2, <2>1, <2>2, <2>3, <2>4, <2>5, <2>6, <2>7 DEF Handler
<1>3. ASSUME NEW e \in Ends, NEW m \in Messages, Send(e, m) PROVE ReadsValidated'
  BY <1>k, <1>3 DEF Send
<1> QED BY <1>1, <1>2, <1>3 DEF Next

\* What starting the front message's writing does to the writes.
LEMMA OrderlyHeader ==
  ASSUME NEW w \in Seq(Units), NEW h, Orderly(w, h, <<>>), NEW q \in Seq(Messages)
  PROVE  Orderly(w \o HeaderOf(q), h, q)
<1>1. CASE q = <<>>
  BY <1>1, HeaderAppended
<1>2. CASE q # <<>>
  BY <1>2, HeaderAppended, OrderlyFirst
<1> QED BY <1>1, <1>2

LEMMA WritesKept ==
  ASSUME Writes,
         \A x \in Ends : open'[x] => open[x] /\ writing'[x] = writing[x] /\ out'[x] = out[x]
  PROVE  Writes'
BY DEF Writes

\* A step that only concerns the writes of end e.
LEMMA WritesAt ==
  ASSUME Writes, NEW e \in Ends,
         open'[e] => Orderly(writing'[e], Handshake(e), out'[e]),
         \A x \in Ends \ {e} : /\ open'[x] => open[x]
                               /\ writing'[x] = writing[x] /\ out'[x] = out[x]
  PROVE  Writes'
BY DEF Writes

LEMMA WritesNext ==
  ASSUME ConnectionInv, [Next]_vars
  PROVE  Writes'
<1>0. /\ open \in [Ends -> BOOLEAN] /\ Writes
      /\ writing \in [Ends -> Seq(Units)] /\ out \in [Ends -> Seq(Messages)]
      /\ posts \in [Ends -> Seq(Messages)] /\ stream \in [Ends -> Seq(Units)]
  BY DEF ConnectionInv, TypeOK
<1> USE DEF link, inbound, queues, received
<1>1. CASE Establish \/ Refuse \/ Lose \/ Exit \/ UNCHANGED vars
  BY <1>0, <1>1, WritesKept DEF Establish, Refuse, Lose, Exit, vars
<1>2. ASSUME NEW e \in Ends, Handler(e) PROVE Writes'
  <2>1. CASE ConnectHandler \/ ContextReturns \/ AcceptAnswer
    BY <1>0, <2>1, WritesKept DEF ConnectHandler, ContextReturns, AcceptAnswer
  <2>2. CASE AcceptThrows \/ RejectAnswer
    <3>1. \A x \in Ends : open'[x] => open[x]
      BY <1>0, <2>2 DEF AcceptThrows, RejectAnswer
    <3>2. writing' = writing /\ out' = out
      BY <2>2 DEF AcceptThrows, RejectAnswer
    <3> QED BY <1>0, <3>1, <3>2, WritesKept
  <2>3. CASE SolvePuzzle
    <3> DEFINE w == writing["client"]
               u == Scramble(Head(stream["client"]))
    <3>1. /\ reading["client"] = "validation" /\ stream["client"] # <<>> /\ open["client"]
          /\ w \in Seq(Units) /\ writing'["client"] = Append(w, u)
          /\ \A x \in Ends \ {"client"} : writing'[x] = writing[x]
          /\ open' = open /\ out' = out
      BY <1>0, <2>3, EndsFacts DEF SolvePuzzle, Got
    <3>2. u = Unit("answer", NoMsg)
      BY <3>1, TakesPuzzle
    <3>3. u \in Units /\ u.kind = "answer" /\ ~IsPart(u)
      BY <3>2 DEF Unit, Units, IsPart
    <3>4. Orderly(w, "answer", out["client"]) /\ ~Has(w, "answer")
      BY <1>0, <3>1, EndsFacts
      DEF Writes, Handshake, ConnectionInv, AnswerAlone, HandshakeFlies
    <3>5. Orderly(Append(w, u), "answer", out["client"])
      <4> HIDE DEF u, w
      <4> QED BY <3>1, <3>3, <3>4, OrderlyHandshake
    <3>6. Orderly(writing'["client"], Handshake("client"), out'["client"])
      BY <3>1, <3>5 DEF Handshake
    <3> HIDE DEF u, w
    <3> QED BY <1>0, <3>1, <3>6, EndsFacts, WritesAt
  <2>4. CASE AcceptHandler
    <3>1. writing["server"] = <<>> /\ out["server"] = <<>> /\ open["server"]
      BY <2>4 DEF AcceptHandler, ConnectionInv, PuzzleFirst
    <3>2. /\ writing'["server"] = Append(<<>>, Puzzle) /\ open' = open /\ out' = out
          /\ \A x \in Ends \ {"server"} : writing'[x] = writing[x]
      BY <1>0, <2>4, <3>1, EndsFacts DEF AcceptHandler, ConnectToClient
    <3>3. Orderly(<<>>, "puzzle", <<>>) /\ <<>> \in Seq(Units)
      BY <1>0, <3>1, EndsFacts DEF Writes, Handshake
    <3>4. Puzzle \in Units /\ Puzzle.kind = "puzzle" /\ ~IsPart(Puzzle)
      BY UnitFacts DEF Puzzle, Unit, IsPart
    <3>5. ~Has(<<>>, "puzzle")
      BY DEF Has
    <3>6. Orderly(Append(<<>>, Puzzle), "puzzle", <<>>)
      BY <3>3, <3>4, <3>5, OrderlyHandshake
    <3> QED BY <1>0, <3>1, <3>2, <3>6, EndsFacts, WritesAt DEF Handshake
  <2>5. CASE RunPosted(e)
    <3> DEFINE w == writing[e]
               m == Head(posts[e])
    <3>1. /\ w \in Seq(Units) /\ out[e] \in Seq(Messages) /\ m \in Messages
          /\ posts[e] \in Seq(Messages) /\ posts[e] # <<>>
      BY <1>0, <2>5, HeadTailProperties DEF RunPosted
    <3>2. /\ writing'[e] = IF out[e] = <<>> THEN w \o HeaderOf(posts[e]) ELSE w
          /\ out'[e] = Append(out[e], m) /\ open' = open
          /\ \A x \in Ends \ {e} : writing'[x] = writing[x] /\ out'[x] = out[x]
      BY <1>0, <2>5 DEF RunPosted
    <3>3. open[e] => Orderly(w, Handshake(e), out[e])
      BY <1>0 DEF Writes
    <3>4. ASSUME open[e], out[e] = <<>>
          PROVE  Orderly(w \o HeaderOf(posts[e]), Handshake(e), Append(out[e], m))
      <4>1. HeaderOf(posts[e]) = HeaderOf(<<m>>) /\ Append(<<>>, m) = <<m>>
            /\ <<m>> \in Seq(Messages)
        BY <3>1 DEF HeaderOf
      <4>2. Orderly(w \o HeaderOf(<<m>>), Handshake(e), <<m>>)
        <5> HIDE DEF m, w
        <5> QED BY <3>1, <3>3, <3>4, <4>1, OrderlyHeader
      <4> QED BY <3>4, <4>1, <4>2
    <3>5. ASSUME open[e], out[e] # <<>>
          PROVE  Orderly(w, Handshake(e), Append(out[e], m))
      <4> HIDE DEF m, w
      <4> QED BY <3>1, <3>3, <3>5, OrderlyNext
    <3>6. open'[e] => Orderly(writing'[e], Handshake(e), out'[e])
      BY <3>2, <3>4, <3>5
    <3> QED BY <1>0, <3>2, <3>6, WritesAt
  <2>6. CASE ValidationWritten(e)
    <3>1. /\ open[e] /\ writing[e] # <<>> /\ ~IsPart(Head(writing[e]))
          /\ writing'[e] = Tail(writing[e]) /\ open' = open /\ out' = out
          /\ \A x \in Ends \ {e} : writing'[x] = writing[x]
      BY <1>0, <2>6 DEF ValidationWritten, Written, IsPart
    <3>2. Orderly(writing[e], Handshake(e), out[e]) /\ writing[e] \in Seq(Units)
      BY <1>0, <3>1, WritesFront
    <3>3. Orderly(Tail(writing[e]), Handshake(e), out[e])
      BY <3>1, <3>2, OrderlyStarted
    <3> QED BY <1>0, <3>1, <3>3, WritesAt
  <2>7. CASE HeaderWritten(e)
    <3> DEFINE u == Unit("body", Head(out[e]))
    <3>1. /\ open[e] /\ writing[e] # <<>> /\ IsPart(Head(writing[e])) /\ Head(out[e]) \in Bodied
          /\ writing'[e] = Append(Tail(writing[e]), u) /\ open' = open /\ out' = out
          /\ \A x \in Ends \ {e} : writing'[x] = writing[x]
      BY <1>0, <2>7 DEF HeaderWritten, Written, IsPart
    <3>2. /\ Orderly(writing[e], Handshake(e), out[e]) /\ writing[e] \in Seq(Units)
          /\ out[e] # <<>> /\ out[e] \in Seq(Messages)
      BY <1>0, <3>1, WritesFront
    <3>3. Orderly(Tail(writing[e]), Handshake(e), <<>>) /\ Tail(writing[e]) \in Seq(Units)
      BY <3>1, <3>2, OrderlyPart, Handshakes, TailWrite
    <3>4. Orderly(Append(Tail(writing[e]), u), Handshake(e), out[e])
      BY <3>1, <3>2, <3>3, OrderlyBody
    <3> QED BY <1>0, <3>1, <3>4, WritesAt
  <2>8. CASE MessageWritten(e)
    <3> DEFINE q == Tail(out[e])
    <3>1. /\ open[e] /\ writing[e] # <<>> /\ IsPart(Head(writing[e]))
          /\ writing'[e] = Tail(writing[e]) \o HeaderOf(q) /\ open' = open /\ out'[e] = q
          /\ \A x \in Ends \ {e} : writing'[x] = writing[x] /\ out'[x] = out[x]
      BY <1>0, <2>8 DEF MessageWritten, Written, IsPart
    <3>2. /\ Orderly(writing[e], Handshake(e), out[e]) /\ writing[e] \in Seq(Units)
          /\ out[e] # <<>> /\ out[e] \in Seq(Messages)
      BY <1>0, <3>1, WritesFront
    <3>3. Orderly(Tail(writing[e]), Handshake(e), <<>>) /\ Tail(writing[e]) \in Seq(Units)
      BY <3>1, <3>2, OrderlyPart, Handshakes, TailWrite
    <3>4. q \in Seq(Messages)
      BY <3>2, HeadTailProperties
    <3>5. Orderly(Tail(writing[e]) \o HeaderOf(q), Handshake(e), q)
      <4> HIDE DEF q
      <4> QED BY <3>3, <3>4, OrderlyHeader
    <3> QED BY <1>0, <3>1, <3>5, WritesAt
  <2>9. CASE WriteFail(e) \/ ReadFail(e)
    <3>1. ~open'[e] /\ \A x \in Ends \ {e} : open'[x] = open[x] /\ writing'[x] = writing[x]
      BY <1>0, <2>9 DEF WriteFail, ReadFail
    <3>2. out' = out
      BY <2>9 DEF WriteFail, ReadFail
    <3> QED BY <1>0, <3>1, <3>2, WritesAt
  <2>10. CASE HeaderRead(e) \/ BareRead(e) \/ BodyRead(e)
    BY <1>0, <2>10, WritesKept DEF HeaderRead, BareRead, BodyRead
  <2> QED BY <1>2, <2>1, <2>2, <2>3, <2>4, <2>5, <2>6, <2>7, <2>8, <2>9, <2>10 DEF Handler
<1>3. ASSUME NEW e \in Ends, NEW m \in Messages, Send(e, m) PROVE Writes'
  BY <1>0, <1>3, WritesKept DEF Send
<1> QED BY <1>1, <1>2, <1>3 DEF Next

-----------------------------------------------------------------------------
(* The streams.                                                            *)

\* A socket that is closed stays closed, a connection that is refused refused.
LEMMA OpenBefore ==
  ASSUME TypeOK, [Next]_vars
  PROVE  /\ \A x \in Ends : open'[x] => open[x]
         /\ tcp = "refused" => tcp' = "refused"
<1>0. open \in [Ends -> BOOLEAN]
  BY DEF TypeOK
<1> USE DEF link, inbound, queues, received
<1> DEFINE goal == /\ \A x \in Ends : open'[x] => open[x]
                   /\ tcp = "refused" => tcp' = "refused"
<1>1. CASE Establish \/ Refuse \/ Lose \/ Exit \/ UNCHANGED vars
  BY <1>0, <1>1 DEF Establish, Refuse, Lose, Exit, vars
<1>2. ASSUME NEW e \in Ends, Handler(e) PROVE goal
  <2>1. CASE ConnectHandler \/ ContextReturns \/ SolvePuzzle
    BY <2>1 DEF ConnectHandler, ContextReturns, SolvePuzzle
  <2>2. CASE AcceptHandler \/ AcceptThrows \/ AcceptAnswer \/ RejectAnswer
    BY <1>0, <2>2 DEF AcceptHandler, AcceptThrows, AcceptAnswer, RejectAnswer
  <2>3. CASE RunPosted(e) \/ ValidationWritten(e) \/ HeaderWritten(e) \/ MessageWritten(e)
    BY <2>3 DEF RunPosted, ValidationWritten, HeaderWritten, MessageWritten
  <2>4. CASE HeaderRead(e) \/ BareRead(e) \/ BodyRead(e)
    BY <2>4 DEF HeaderRead, BareRead, BodyRead
  <2>5. CASE WriteFail(e) \/ ReadFail(e)
    BY <1>0, <2>5 DEF WriteFail, ReadFail
  <2> QED BY <1>2, <2>1, <2>2, <2>3, <2>4, <2>5 DEF Handler
<1>3. ASSUME NEW e \in Ends, NEW m \in Messages, Send(e, m) PROVE goal
  BY <1>3 DEF Send
<1> QED BY <1>1, <1>2, <1>3 DEF Next

\* A step leaves alone where an open end is with its writing, where a live end is
\* with its reading.
WriterStays(e) ==
  open'[e] => /\ Greeted(e)' <=> Greeted(e)
              /\ BodyFlies(e)' <=> BodyFlies(e)
              /\ MessagesWritten(e)' = MessagesWritten(e)

ReaderStays(p) ==
  tcp' # "refused" /\ Alive(p)' =>
    /\ Awaits(p)' <=> Awaits(p)
    /\ ~Awaits(p) => in'[p] = in[p] /\ (reading'[p] = "body" <=> reading[p] = "body")

\* End e completes a write, end p a read.
Writer(e) == ValidationWritten(e) \/ HeaderWritten(e) \/ MessageWritten(e)
Reader(p) ==
  \/ HeaderRead(p) \/ BareRead(p) \/ BodyRead(p)
  \/ p = "client" /\ SolvePuzzle
  \/ p = "server" /\ (AcceptAnswer \/ RejectAnswer)

LEMMA StaysCursor ==
  ASSUME NEW e \in Ends
  PROVE  /\ WriterStays(e) /\ open'[e] => WriteCursor(e)' = WriteCursor(e)
         /\ ReaderStays(e) /\ tcp' # "refused" /\ Alive(e)' => ReadCursor(e)' = ReadCursor(e)
BY DEF WriterStays, ReaderStays, WriteCursor, ReadCursor

LEMMA BodyFliesHeader ==
  ASSUME NEW w \in Seq(Units), NEW q \in Seq(Messages)
  PROVE  /\ Has(w \o HeaderOf(q), "body") <=> Has(w, "body")
         /\ Has(w \o HeaderOf(q), "puzzle") <=> Has(w, "puzzle")
<1>1. CASE q = <<>>
  BY <1>1, HeaderAppended
<1>2. CASE q # <<>>
  <2>1. /\ Unit("header", Head(q)) \in Units
        /\ Unit("header", Head(q)).kind # "body" /\ Unit("header", Head(q)).kind # "puzzle"
    BY <1>2, HeadTailProperties, UnitFacts DEF Unit
  <2>2. w \o HeaderOf(q) = Append(w, Unit("header", Head(q)))
    BY <1>2, HeaderAppended
  <2>3. Has(Append(w, Unit("header", Head(q))), "body") <=> Has(w, "body")
    BY <2>1, HasAppend
  <2>4. Has(Append(w, Unit("header", Head(q))), "puzzle") <=> Has(w, "puzzle")
    BY <2>1, HasAppend
  <2> QED BY <2>2, <2>3, <2>4
<1> QED BY <1>1, <1>2

LEMMA WriterStaysKept ==
  ASSUME NEW e \in Ends, UNCHANGED <<writing[e], Done(sent[e], out[e], posts[e])>>,
         open'[e] => /\ e = "client" =>
                         (reading'[e] \in {"header", "body"} <=> reading[e] \in {"header", "body"})
                     /\ e # "client" => (started'[e] <=> started[e])
  PROVE  WriterStays(e)
BY DEF WriterStays, Greeted, BodyFlies, HandshakeFlies, MessagesWritten

LEMMA WriterStaysNext ==
  ASSUME ConnectionInv, [Next]_vars, NEW e \in Ends, ~Writer(e)
  PROVE  WriterStays(e)
<1>0. /\ open \in [Ends -> BOOLEAN] /\ started \in [Ends -> BOOLEAN]
      /\ reading \in [Ends -> {"validation", "header", "body", "none"}]
      /\ writing \in [Ends -> Seq(Units)] /\ out \in [Ends -> Seq(Messages)]
      /\ posts \in [Ends -> Seq(Messages)] /\ sent \in [Ends -> Seq(Messages)]
      /\ stream \in [Ends -> Seq(Units)]
      /\ Queued(sent[e], out[e], posts[e])
  BY DEF ConnectionInv, TypeOK, Queues
<1> USE DEF link, inbound, queues, received
<1> DEFINE reads(x) == reading[x] \in {"header", "body"}
           reads2(x) == reading'[x] \in {"header", "body"}
<1>k. ASSUME writing'[e] = writing[e], out'[e] = out[e], posts'[e] = posts[e],
             sent'[e] = sent[e],
             open'[e] => /\ e = "client" => (reads2(e) <=> reads(e))
                         /\ e # "client" => (started'[e] <=> started[e])
      PROVE  WriterStays(e)
  BY <1>k, WriterStaysKept
<1>1. CASE Establish \/ Refuse \/ Lose \/ Exit \/ UNCHANGED vars
  <2>1. UNCHANGED <<writing, out, posts, sent, reading, started>>
    BY <1>1 DEF Establish, Refuse, Lose, Exit, vars
  <2> QED BY <1>k, <2>1
<1>s. ASSUME NEW x \in Ends, NEW m \in Messages, out' = out,
             sent' = [sent EXCEPT ![x] = Append(@, m)],
             posts' = [posts EXCEPT ![x] = Append(@, m)]
      PROVE  MessagesWritten(e)' = MessagesWritten(e)
  <2>1. CASE x = e
    <3>1. Done(Append(sent[e], m), out[e], Append(posts[e], m)) = Done(sent[e], out[e], posts[e])
      BY <1>0, QueuedSend
    <3>2. sent'[e] = Append(sent[e], m) /\ posts'[e] = Append(posts[e], m)
      BY <1>0, <1>s, <2>1
    <3> QED BY <1>s, <3>1, <3>2 DEF MessagesWritten
  <2>2. CASE x # e
    <3>1. sent'[e] = sent[e] /\ posts'[e] = posts[e]
      BY <1>0, <1>s, <2>2
    <3> QED BY <1>s, <3>1 DEF MessagesWritten
  <2> QED BY <2>1, <2>2
<1>2. ASSUME NEW x \in Ends, Handler(x) PROVE WriterStays(e)
  <2>1. CASE ConnectHandler
    <3>1. UNCHANGED <<writing, out, posts, sent>>
      BY <2>1 DEF ConnectHandler
    <3>2. e = "client" => reading[e] = "none" /\ reading'[e] \in {"none", "validation"}
      BY <1>0, <2>1 DEF ConnectHandler, ConnectionInv, ReadsStarted
    <3>3. e # "client" => started'[e] = started[e]
      BY <1>0, <2>1 DEF ConnectHandler
    <3> QED BY <1>k, <3>1, <3>2, <3>3
  <2>2. CASE ContextReturns \/ AcceptThrows \/ AcceptAnswer \/ RejectAnswer
    <3>1. UNCHANGED <<writing, out, posts, sent, started>>
      BY <2>2 DEF ContextReturns, AcceptThrows, AcceptAnswer, RejectAnswer
    <3>2. e = "client" => reading'[e] = reading[e]
      BY <1>0, <2>2 DEF ContextReturns, AcceptThrows, AcceptAnswer, RejectAnswer
    <3> QED BY <1>k, <3>1, <3>2
  <2>3. CASE SolvePuzzle /\ e = "client"
    <3> DEFINE u == Scramble(Head(stream["client"]))
    <3>1. /\ writing'[e] = Append(writing[e], u) /\ reading[e] = "validation"
          /\ reading'[e] = "none" /\ stream["client"] # <<>> /\ UNCHANGED <<out, posts, sent>>
      BY <1>0, <2>3 DEF SolvePuzzle, Got
    <3>2. u = Unit("answer", NoMsg)
      BY <2>3, <3>1, TakesPuzzle
    <3>3. u \in Units /\ u.kind # "body"
      BY <3>2 DEF Unit, Units
    <3>4. Has(writing'[e], "body") <=> Has(writing[e], "body")
      <4> HIDE DEF u
      <4> QED BY <1>0, <3>1, <3>3, HasAppend
    <3> QED BY <2>3, <3>1, <3>4 DEF WriterStays, Greeted, BodyFlies, MessagesWritten
  <2>4. CASE SolvePuzzle /\ e # "client"
    <3>1. UNCHANGED <<writing[e], out, posts, sent, started>>
      BY <1>0, <2>4 DEF SolvePuzzle
    <3> QED BY <1>k, <2>4, <3>1
  <2>5. CASE AcceptHandler /\ e = "server"
    <3>1. /\ writing[e] = <<>> /\ ~started[e]
          /\ writing'[e] = Append(writing[e], Puzzle)
      BY <1>0, <2>5, EndsFacts
      DEF AcceptHandler, ConnectToClient, ConnectionInv, PuzzleFirst
    <3>2. Puzzle \in Units /\ Puzzle.kind = "puzzle"
      BY UnitFacts DEF Puzzle, Unit
    <3>a. writing[e] \in Seq(Units) /\ Puzzle.kind # "body"
      BY <1>0, <3>2
    <3>b. Has(Append(writing[e], Puzzle), "puzzle")
      BY <3>2, <3>a, HasAppend
    <3>c. Has(Append(writing[e], Puzzle), "body") <=> Has(writing[e], "body")
      BY <3>2, <3>a, HasAppend
    <3>3. Has(writing'[e], "puzzle") /\ (Has(writing'[e], "body") <=> Has(writing[e], "body"))
      BY <3>1, <3>b, <3>c
    <3>4. MessagesWritten(e)' = MessagesWritten(e)
      BY <1>s, <2>5, EndsFacts, MessageFacts DEF AcceptHandler, OnClientConnect
    <3>5. ~Greeted(e) /\ ~Greeted(e)'
      BY <2>5, <3>1, <3>3, EndsFacts DEF Greeted, HandshakeFlies, Handshake
    <3> QED BY <3>3, <3>4, <3>5 DEF WriterStays, BodyFlies
  <2>6. CASE AcceptHandler /\ e # "server"
    <3>1. UNCHANGED <<writing[e], out, posts[e], sent[e], started[e], reading[e]>>
      BY <1>0, <2>6 DEF AcceptHandler, OnClientConnect, ConnectToClient
    <3> QED BY <1>k, <3>1
  <2>7. CASE RunPosted(x) /\ e = x
    <3>1. /\ posts[e] # <<>> /\ UNCHANGED <<reading, started, sent>>
          /\ writing'[e] = IF out[e] = <<>> THEN writing[e] \o HeaderOf(posts[e]) ELSE writing[e]
          /\ out'[e] = Append(out[e], Head(posts[e])) /\ posts'[e] = Tail(posts[e])
      BY <1>0, <2>7 DEF RunPosted
    <3>2. /\ Has(writing'[e], "body") <=> Has(writing[e], "body")
          /\ Has(writing'[e], "puzzle") <=> Has(writing[e], "puzzle")
      <4>1. CASE out[e] = <<>>
        BY <1>0, <3>1, <4>1, BodyFliesHeader
      <4>2. CASE out[e] # <<>>
        BY <3>1, <4>2
      <4> QED BY <4>1, <4>2
    <3>3. MessagesWritten(e)' = MessagesWritten(e)
      BY <1>0, <3>1, QueuedPost DEF MessagesWritten
    <3>4. Greeted(e)' <=> Greeted(e)
      BY <3>1, <3>2 DEF Greeted, HandshakeFlies, Handshake
    <3> QED BY <3>2, <3>3, <3>4 DEF WriterStays, BodyFlies
  <2>8. CASE RunPosted(x) /\ e # x
    <3>1. UNCHANGED <<writing[e], out[e], posts[e], sent, started, reading>>
      BY <1>0, <2>8 DEF RunPosted
    <3> QED BY <1>k, <3>1
  <2>9. CASE Writer(x) /\ e # x
    <3>1. /\ UNCHANGED <<writing[e], out[e], posts, sent, started>>
          /\ reading'[e] = reading[e]
      BY <1>0, <2>9 DEF Writer, ValidationWritten, HeaderWritten, MessageWritten
    <3> QED BY <1>k, <3>1
  <2>10. CASE WriteFail(x) \/ ReadFail(x)
    <3>1. CASE e = x
      <4>1. ~open'[e]
        BY <1>0, <2>10, <3>1 DEF WriteFail, ReadFail
      <4> QED BY <4>1 DEF WriterStays
    <3>2. CASE e # x
      <4>1. UNCHANGED <<writing[e], out, posts, sent, started, reading[e]>>
        BY <1>0, <2>10, <3>2 DEF WriteFail, ReadFail
      <4> QED BY <1>k, <4>1
    <3> QED BY <3>1, <3>2
  <2>11. CASE HeaderRead(x) \/ BareRead(x) \/ BodyRead(x)
    <3>1. UNCHANGED <<writing, out, posts, sent, started>>
      BY <2>11 DEF HeaderRead, BareRead, BodyRead
    <3>2. reads2(e) <=> reads(e)
      BY <1>0, <2>11 DEF HeaderRead, BareRead, BodyRead, Got, AddToIncomingMessageQueue
    <3> QED BY <1>k, <3>1, <3>2
  <2>12. Writer(x) => e # x
    OBVIOUS
  <2> QED BY <1>2, <2>1, <2>2, <2>3, <2>4, <2>5, <2>6, <2>7, <2>8, <2>9, <2>10, <2>11, <2>12,
             EndsFacts DEF Handler, Writer
<1>3. ASSUME NEW x \in Ends, NEW m \in Messages, Send(x, m) PROVE WriterStays(e)
  <2>1. UNCHANGED <<writing, reading, started>>
    BY <1>3 DEF Send
  <2>2. MessagesWritten(e)' = MessagesWritten(e)
    BY <1>s, <1>3 DEF Send
  <2> QED BY <2>1, <2>2 DEF WriterStays, Greeted, HandshakeFlies, BodyFlies
<1> QED BY <1>1, <1>2, <1>3 DEF Next

LEMMA ReaderStaysKept ==
  ASSUME NEW p \in Ends, in'[p] = in[p], reading'[p] = reading[p], started'[p] <=> started[p]
  PROVE  ReaderStays(p)
BY DEF ReaderStays, Awaits

LEMMA ReaderStaysNext ==
  ASSUME ConnectionInv, [Next]_vars, NEW p \in Ends, ~Reader(p)
  PROVE  ReaderStays(p)
<1>0. /\ open \in [Ends -> BOOLEAN] /\ started \in [Ends -> BOOLEAN]
      /\ reading \in [Ends -> {"validation", "header", "body", "none"}]
      /\ in \in [Ends -> Seq(Messages)]
  BY DEF ConnectionInv, TypeOK
<1>n. reading[p] # "none" => started[p]
  BY DEF ConnectionInv, ReadsStarted
<1> USE DEF link, inbound, queues, received
<1>k. ASSUME in'[p] = in[p], reading'[p] = reading[p], started'[p] <=> started[p]
      PROVE  ReaderStays(p)
  BY <1>k, ReaderStaysKept
<1>1. CASE Establish \/ Refuse \/ Lose \/ Exit \/ UNCHANGED vars
  <2>1. UNCHANGED <<in, reading, started>>
    BY <1>1 DEF Establish, Refuse, Lose, Exit, vars
  <2> QED BY <1>k, <2>1
<1>2. ASSUME NEW e \in Ends, Handler(e) PROVE ReaderStays(p)
  <2>1. CASE ConnectHandler /\ p = "client"
    <3>1. /\ ~started[p] /\ UNCHANGED <<in, tcp>>
          /\ tcp # "refused" => reading'[p] = "validation"
      BY <1>0, <2>1 DEF ConnectHandler
    <3>2. reading[p] = "none"
      BY <1>n, <3>1
    <3>3. tcp' # "refused" => Awaits(p) /\ Awaits(p)'
      BY <2>1, <3>1 DEF Awaits
    <3> QED BY <3>3 DEF ReaderStays
  <2>2. CASE AcceptHandler /\ p = "server"
    <3>1. ~started[p] /\ reading'[p] = "validation"
      BY <1>0, <2>2 DEF AcceptHandler, ConnectToClient
    <3>2. reading[p] = "none"
      BY <1>n, <3>1
    <3>3. Awaits(p) /\ Awaits(p)'
      BY <2>2, <3>1, <3>2, EndsFacts DEF Awaits
    <3> QED BY <3>3 DEF ReaderStays
  <2>3. CASE ConnectHandler /\ p # "client"
    BY <1>0, <1>k, <2>3 DEF ConnectHandler
  <2>4. CASE AcceptHandler /\ p # "server"
    BY <1>0, <1>k, <2>4 DEF AcceptHandler, ConnectToClient
  <2>5. CASE \/ ContextReturns \/ AcceptThrows
             \/ RunPosted(e) \/ HeaderWritten(e) \/ MessageWritten(e) \/ WriteFail(e)
    BY <1>k, <2>5
    DEF ContextReturns, AcceptThrows, RunPosted, HeaderWritten, MessageWritten, WriteFail
  <2>6. CASE ValidationWritten(e)
    <3>1. CASE p = e /\ p = "client"
      <4>1. open[p] /\ writing[p] # <<>> /\ ~IsPart(Head(writing[p]))
        BY <2>6, <3>1 DEF ValidationWritten, Written, IsPart
      <4>2. started[p] /\ reading[p] = "none"
        BY <3>1, <4>1, WritesFront DEF ConnectionInv, AnswerAlone
      <4>3. reading'[p] = "header" /\ UNCHANGED <<in, started>>
        BY <1>0, <2>6, <3>1 DEF ValidationWritten
      <4> QED BY <3>1, <4>2, <4>3 DEF ReaderStays, Awaits
    <3>2. CASE ~(p = e /\ p = "client")
      BY <1>0, <1>k, <2>6, <3>2 DEF ValidationWritten
    <3> QED BY <3>1, <3>2
  <2>7. CASE p # e /\ (HeaderRead(e) \/ BareRead(e) \/ BodyRead(e) \/ ReadFail(e))
    BY <1>0, <1>k, <2>7
    DEF HeaderRead, BareRead, BodyRead, ReadFail, AddToIncomingMessageQueue
  <2>8. CASE ReadFail(p)
    <3>1. started' = started /\ reading[p] # "none" /\ reading'[p] = "none" /\ ~open'[p]
      BY <1>0, <2>8 DEF ReadFail
    <3>2. ~Alive(p)'
      BY <1>n, <3>1 DEF Alive
    <3> QED BY <3>2 DEF ReaderStays
  <2>9. CASE p # "client" /\ SolvePuzzle
    BY <1>0, <1>k, <2>9 DEF SolvePuzzle
  <2>10. CASE p # "server" /\ (AcceptAnswer \/ RejectAnswer)
    BY <1>0, <1>k, <2>10 DEF AcceptAnswer, RejectAnswer
  <2>11. HeaderRead(e) \/ BareRead(e) \/ BodyRead(e) => p # e
    BY DEF Reader
  <2>12. /\ SolvePuzzle => p # "client"
         /\ AcceptAnswer \/ RejectAnswer => p # "server"
    BY DEF Reader
  <2> QED BY <1>2, <2>1, <2>2, <2>3, <2>4, <2>5, <2>6, <2>7, <2>8, <2>9, <2>10, <2>11, <2>12
          DEF Handler
<1>3. ASSUME NEW e \in Ends, NEW m \in Messages, Send(e, m) PROVE ReaderStays(p)
  BY <1>k, <1>3 DEF Send
<1> QED BY <1>1, <1>2, <1>3 DEF Next

\* Nothing has moved on the way to p.
LEMMA FollowsKept ==
  ASSUME ConnectionInv, [Next]_vars, NEW p \in Ends, stream'[p] = stream[p],
         ReaderStays(p), WriterStays(Peer(p))
  PROVE  Follows(p)'
<1> DEFINE e == Peer(p)
<1> SUFFICES ASSUME tcp' # "refused", Alive(p)', ~TurnsAway(p)'
             PROVE  \E to \in Cursor : Leads(p, to)'
  BY DEF Follows
<1>1. e \in Ends /\ Alive(p) /\ tcp # "refused" /\ (Awaits(p)' <=> Awaits(p))
  BY EndsFacts, WaitsBefore, OpenBefore DEF ConnectionInv, ReaderStays
<1>2. ~TurnsAway(p)
  BY <1>1 DEF TurnsAway
<1>3. PICK to \in Cursor : Leads(p, to)
  BY <1>1, <1>2 DEF ConnectionInv, Streams, Follows
<1>4. stream[p] \in Seq(Units) /\ ReadCursor(p)' = ReadCursor(p)
  BY EndTypes, StaysCursor DEF ConnectionInv
<1>5. Path(sent'[e], Handshake(e), stream'[p], ReadCursor(p)', to)
  BY <1>1, <1>3, <1>4, SentKept DEF ConnectionInv, Leads
<1>6. ASSUME open'[p], open'[e]
      PROVE  /\ to = WriteCursor(e)'
             /\ ~Greeted(e)' => MessagesWritten(e)' = 0 /\ ~BodyFlies(e)'
  <2>1. open[p] /\ open[e]
    BY <1>1, <1>6, OpenBefore DEF ConnectionInv
  <2>2. to = WriteCursor(e) /\ (~Greeted(e) => MessagesWritten(e) = 0 /\ ~BodyFlies(e))
    BY <1>3, <2>1 DEF Leads
  <2>3. WriteCursor(e)' = WriteCursor(e)
    BY <1>1, <1>6, StaysCursor
  <2> QED BY <1>6, <2>2, <2>3 DEF WriterStays
<1>7. Leads(p, to)'
  BY <1>5, <1>6 DEF Leads
<1> QED BY <1>7

\* End p has read the next unit.
LEMMA FollowsRead ==
  ASSUME ConnectionInv, [Next]_vars, NEW p \in Ends, reading[p] # "none",
         stream[p] # <<>>, ~TurnsAway(p), stream'[p] = Tail(stream[p]),
         ReadCursor(p)' = NextCursor(sent[Peer(p)], ReadCursor(p)), WriterStays(Peer(p))
  PROVE  Follows(p)'
<1> DEFINE e == Peer(p)
           next == NextCursor(sent[e], ReadCursor(p))
<1>1. PICK to \in Cursor : Leads(p, to)
  BY TakesExpected
<1>2. /\ e \in Ends /\ stream[p] \in Seq(Units) /\ sent[e] \in Seq(Messages)
      /\ ReadCursor(p) \in Cursor
  BY EndsFacts, EndTypes, CursorTypes DEF ConnectionInv
<1>3. Path(sent[e], Handshake(e), stream[p], ReadCursor(p), to)
  BY <1>1 DEF Leads
<1>4. Path(sent[e], Handshake(e), Tail(stream[p]), next, to)
  BY <1>2, <1>3, PathHead
<1>5. Path(sent'[e], Handshake(e), Tail(stream[p]), next, to)
  <2>1. Tail(stream[p]) \in Seq(Units)
    BY <1>2, HeadTailProperties
  <2> QED BY <1>2, <1>4, <2>1, SentKept DEF ConnectionInv
<1>6. ASSUME open'[p], open'[e]
      PROVE  /\ to = WriteCursor(e)'
             /\ ~Greeted(e)' => MessagesWritten(e)' = 0 /\ ~BodyFlies(e)'
  <2>1. open[p] /\ open[e]
    BY <1>2, <1>6, OpenBefore DEF ConnectionInv
  <2>2. to = WriteCursor(e) /\ (~Greeted(e) => MessagesWritten(e) = 0 /\ ~BodyFlies(e))
    BY <1>1, <2>1 DEF Leads
  <2>3. WriteCursor(e)' = WriteCursor(e)
    BY <1>2, <1>6, StaysCursor
  <2> QED BY <1>6, <2>2, <2>3 DEF WriterStays
<1>7. Leads(p, to)'
  BY <1>5, <1>6 DEF Leads
<1> QED BY <1>7 DEF Follows

\* End e has written a unit: its peer has it before it if it waits for the
\* handshake and gets a message, and otherwise follows it.
LEMMA FollowsWrite ==
  ASSUME ConnectionInv, [Next]_vars, NEW p \in Ends, NEW u \in Units,
         open[Peer(p)], tcp = "up", open'[p] <=> open[p],
         stream'[p] = IF open[p] THEN Append(stream[p], u) ELSE stream[p],
         ReaderStays(p),
         open[p] /\ (\E to \in Cursor : Leads(p, to)) =>
           \/ /\ Matches(sent[Peer(p)], Handshake(Peer(p)), u, WriteCursor(Peer(p)))
              /\ WriteCursor(Peer(p))' = NextCursor(sent[Peer(p)], WriteCursor(Peer(p)))
              /\ Greeted(Peer(p))'
           \/ p = "server" /\ ~Greeted(Peer(p)) /\ u.kind # "answer"
  PROVE  Follows(p)'
<1> DEFINE e == Peer(p)
           q == sent[e]
           h == Handshake(e)
<1>a. open[p] /\ (\E to \in Cursor : Leads(p, to)) =>
        \/ /\ Matches(q, h, u, WriteCursor(e)) /\ Greeted(e)'
           /\ WriteCursor(e)' = NextCursor(q, WriteCursor(e))
        \/ p = "server" /\ ~Greeted(e) /\ u.kind # "answer"
  OBVIOUS
<1> SUFFICES ASSUME tcp' # "refused", Alive(p)', ~TurnsAway(p)'
             PROVE  \E to \in Cursor : Leads(p, to)'
  BY DEF Follows
<1>1. e \in Ends /\ Alive(p) /\ tcp # "refused" /\ (Awaits(p)' <=> Awaits(p))
  BY EndsFacts, WaitsBefore DEF ReaderStays
<1>2. /\ stream[p] \in Seq(Units) /\ q \in Seq(Messages) /\ ReadCursor(p) \in Cursor
      /\ WriteCursor(e) \in Cursor /\ NextCursor(q, WriteCursor(e)) \in Cursor
      /\ ReadCursor(p)' = ReadCursor(p)
  BY <1>1, EndTypes, CursorTypes, CursorFacts, StaysCursor DEF ConnectionInv
<1>h. stream[p] # <<>> => stream'[p] # <<>> /\ Head(stream'[p]) = Head(stream[p])
  <2>1. ASSUME stream[p] # <<>>
        PROVE  Append(stream[p], u) # <<>> /\ Head(Append(stream[p], u)) = Head(stream[p])
    <3>1. /\ Append(stream[p], u) \in Seq(Units) /\ Append(stream[p], u) # <<>>
          /\ 1 \in 1..Len(stream[p]) /\ Append(stream[p], u)[1] = stream[p][1]
      BY <1>2, <2>1, AppendProperties, LenProperties, EmptySeq
    <3>2. \A s \in Seq(Units) : s # <<>> => Head(s) = s[1]
      OBVIOUS
    <3> QED BY <1>2, <2>1, <3>1, <3>2
  <2> QED BY <2>1
<1>3. ~TurnsAway(p)
  BY <1>1, <1>h DEF TurnsAway
<1>4. PICK to \in Cursor : Leads(p, to)
  BY <1>1, <1>3 DEF ConnectionInv, Streams, Follows
<1>5. Path(q, h, stream[p], ReadCursor(p), to)
  BY <1>4 DEF Leads
<1> HIDE DEF q, h
<1>m. \A s \in Seq(Units) : \A from, til :
        Path(q, h, s, from, til) => Path(sent'[e], Handshake(e), s, from, til)
  BY <1>1, SentKept DEF ConnectionInv, q, h
<1>6. CASE ~open[p]
  <2>1. Path(sent'[e], Handshake(e), stream'[p], ReadCursor(p)', to)
    BY <1>2, <1>5, <1>6, <1>m
  <2>2. Leads(p, to)'
    BY <1>6, <2>1 DEF Leads
  <2> QED BY <2>2
<1>7. CASE open[p]
  <2>1. stream'[p] = Append(stream[p], u) /\ to = WriteCursor(e)
    BY <1>4, <1>7 DEF Leads
  <2>2. CASE /\ Matches(q, h, u, WriteCursor(e)) /\ Greeted(e)'
             /\ WriteCursor(e)' = NextCursor(q, WriteCursor(e))
    <3>1. Path(q, h, Append(stream[p], u), ReadCursor(p), NextCursor(q, WriteCursor(e)))
      BY <1>2, <1>5, <2>1, <2>2, PathAppend
    <3>2. Append(stream[p], u) \in Seq(Units)
      BY <1>2, AppendProperties
    <3>3. Path(sent'[e], Handshake(e), stream'[p], ReadCursor(p)', WriteCursor(e)')
      BY <1>2, <1>m, <2>1, <2>2, <3>1, <3>2
    <3>4. PICK c \in Cursor : c = NextCursor(q, WriteCursor(e))
      BY <1>2
    <3>5. c = WriteCursor(e)' /\ Path(sent'[e], Handshake(e), stream'[p], ReadCursor(p)', c)
      BY <2>2, <3>3, <3>4
    <3>6. Leads(p, c)'
      BY <2>2, <3>5 DEF Leads
    <3> QED BY <3>6
  <2>3. CASE p = "server" /\ ~Greeted(e) /\ u.kind # "answer"
    <3>1. Path(q, h, stream[p], ReadCursor(p), Start)
      BY <1>5, <2>1, <2>3 DEF WriteCursor
    <3>2. stream[p] = <<>> /\ ReadCursor(p) = Start
      BY <1>2, <3>1, PathToStart
    <3>3. Awaits(p)
      BY <3>2, CursorFacts DEF ReadCursor, Start
    <3>4. stream'[p] # <<>> /\ Head(stream'[p]) = u
      <4>1. \A x \in Units : Append(<<>>, x) # <<>> /\ Head(Append(<<>>, x)) = x
        OBVIOUS
      <4> QED BY <2>1, <3>2, <4>1
    <3>5. TurnsAway(p)'
      BY <1>1, <2>3, <3>3, <3>4 DEF TurnsAway
    <3> QED BY <3>5
  <2> QED BY <1>4, <1>7, <1>a, <2>2, <2>3 DEF q, h
<1> QED BY <1>6, <1>7

\* The unit of the handshake is written when it is all that may be, and leads to
\* the first header.
LEMMA WritesHandshake ==
  ASSUME ConnectionInv, [Next]_vars, NEW e \in Ends, ValidationWritten(e)
  PROVE  Follows(Peer(e))'
<1> DEFINE p == Peer(e)
           u == Head(writing[e])
<1>0. /\ writing \in [Ends -> Seq(Units)] /\ stream \in [Ends -> Seq(Units)]
      /\ reading \in [Ends -> {"validation", "header", "body", "none"}]
      /\ p \in Ends /\ Peer(p) = e /\ p # e
  BY EndsFacts DEF ConnectionInv, TypeOK
<1>1. /\ open[e] /\ tcp = "up" /\ writing[e] # <<>> /\ ~IsPart(u)
      /\ stream'[p] = IF open[p] THEN Append(stream[p], u) ELSE stream[p]
      /\ writing'[e] = Tail(writing[e])
      /\ UNCHANGED <<open, started, sent, out, posts>>
      /\ reading'[p] = reading[p] /\ (e = "client" => reading'[e] = "header")
  BY <1>0 DEF ValidationWritten, Written, IsPart, link
<1>2. /\ Orderly(writing[e], Handshake(e), out[e]) /\ u \in Units
      /\ u.kind = Handshake(e) /\ HandshakeFlies(e) /\ (started["server"] \/ e = "client")
  BY <1>1, WritesFront
<1>3. ~Greeted(e)
  <2>1. e = "client" => reading[e] = "none"
    BY <1>1, <1>2 DEF ConnectionInv, AnswerAlone
  <2> QED BY <1>2, <2>1 DEF Greeted
<1>4. ~HandshakeFlies(e)' /\ (BodyFlies(e)' <=> BodyFlies(e))
  BY <1>0, <1>1, <1>2, OrderlyStarted DEF HandshakeFlies, BodyFlies
<1>5. Greeted(e)'
  BY <1>1, <1>2, <1>4, EndsFacts DEF Greeted
<1>6. MessagesWritten(e)' = MessagesWritten(e) /\ MessagesWritten(e) \in Nat
  BY <1>1, CursorTypes DEF MessagesWritten, ConnectionInv
<1>7. ReaderStays(p)
  BY <1>0, <1>1, ReaderStaysKept DEF ValidationWritten, received
<1>8. ASSUME open[p], NEW to \in Cursor, Leads(p, to)
      PROVE  /\ Matches(sent[e], Handshake(e), u, WriteCursor(e))
             /\ WriteCursor(e)' = NextCursor(sent[e], WriteCursor(e))
  <2>1. WriteCursor(e) = Start /\ MessagesWritten(e) = 0 /\ ~BodyFlies(e)
    BY <1>0, <1>1, <1>3, <1>8 DEF Leads, WriteCursor
  <2>2. WriteCursor(e)' = <<"header", 1>>
    BY <1>4, <1>5, <1>6, <2>1 DEF WriteCursor
  <2>3. NextCursor(sent[e], Start) = <<"header", 1>>
    BY EndTypes, CursorFacts DEF ConnectionInv
  <2> QED BY <1>2, <2>1, <2>2, <2>3 DEF Matches
<1> HIDE DEF p, u
<1>9. Follows(p)'
  BY <1>0, <1>1, <1>2, <1>5, <1>7, <1>8, FollowsWrite
<1> QED BY <1>9 DEF p

\* A part of a message is written when the writer is at it, or by a client that
\* did not wait for the puzzle.
LEMMA WritesPart ==
  ASSUME ConnectionInv, [Next]_vars, NEW e \in Ends,
         HeaderWritten(e) \/ MessageWritten(e)
  PROVE  Follows(Peer(e))'
<1> DEFINE p == Peer(e)
           u == Head(writing[e])
           q == sent[e]
           n == MessagesWritten(e)
<1>0. /\ writing \in [Ends -> Seq(Units)] /\ stream \in [Ends -> Seq(Units)]
      /\ out \in [Ends -> Seq(Messages)] /\ posts \in [Ends -> Seq(Messages)]
      /\ sent \in [Ends -> Seq(Messages)] /\ Queued(sent[e], out[e], posts[e])
      /\ p \in Ends /\ Peer(p) = e /\ p # e
  BY EndsFacts DEF ConnectionInv, TypeOK, Queues
<1>1. /\ open[e] /\ tcp = "up" /\ writing[e] # <<>> /\ IsPart(u)
      /\ stream'[p] = IF open[p] THEN Append(stream[p], u) ELSE stream[p]
      /\ UNCHANGED <<open, started, sent, posts, in, reading>>
  BY <1>0 DEF HeaderWritten, MessageWritten, Written, IsPart, link, received
<1>2. /\ Orderly(writing[e], Handshake(e), out[e]) /\ u \in Units
      /\ started["server"] \/ e = "client"
      /\ out[e] # <<>> /\ u.msg = Head(out[e])
      /\ u.kind = "body" => Head(out[e]) \in Bodied
  BY <1>1, WritesFront
<1>3. /\ n \in Nat /\ n + 1 \in DOMAIN q /\ q[n+1] = Head(out[e])
      /\ Done(sent[e], Tail(out[e]), posts[e]) = n + 1
  BY <1>0, <1>2, QueuedWrite DEF MessagesWritten
<1>4. Handshake(e) \notin {"header", "body"} /\ "body" # "header"
  BY Handshakes
<1>5. /\ HandshakeFlies(e) <=> Has(Tail(writing[e]), Handshake(e))
      /\ ~Has(Tail(writing[e]), "body")
      /\ BodyFlies(e) <=> u.kind = "body"
      /\ Tail(writing[e]) \in Seq(Units)
  BY <1>0, <1>1, <1>2, <1>4, OrderlyPart, TailWrite DEF HandshakeFlies, BodyFlies
<1> DEFINE bodyPart == Unit("body", Head(out[e]))
\* How the write changes where the writer is.
<1>6. /\ HandshakeFlies(e)' <=> HandshakeFlies(e)
      /\ \/ /\ u.kind = "header" /\ Head(out[e]) \in Bodied
            /\ BodyFlies(e)' /\ MessagesWritten(e)' = n
         \/ /\ u.kind = "header" => Head(out[e]) \in Bare
            /\ ~BodyFlies(e)' /\ MessagesWritten(e)' = n + 1
  <2>1. CASE HeaderWritten(e)
    <3>1. /\ writing'[e] = Append(Tail(writing[e]), bodyPart) /\ out' = out
          /\ u.kind = "header" /\ Head(out[e]) \in Bodied
      BY <1>0, <2>1 DEF HeaderWritten, Written
    <3>2. bodyPart \in Units /\ bodyPart.kind = "body" /\ bodyPart.kind # Handshake(e)
      BY <1>4, <3>1, UnitFacts, MessageFacts DEF Unit
    <3> HIDE DEF bodyPart
    <3>a. Has(Append(Tail(writing[e]), bodyPart), "body")
      BY <1>5, <3>2, HasAppend
    <3>b. Has(Append(Tail(writing[e]), bodyPart), Handshake(e)) <=> Has(Tail(writing[e]), Handshake(e))
      BY <1>5, <3>2, HasAppend
    <3>3. Has(writing'[e], "body")
      BY <3>1, <3>a
    <3>4. Has(writing'[e], Handshake(e)) <=> Has(Tail(writing[e]), Handshake(e))
      BY <3>1, <3>b
    <3> QED BY <1>1, <1>5, <3>1, <3>3, <3>4 DEF HandshakeFlies, BodyFlies, MessagesWritten
  <2>2. CASE MessageWritten(e)
    <3> DEFINE rest == Tail(out[e])
    <3>1. /\ writing'[e] = Tail(writing[e]) \o HeaderOf(rest) /\ out'[e] = rest
          /\ u.kind = "header" => Head(out[e]) \in Bare
      BY <1>0, <2>2 DEF MessageWritten, Written
    <3>2. rest \in Seq(Messages)
      BY <1>0, <1>2, HeadTailProperties
    <3>3. MessagesWritten(e)' = n + 1
      BY <1>1, <1>3, <3>1 DEF MessagesWritten
    <3> HIDE DEF rest
    <3>4. ~Has(writing'[e], "body")
      BY <1>5, <3>1, <3>2, BodyFliesHeader
    <3>5. Has(writing'[e], Handshake(e)) <=> Has(Tail(writing[e]), Handshake(e))
      <4>1. CASE rest = <<>>
        <5>1. writing'[e] = Tail(writing[e])
          BY <1>5, <3>1, <3>2, <4>1, HeaderAppended
        <5> QED BY <5>1
      <4>2. CASE rest # <<>>
        <5>1. Unit("header", Head(rest)) \in Units
          BY <3>2, <4>2, HeadTailProperties, UnitFacts
        <5>2. Unit("header", Head(rest)).kind # Handshake(e)
          BY <1>4 DEF Unit
        <5>3. writing'[e] = Append(Tail(writing[e]), Unit("header", Head(rest)))
          BY <1>5, <3>1, <3>2, <4>2, HeaderAppended
        <5>4. Has(Append(Tail(writing[e]), Unit("header", Head(rest))), Handshake(e))
                <=> Has(Tail(writing[e]), Handshake(e))
          BY <1>5, <5>1, <5>2, HasAppend
        <5> QED BY <5>3, <5>4
      <4> QED BY <4>1, <4>2
    <3> QED BY <1>5, <3>1, <3>3, <3>4, <3>5 DEF HandshakeFlies, BodyFlies
  <2> QED BY <2>1, <2>2
<1>7. Greeted(e)' <=> Greeted(e)
  BY <1>1, <1>6 DEF Greeted
<1>8. ~Greeted(e) => p = "server" /\ u.kind # "answer"
  <2>1. u.kind # "answer"
    BY <1>1 DEF IsPart
  <2>2. ASSUME e = "server" PROVE Greeted(e)
    <3>1. 1 \in DOMAIN writing[e] /\ writing[e][1] = u
      BY <1>0, <1>1, <1>2, FrontWrite
    <3>2. ~Has(writing[e], "puzzle")
      <4> SUFFICES ASSUME NEW i \in DOMAIN writing[e], writing[e][i].kind = "puzzle"
                   PROVE  FALSE
        BY DEF Has
      <4>1. i = 1
        BY <2>2 DEF ConnectionInv, PuzzleFirst, OnlyFirst
      <4> QED BY <1>1, <3>1, <4>1 DEF IsPart
    <3> QED BY <1>2, <2>2, <3>2, EndsFacts DEF Greeted, HandshakeFlies, Handshake
  <2> QED BY <2>1, <2>2, EndsFacts
<1>9. ASSUME Greeted(e)
      PROVE  /\ Matches(sent[e], Handshake(e), u, WriteCursor(e))
             /\ WriteCursor(e)' = NextCursor(sent[e], WriteCursor(e))
  <2>1. u.kind \in {"header", "body"}
    BY <1>1 DEF IsPart
  <2>2. WriteCursor(e) = <<u.kind, n + 1>>
    BY <1>5, <1>9, <2>1 DEF WriteCursor
  <2>3. WriteCursor(e)[1] = u.kind /\ WriteCursor(e)[2] = n + 1
    BY <2>2
  <2>4. Matches(sent[e], Handshake(e), u, WriteCursor(e))
    BY <1>2, <1>3, <2>1, <2>3 DEF Matches
  <2>5. WriteCursor(e)' = <<IF BodyFlies(e)' THEN "body" ELSE "header", MessagesWritten(e)' + 1>>
    BY <1>7, <1>9 DEF WriteCursor
  <2>6. CASE u.kind = "header" /\ Head(out[e]) \in Bodied
    <3>1. Head(out[e]) \notin Bare
      BY <2>6, MessageFacts
    <3>2. WriteCursor(e)' = <<"body", n + 1>>
      BY <1>6, <2>5, <2>6, <3>1
    <3> QED BY <1>3, <2>3, <2>4, <2>6, <3>2 DEF NextCursor
  <2>7. CASE ~(u.kind = "header" /\ Head(out[e]) \in Bodied)
    <3>1. WriteCursor(e)' = <<"header", (n + 1) + 1>>
      BY <1>6, <2>5, <2>7
    <3>2. NextCursor(sent[e], WriteCursor(e)) = <<"header", (n + 1) + 1>>
      BY <1>3, <2>3, <2>7 DEF NextCursor
    <3> QED BY <2>4, <3>1, <3>2
  <2> QED BY <2>6, <2>7
<1>10. ReaderStays(p)
  BY <1>0, <1>1, ReaderStaysKept
<1> HIDE DEF p, u
<1>11. Follows(p)'
  BY <1>0, <1>1, <1>2, <1>7, <1>8, <1>9, <1>10, FollowsWrite
<1> QED BY <1>11 DEF p

\* A unit is read in its place, or turned away.
LEMMA ReadsUnit ==
  ASSUME ConnectionInv, [Next]_vars, NEW p \in Ends, Reader(p)
  PROVE  Follows(p)'
<1> DEFINE e == Peer(p)
           u == Head(stream[p])
           n == Len(in[p])
<1>0. /\ stream \in [Ends -> Seq(Units)] /\ in \in [Ends -> Seq(Messages)]
      /\ reading \in [Ends -> {"validation", "header", "body", "none"}]
      /\ open \in [Ends -> BOOLEAN]
      /\ sent[e] \in Seq(Messages) /\ e \in Ends /\ e # p
  BY EndsFacts DEF ConnectionInv, TypeOK
<1> USE DEF link, inbound, queues, received
<1>1. /\ reading[p] # "none" /\ stream[p] # <<>> /\ stream'[p] = Tail(stream[p])
      /\ started' = started /\ open[p]
  <2>1. started' = started
    BY DEF Reader, HeaderRead, BareRead, BodyRead, SolvePuzzle, AcceptAnswer, RejectAnswer
  <2>2. \E what \in {"validation", "header", "body"} : Got(p, what)
    BY DEF Reader, HeaderRead, BareRead, BodyRead, SolvePuzzle, AcceptAnswer, RejectAnswer
  <2>3. ASSUME NEW what \in {"validation", "header", "body"}, Got(p, what)
        PROVE  /\ reading[p] # "none" /\ stream[p] # <<>> /\ open[p]
               /\ stream'[p] = Tail(stream[p])
    BY <1>0, <2>3 DEF Got
  <2> QED BY <2>1, <2>2, <2>3
<1>2. started[p] /\ started'[p]
  BY <1>1 DEF ConnectionInv, ReadsStarted
<1>3. WriterStays(e)
  <2>1. ~Writer(e)
    <3>1. ASSUME Writer(e)
          PROVE  /\ stream'[p] = Append(stream[p], Head(writing[e]))
                 /\ Head(writing[e]) \in Units
      <4>1. \E kinds \in {{"puzzle", "answer", "wrong"}, {"header"}, {"header", "body"}} :
               Written(e, kinds)
        BY <3>1 DEF Writer, ValidationWritten, HeaderWritten, MessageWritten
      <4>2. /\ open[e] /\ writing[e] # <<>>
            /\ stream' = [stream EXCEPT ![Peer(e)] =
                            IF open[Peer(e)] THEN Append(@, Head(writing[e])) ELSE @]
        BY <4>1 DEF Written
      <4>3. stream'[p] = Append(stream[p], Head(writing[e]))
        BY <1>0, <1>1, <4>2, EndsFacts
      <4> QED BY <1>0, <4>2, <4>3, WritesFront
    <3>2. \A x \in Units : Append(stream[p], x) # Tail(stream[p])
      <4>1. /\ Len(Tail(stream[p])) = Len(stream[p]) - 1 /\ Len(stream[p]) \in Nat
            /\ \A x \in Units : Len(Append(stream[p], x)) = Len(stream[p]) + 1
        BY <1>0, <1>1, HeadTailProperties, LenProperties, AppendProperties
      <4> QED BY <4>1
    <3> QED BY <1>1, <3>1, <3>2
  <2> QED BY <1>0, <2>1, WriterStaysNext
\* The next message's header or body.
<1>4. ASSUME reading[p] \in {"header", "body"}
      PROVE  /\ ~TurnsAway(p) /\ ~Awaits(p) /\ n \in Nat
             /\ n + 1 \in DOMAIN sent[e] /\ u.msg = sent[e][n+1]
             /\ ReadCursor(p) = <<reading[p], n + 1>>
             /\ ReadCursor(p)[1] = reading[p] /\ ReadCursor(p)[2] = n + 1
  <2>1. /\ ~TurnsAway(p) /\ ~Awaits(p)
        /\ n + 1 \in DOMAIN sent[e] /\ u.msg = sent[e][n+1]
    BY <1>1, <1>4, TakesMessage
  <2>2. ReadCursor(p) = <<reading[p], n + 1>>
    BY <1>4, <2>1 DEF ReadCursor
  <2> QED BY <1>0, <2>1, <2>2, LenProperties
<1>5. CASE HeaderRead(p)
  <2>1. /\ reading[p] = "header" /\ u.msg \in Bodied /\ reading'[p] = "body" /\ in' = in
    BY <1>0, <1>5 DEF HeaderRead, Got
  <2>2. ReadCursor(p)' = <<"body", n + 1>>
    BY <1>2, <2>1 DEF ReadCursor, Awaits
  <2>3. NextCursor(sent[e], ReadCursor(p)) = <<"body", n + 1>>
    BY <1>4, <2>1 DEF NextCursor
  <2> QED BY <1>1, <1>3, <1>4, <2>1, <2>2, <2>3, FollowsRead
<1>6. CASE BareRead(p) \/ BodyRead(p)
  <2>1. /\ reading[p] \in {"header", "body"} /\ reading'[p] = "header"
        /\ reading[p] = "header" => u.msg \in Bare
    BY <1>0, <1>6 DEF BareRead, BodyRead, Got, AddToIncomingMessageQueue
  <2>2. PICK m \in Messages : in'[p] = Append(in[p], m)
    <3>1. CASE BareRead(p)
      BY <1>0, <3>1, MessageFacts DEF BareRead, AddToIncomingMessageQueue
    <3>2. CASE BodyRead(p)
      <4>1. temporary[p] \in Messages /\ in'[p] = Append(in[p], temporary[p])
        BY <1>0, <3>2, MessageFacts
        DEF BodyRead, Got, AddToIncomingMessageQueue, ConnectionInv, HoldsBodied
      <4> QED BY <4>1
    <3> QED BY <1>6, <3>1, <3>2
  <2>3. Len(in'[p]) = n + 1
    BY <1>0, <2>2, AppendProperties
  <2>4. ReadCursor(p)' = <<"header", (n + 1) + 1>>
    BY <1>2, <2>1, <2>3, EndsFacts DEF ReadCursor, Awaits
  <2>5. NextCursor(sent[e], ReadCursor(p)) = <<"header", (n + 1) + 1>>
    BY <1>4, <2>1, MessageFacts DEF NextCursor
  <2> QED BY <1>1, <1>3, <1>4, <2>1, <2>4, <2>5, FollowsRead
\* The puzzle or its answer.
<1>7. ASSUME Awaits(p), ~TurnsAway(p), in' = in, ~Awaits(p)', reading'[p] # "body"
      PROVE  Follows(p)'
  <2>1. in[p] = <<>>
    BY <1>1, <1>7 DEF ConnectionInv, NothingYet, Alive
  <2>2. Len(in'[p]) + 1 = 1
    BY <1>7, <2>1, EmptySeq
  <2>3. ReadCursor(p) = Start /\ ReadCursor(p)' = <<"header", 1>>
    BY <1>7, <2>2 DEF ReadCursor
  <2>4. NextCursor(sent[e], Start) = <<"header", 1>>
    BY <1>0, CursorFacts
  <2> QED BY <1>1, <1>3, <1>7, <2>3, <2>4, FollowsRead
<1>8. CASE p = "client" /\ SolvePuzzle
  <2>1. reading[p] = "validation" /\ reading'[p] = "none" /\ in' = in
    BY <1>0, <1>8 DEF SolvePuzzle, Got
  <2>2. Awaits(p) /\ ~TurnsAway(p) /\ ~Awaits(p)'
    BY <1>2, <1>8, <2>1, EndsFacts DEF Awaits, TurnsAway
  <2> QED BY <1>7, <2>1, <2>2
<1>9. CASE p = "server" /\ AcceptAnswer
  <2>1. reading[p] = "validation" /\ reading'[p] = "header" /\ in' = in /\ u.kind = "answer"
    BY <1>0, <1>9 DEF AcceptAnswer, Got
  <2>2. Awaits(p) /\ ~TurnsAway(p) /\ ~Awaits(p)'
    BY <1>2, <1>9, <2>1, EndsFacts DEF Awaits, TurnsAway
  <2> QED BY <1>7, <2>1, <2>2
<1>10. CASE p = "server" /\ RejectAnswer
  <2>1. ~open'[p] /\ reading'[p] = "none"
    BY <1>0, <1>10 DEF RejectAnswer
  <2>2. ~Alive(p)'
    BY <1>2, <2>1 DEF Alive
  <2> QED BY <2>2 DEF Follows
<1> QED BY <1>5, <1>6, <1>8, <1>9, <1>10 DEF Reader

\* The other steps move nothing on the way to p.
LEMMA StreamStays ==
  ASSUME ConnectionInv, [Next]_vars, NEW p \in Ends, ~Reader(p), ~Writer(Peer(p))
  PROVE  stream'[p] = stream[p]
<1>0. stream \in [Ends -> Seq(Units)]
  BY DEF ConnectionInv, TypeOK
<1> USE DEF link, inbound, queues, received
<1>1. CASE Establish \/ Refuse \/ Lose \/ Exit \/ UNCHANGED vars
  BY <1>1 DEF Establish, Refuse, Lose, Exit, vars
<1>2. ASSUME NEW e \in Ends, Handler(e) PROVE stream'[p] = stream[p]
  <2>1. CASE ConnectHandler \/ ContextReturns \/ AcceptHandler \/ AcceptThrows
    BY <2>1 DEF ConnectHandler, ContextReturns, AcceptHandler, AcceptThrows
  <2>2. CASE RunPosted(e) \/ WriteFail(e) \/ ReadFail(e)
    BY <2>2 DEF RunPosted, WriteFail, ReadFail
  <2>3. CASE Writer(e)
    <3>1. e # Peer(p) /\ Peer(e) # p
      BY <2>3, EndsFacts
    <3> QED BY <1>0, <2>3, <3>1
        DEF Writer, ValidationWritten, HeaderWritten, MessageWritten, Written
  <2>4. CASE p # e /\ (HeaderRead(e) \/ BareRead(e) \/ BodyRead(e))
    BY <1>0, <2>4 DEF HeaderRead, BareRead, BodyRead, Got
  <2>5. CASE p # "client" /\ SolvePuzzle
    BY <1>0, <2>5 DEF SolvePuzzle, Got
  <2>6. CASE p # "server" /\ (AcceptAnswer \/ RejectAnswer)
    BY <1>0, <2>6 DEF AcceptAnswer, RejectAnswer, Got
  <2>7. /\ HeaderRead(e) \/ BareRead(e) \/ BodyRead(e) => p # e
        /\ SolvePuzzle => p # "client"
        /\ AcceptAnswer \/ RejectAnswer => p # "server"
    BY DEF Reader
  <2> QED BY <1>2, <2>1, <2>2, <2>3, <2>4, <2>5, <2>6, <2>7 DEF Handler, Writer
<1>3. ASSUME NEW e \in Ends, NEW m \in Messages, Send(e, m) PROVE stream'[p] = stream[p]
  BY <1>3 DEF Send
<1> QED BY <1>1, <1>2, <1>3 DEF Next

LEMMA StreamsNext ==
  ASSUME ConnectionInv, [Next]_vars
  PROVE  Streams'
<1> SUFFICES ASSUME NEW p \in Ends PROVE Follows(p)'
  BY DEF Streams
<1>0. Peer(p) \in Ends /\ Peer(Peer(p)) = p
  BY EndsFacts
<1>1. CASE Reader(p)
  BY <1>1, ReadsUnit
<1>2. CASE Writer(Peer(p))
  BY <1>0, <1>2, WritesHandshake, WritesPart DEF Writer
<1>3. CASE ~Reader(p) /\ ~Writer(Peer(p))
  BY <1>0, <1>3, StreamStays, ReaderStaysNext, WriterStaysNext, FollowsKept
<1> QED BY <1>1, <1>2, <1>3

LEMMA ConnectionInvNext == ConnectionInv /\ [Next]_vars => ConnectionInv'
<1> SUFFICES ASSUME ConnectionInv, [Next]_vars PROVE ConnectionInv'
  OBVIOUS
<1>1. TypeOK'
  <2>1. TypeFlags' /\ TypeMessages' /\ TypeBodies' /\ TypeUnits' /\ TypeReading'
    BY TypeFlagsNext, TypeMessagesNext, TypeBodiesNext, TypeUnitsNext, TypeReadingNext,
       TypeParts
    DEF ConnectionInv
  <2> QED
    BY <2>1
    DEF TypeOK, TypeFlags, TypeMessages, TypeBodies, Bodies, TypeUnits, TypeReading
<1>2. Writes' /\ HoldsBodied' /\ Arrivals' /\ HoldsNext'
  BY WritesNext, ReceptionNext
<1>3. ReadsStarted' /\ PuzzleFirst' /\ AnswerAlone' /\ Unconnected' /\ ReadsValidated'
  BY ReadsStartedNext, PuzzleFirstNext, AnswerAloneNext, UnconnectedNext, ReadsValidatedNext
<1>4. Queues' /\ BodiesKept' /\ NothingYet' /\ Streams'
  BY QueuesNext, BodiesKeptNext, NothingYetNext, StreamsNext
<1> QED BY <1>1, <1>2, <1>3, <1>4 DEF ConnectionInv

LEMMA ConnectionInvariance == Spec => []ConnectionInv
BY ConnectionInvInit, ConnectionInvNext, PTL DEF Spec

-----------------------------------------------------------------------------
(* The properties of the connection.                                       *)

\* Every variable of Connection has its type in every reachable state.
THEOREM ConnectionTypes == Spec => []TypeOK
<1>1. ConnectionInv => TypeOK
  BY DEF ConnectionInv
<1> QED BY <1>1, ConnectionInvariance, PTL

\* The messages an end receives are those the other passed to Send, in order,
\* without a gap or a repetition, wherever the connection fails, and those with a
\* body come with their own (net_connection.h:181-357).
THEOREM ConnectionInOrder == Spec => []ReceivedInOrder
<1>1. ConnectionInv => ReceivedInOrder
  <2> SUFFICES ASSUME ConnectionInv, NEW p \in Ends
               PROVE  /\ IsPrefix(in[p], sent[Peer(p)])
                      /\ Len(inBody[p]) = Len(in[p])
                      /\ \A i \in DOMAIN in[p] : in[p][i] \in Bodied => inBody[p][i] = in[p][i]
    BY DEF ReceivedInOrder
  <2>1. Arrived(in[p], sent[Peer(p)])
    BY DEF ConnectionInv, Arrivals
  <2>2. in[p] \in Seq(Messages) /\ sent[Peer(p)] \in Seq(Messages)
    BY EndsFacts, EndTypes DEF ConnectionInv
  <2>3. /\ Len(inBody[p]) = Len(in[p]) /\ DOMAIN in[p] = 1..Len(in[p])
        /\ \A i \in 1..Len(in[p]) : in[p][i] \in Bodied => inBody[p][i] = in[p][i]
    BY <2>2, LenProperties DEF ConnectionInv, BodiesKept, BodiesOf
  <2> QED BY <2>1, <2>2, <2>3, ArrivedIsPrefix
<1> QED BY <1>1, ConnectionInvariance, PTL

\* Every read takes a unit of the kind it was started for, but the server's read of
\* the answer, which checks it (net_connection.h:131, 183, 395).
THEOREM ConnectionInStep == Spec => []ReadersInStep
<1>1. ConnectionInv => ReadersInStep
  <2> SUFFICES ASSUME ConnectionInv, NEW e \in Ends, stream[e] # <<>>
               PROVE  /\ reading[e] \in {"header", "body"} => Head(stream[e]).kind = reading[e]
                      /\ reading[e] = "body" => Head(stream[e]).msg = temporary[e]
                      /\ e = "client" /\ reading[e] = "validation" =>
                           Head(stream[e]).kind = "puzzle"
    BY DEF ReadersInStep
  <2>1. ASSUME reading[e] \in {"header", "body"} PROVE Head(stream[e]).kind = reading[e]
    BY <2>1, TakesMessage
  <2>2. ASSUME reading[e] = "body" PROVE Head(stream[e]).msg = temporary[e]
    BY <2>2, TakesMessage DEF ConnectionInv, HoldsNext
  <2>3. ASSUME e = "client", reading[e] = "validation" PROVE Head(stream[e]).kind = "puzzle"
    BY <2>3, TakesPuzzle
  <2> QED BY <2>1, <2>2, <2>3
<1> QED BY <1>1, ConnectionInvariance, PTL

\* While a socket is open exactly one part of one message is being written if
\* there are messages to write, and it is the front one's, whose memory the write
\* refers to (net_connection.h:186-196, 209, 255).
THEOREM ConnectionFrontWritten == Spec => []FrontIsWritten
<1>1. ConnectionInv => FrontIsWritten
  <2> SUFFICES ASSUME ConnectionInv, NEW e \in Ends, open[e]
               PROVE  IF out[e] = <<>> THEN MessageWrites(e) = {}
                      ELSE \E i \in DOMAIN writing[e] :
                             MessageWrites(e) = {i} /\ writing[e][i].msg = Head(out[e])
    BY DEF FrontIsWritten
  <2>1. Orderly(writing[e], Handshake(e), out[e])
    BY DEF ConnectionInv, Writes
  <2>2. MessageWrites(e) = {i \in DOMAIN writing[e] : IsPart(writing[e][i])}
    BY DEF MessageWrites, IsPart
  <2>3. \A i \in MessageWrites(e) : out[e] # <<>> /\ writing[e][i].msg = Head(out[e])
    BY <2>1, <2>2 DEF Orderly
  <2>4. \A i, j \in MessageWrites(e) : i = j
    BY <2>1, <2>2 DEF Orderly
  <2>5. out[e] # <<>> => \E i \in DOMAIN writing[e] : i \in MessageWrites(e)
    BY <2>1, <2>2 DEF Orderly
  <2> QED BY <2>3, <2>4, <2>5
<1> QED BY <1>1, ConnectionInvariance, PTL

\* Nothing reaches the server's application before the answer was right, although
\* a client may send its first message where the answer should be
\* (net_connection.h:395-410).
THEOREM ConnectionValidated == Spec => []ValidatedFirst
<1>1. ConnectionInv => ValidatedFirst
  BY DEF ConnectionInv, ReadsValidated, ValidatedFirst
<1> QED BY <1>1, ConnectionInvariance, PTL

-----------------------------------------------------------------------------
(* Somebody always listens.                                                *)

\* A step that opens nothing and stops no operation leaves it so; of the handlers
\* that end one, each starts the next, closes the socket, or both.
LEMMA KeepsListeningNext ==
  ASSUME ConnectionInv, KeepsListening, [Next]_vars
  PROVE  KeepsListening'
<1> DEFINE answers == Has(writing["client"], "answer")
           answers2 == Has(writing'["client"], "answer")
<1> SUFFICES ASSUME NEW p \in Ends, started'[p], open'[p], tcp' # "refused"
             PROVE  reading'[p] # "none" \/ (p = "client" /\ answers2)
  BY DEF KeepsListening, Has
<1>0. /\ open \in [Ends -> BOOLEAN] /\ started \in [Ends -> BOOLEAN]
      /\ reading \in [Ends -> {"validation", "header", "body", "none"}]
      /\ writing \in [Ends -> Seq(Units)]
  BY DEF ConnectionInv, TypeOK
<1>l. started[p] /\ open[p] /\ tcp # "refused" =>
        reading[p] # "none" \/ (p = "client" /\ answers)
  BY DEF KeepsListening, Has
<1> USE DEF link, inbound, queues, received
<1>k. ASSUME started'[p] => started[p], open'[p] => open[p], tcp' = tcp \/ tcp = "connecting",
             reading[p] # "none" => reading'[p] # "none",
             p = "client" /\ answers => answers2 \/ reading'[p] # "none"
      PROVE  reading'[p] # "none" \/ (p = "client" /\ answers2)
  BY <1>l, <1>k
<1>1. CASE Establish \/ Refuse \/ Lose \/ Exit \/ UNCHANGED vars
  <2>1. CASE Lose
    BY <1>l, <2>1 DEF Lose
  <2>2. CASE Establish \/ Refuse \/ Exit \/ UNCHANGED vars
    BY <1>0, <1>k, <2>2, EndsFacts DEF Establish, Refuse, Exit, vars
  <2> QED BY <1>1, <2>1, <2>2
<1>2. ASSUME NEW e \in Ends, Handler(e) PROVE reading'[p] # "none" \/ (p = "client" /\ answers2)
  <2>1. CASE ConnectHandler
    <3>1. CASE p = "client"
      BY <1>0, <2>1, <3>1 DEF ConnectHandler
    <3>2. CASE p = "server"
      BY <1>0, <1>k, <2>1, <3>2, EndsFacts DEF ConnectHandler
    <3> QED BY <3>1, <3>2, EndsFacts
  <2>2. CASE AcceptHandler
    BY <1>0, <1>k, <2>2, EndsFacts DEF AcceptHandler, ConnectToClient
  <2>3. CASE ContextReturns
    BY <1>k, <2>3 DEF ContextReturns
  <2>4. CASE SolvePuzzle
    <3>1. CASE p = "client"
      <4> DEFINE u == Unit("answer", NoMsg)
                 w == writing["client"]
      <4>1. Scramble(Head(stream["client"])) = u
        BY <2>4, TakesPuzzle DEF SolvePuzzle, Got
      <4>2. writing'["client"] = Append(w, u) /\ w \in Seq(Units)
        BY <1>0, <2>4, <4>1, EndsFacts DEF SolvePuzzle
      <4>3. u \in Units /\ u.kind = "answer"
        BY DEF Unit, Units
      <4>4. Has(Append(w, u), "answer")
        <5> HIDE DEF u, w
        <5> QED BY <4>2, <4>3, HasAppend, Zenon
      <4> QED BY <3>1, <4>2, <4>4
    <3>2. CASE p = "server"
      BY <1>0, <1>k, <2>4, <3>2, EndsFacts DEF SolvePuzzle
    <3> QED BY <3>1, <3>2, EndsFacts
  <2>5. CASE AcceptThrows \/ AcceptAnswer \/ RejectAnswer
    BY <1>0, <1>k, <2>5, EndsFacts DEF AcceptThrows, AcceptAnswer, RejectAnswer
  <2>6. CASE RunPosted(e) \/ HeaderWritten(e) \/ MessageWritten(e)
    <3>1. UNCHANGED <<tcp, open, started, reading>>
      BY <2>6 DEF RunPosted, HeaderWritten, MessageWritten
    <3>2. p = "client" => (answers => answers2)
      <4>1. CASE e = "client"
        BY <2>6, <4>1, AnswerKept
      <4>2. CASE e = "server"
        BY <1>0, <2>6, <4>2, EndsFacts DEF RunPosted, HeaderWritten, MessageWritten
      <4> QED BY <4>1, <4>2, EndsFacts
    <3> QED BY <1>k, <3>1, <3>2
  <2>7. CASE ValidationWritten(e)
    <3>1. CASE e = "client"
      BY <1>0, <1>k, <2>7, <3>1, EndsFacts DEF ValidationWritten
    <3>2. CASE e = "server"
      BY <1>0, <1>k, <2>7, <3>2, EndsFacts DEF ValidationWritten
    <3> QED BY <3>1, <3>2, EndsFacts
  <2>8. CASE WriteFail(e) \/ ReadFail(e)
    <3>1. e # p
      BY <1>0, <2>8 DEF WriteFail, ReadFail
    <3>2. /\ UNCHANGED <<tcp, started>> /\ open'[p] = open[p]
          /\ reading'[p] = reading[p] /\ writing'[p] = writing[p]
      BY <1>0, <2>8, <3>1 DEF WriteFail, ReadFail
    <3> QED BY <1>k, <3>2
  <2>9. CASE HeaderRead(e) \/ BareRead(e) \/ BodyRead(e)
    BY <1>0, <1>k, <2>9 DEF HeaderRead, BareRead, BodyRead, AddToIncomingMessageQueue
  <2> QED BY <1>2, <2>1, <2>2, <2>3, <2>4, <2>5, <2>6, <2>7, <2>8, <2>9 DEF Handler
<1>3. ASSUME NEW e \in Ends, NEW m \in Messages, Send(e, m)
      PROVE  reading'[p] # "none" \/ (p = "client" /\ answers2)
  BY <1>k, <1>3 DEF Send
<1> QED BY <1>1, <1>2, <1>3 DEF Next

\* An open end that is connected always has an operation in flight that hears the
\* peer or notices that it has gone, whatever its two threads do in between
\* (net_connection.h:135, 154, 300, 356, 377, 402).
THEOREM ConnectionListens == Spec => []KeepsListening
<1>1. Init => KeepsListening
  BY DEF Init, KeepsListening
<1>2. ConnectionInv /\ KeepsListening /\ [Next]_vars => KeepsListening'
  BY KeepsListeningNext
<1> QED BY <1>1, <1>2, ConnectionInvariance, PTL DEF Spec

-----------------------------------------------------------------------------
(* The connection implements Dialogue.                                     *)

\* The accept handler posts the greeting before anybody can send by the connection.
GreetsFirst == started["server"] => sent["server"] # <<>>

\* What has been sent stays sent.
LEMMA GreetsFirstNext ==
  ASSUME TypeOK, GreetsFirst, [Next]_vars
  PROVE  GreetsFirst'
<1>0. /\ sent["server"] \in Seq(Messages) /\ started \in [Ends -> BOOLEAN]
      /\ sent \in [Ends -> Seq(Messages)]
  BY EndsFacts DEF TypeOK
<1> USE DEF link, inbound, queues, received
<1>a. \A m \in Messages : Append(sent["server"], m) # <<>>
  BY <1>0, AppendProperties, EmptySeq
<1>1. sent["server"] # <<>> => sent'["server"] # <<>>
  <2>1. \/ sent'["server"] = sent["server"]
        \/ \E m \in Messages : sent'["server"] = Append(sent["server"], m)
    BY EndsFacts, SentGrows
  <2> QED BY <1>a, <2>1
<1>2. CASE AcceptHandler
  BY <1>0, <1>a, <1>2, EndsFacts, MessageFacts DEF AcceptHandler, OnClientConnect, GreetsFirst
<1>3. ASSUME ~AcceptHandler PROVE started'["server"] = started["server"]
  BY <1>0, <1>3, EndsFacts
  DEF Next, Establish, Refuse, Lose, Exit, Handler, ConnectHandler, ContextReturns,
      SolvePuzzle, AcceptThrows, AcceptAnswer, RejectAnswer, RunPosted, ValidationWritten,
      HeaderWritten, MessageWritten, WriteFail, HeaderRead, BareRead, BodyRead,
      ReadFail, Send, vars
<1> QED BY <1>1, <1>2, <1>3 DEF GreetsFirst

\* A step that puts a message into an end's queue puts the one there that the
\* other end has sent next, with its body or the last.
LEMMA HearMaps ==
  ASSUME ConnectionInv, Arrivals', TypeOK', NEW e \in Ends, NEW m,
         in' = [in EXCEPT ![e] = Append(@, m)],
         inBody' = [inBody EXCEPT ![e] = Append(@, IF m \in Bodied THEN m ELSE D!LastBody(e))],
         UNCHANGED <<sent, validated>>, m \in Messages,
         reading[e] \in {"header", "body"}
  PROVE  D!Hear(e)
<1> DEFINE q == sent[Peer(e)]
           r == in[e]
<1>0. r \in Seq(Messages) /\ q \in Seq(Messages) /\ in \in [Ends -> Seq(Messages)]
  BY EndsFacts, EndTypes DEF ConnectionInv, TypeOK
<1>1. in'[e] = Append(r, m) /\ sent'[Peer(e)] = q
  BY <1>0
<1>2. Arrived(Append(r, m), q)
  BY <1>1 DEF Arrivals
<1>3. Len(r) < Len(q) /\ m = q[Len(r) + 1]
  <2>1. /\ Len(r) \in Nat /\ Len(q) \in Nat
        /\ Len(Append(r, m)) = Len(r) + 1 /\ Append(r, m)[Len(r) + 1] = m
    BY <1>0, LenProperties, AppendProperties
  <2> HIDE DEF q, r
  <2> QED BY <1>2, <2>1 DEF Arrived
<1>4. e = "server" => validated
  BY DEF ConnectionInv, ReadsValidated
<1>5. D!Peer(e) = Peer(e)
  BY DEF D!Peer, Peer
<1> QED BY <1>3, <1>4, <1>5 DEF D!Hear

\* Every step of the connection is one of Dialogue, or leaves its variables alone.
LEMMA DialogueStep ==
  ASSUME ConnectionInv, ConnectionInv', GreetsFirst, [Next]_vars
  PROVE  [D!DNext]_D!dvars
<1>0. /\ sent \in [Ends -> Seq(Messages)] /\ temporary \in [Ends -> Messages \cup {NoMsg}]
      /\ Ends = D!Ends
  BY DEF ConnectionInv, TypeOK, Ends, D!Ends
<1>i. TypeOK /\ TypeOK' /\ Arrivals'
  BY DEF ConnectionInv
<1>s. ASSUME UNCHANGED <<sent, received, validated>> PROVE [D!DNext]_D!dvars
  BY <1>s DEF D!dvars, D!heard, received
<1> USE DEF link, inbound, queues, received
<1>1. CASE Establish \/ Refuse \/ Lose \/ Exit \/ UNCHANGED vars
  BY <1>s, <1>1 DEF Establish, Refuse, Lose, Exit, vars
<1>2. ASSUME NEW e \in Ends, Handler(e) PROVE [D!DNext]_D!dvars
  <2>1. CASE ConnectHandler \/ ContextReturns \/ SolvePuzzle \/ AcceptThrows \/ RejectAnswer
    BY <1>s, <2>1 DEF ConnectHandler, ContextReturns, SolvePuzzle, AcceptThrows, RejectAnswer
  <2>2. CASE AcceptHandler
    <3>1. sent["server"] = <<>>
      BY <2>2 DEF AcceptHandler, ConnectionInv, PuzzleFirst
    <3>2. sent' = [sent EXCEPT !["server"] = <<ServerAccept>>] /\ UNCHANGED <<received, validated>>
      BY <2>2, <3>1 DEF AcceptHandler, OnClientConnect
    <3>3. D!Greet
      BY <3>1, <3>2 DEF D!Greet, D!heard
    <3> QED BY <3>3 DEF D!DNext
  <2>3. CASE AcceptAnswer
    <3>1. D!Admit \/ UNCHANGED <<sent, received, validated>>
      BY <1>i, <2>3 DEF AcceptAnswer, D!Admit, D!heard, TypeOK
    <3> QED BY <1>s, <3>1 DEF D!DNext
  <2>4. CASE RunPosted(e) \/ ValidationWritten(e) \/ HeaderWritten(e) \/ MessageWritten(e)
    BY <1>s, <2>4 DEF RunPosted, ValidationWritten, HeaderWritten, MessageWritten
  <2>5. CASE WriteFail(e) \/ ReadFail(e) \/ HeaderRead(e)
    BY <1>s, <2>5 DEF WriteFail, ReadFail, HeaderRead
  <2>6. CASE BareRead(e)
    <3> DEFINE m == Head(stream[e]).msg
    <3>1. /\ in' = [in EXCEPT ![e] = Append(@, m)] /\ UNCHANGED <<sent, validated>>
          /\ inBody' = [inBody EXCEPT ![e] = Append(@, body[e])]
          /\ m \in Messages /\ m \in Bare /\ reading[e] \in {"header", "body"}
      BY <2>6, MessageFacts DEF BareRead, Got, AddToIncomingMessageQueue
    <3>a. body[e] = D!LastBody(e)
      BY DEF ConnectionInv, BodiesKept, BodiesOf, D!LastBody
    <3> HIDE DEF m
    <3>b. m \notin Bodied
      BY <3>1, MessageFacts
    <3>c. body[e] = IF m \in Bodied THEN m ELSE D!LastBody(e)
      BY <3>a, <3>b
    <3>2. D!Hear(e)
      BY <1>i, <3>1, <3>c, HearMaps
    <3> QED BY <1>0, <3>2 DEF D!DNext
  <2>7. CASE BodyRead(e)
    <3> DEFINE m == temporary[e]
    <3>1. /\ in' = [in EXCEPT ![e] = Append(@, m)] /\ UNCHANGED <<sent, validated>>
          /\ inBody' = [inBody EXCEPT ![e] = Append(@, Head(stream[e]).msg)]
          /\ reading[e] = "body" /\ stream[e] # <<>>
      BY <2>7 DEF BodyRead, Got, AddToIncomingMessageQueue
    <3>2. m \in Messages /\ m \in Bodied
      BY <3>1, MessageFacts DEF ConnectionInv, HoldsBodied
    <3>a. Head(stream[e]).msg = m
      BY <3>1, TakesMessage DEF ConnectionInv, HoldsNext
    <3> HIDE DEF m
    <3>b. inBody' = [inBody EXCEPT ![e] = Append(@, IF m \in Bodied THEN m ELSE D!LastBody(e))]
      BY <3>1, <3>2, <3>a
    <3>3. D!Hear(e)
      BY <1>i, <3>1, <3>2, <3>b, HearMaps
    <3> QED BY <1>0, <3>3 DEF D!DNext
  <2> QED BY <1>2, <2>1, <2>2, <2>3, <2>4, <2>5, <2>6, <2>7 DEF Handler
<1>3. ASSUME NEW e \in Ends, NEW m \in Messages, Send(e, m) PROVE [D!DNext]_D!dvars
  <2>1. e = "server" => sent[e] # <<>>
    BY <1>3 DEF Send, GreetsFirst
  <2>2. D!Say(e, m)
    BY <1>3, <2>1 DEF Send, D!Say, D!heard
  <2> QED BY <1>0, <2>2 DEF D!DNext
<1> QED BY <1>1, <1>2, <1>3 DEF Next

\* Through handshake, queues, writes, units, reads and failures, and for any
\* messages, the connection does what Dialogue says (net_connection.h:181-426).
THEOREM ConnectionRefinement == Spec => ImplementsDialogue
<1>1. Init => D!DInit
  BY DEF Init, D!DInit, Ends, D!Ends
<1>2. Init => GreetsFirst
  BY EndsFacts DEF Init, GreetsFirst
<1>3. ConnectionInv /\ GreetsFirst /\ [Next]_vars => GreetsFirst'
  BY GreetsFirstNext DEF ConnectionInv
<1>4. ConnectionInv /\ ConnectionInv' /\ GreetsFirst /\ [Next]_vars => [D!DNext]_D!dvars
  BY DialogueStep
<1> QED
  BY <1>1, <1>2, <1>3, <1>4, ConnectionInvariance, PTL
  DEF Spec, ImplementsDialogue, D!DSpec
=============================================================================
