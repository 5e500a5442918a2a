---------------------------- MODULE ClientProofs ---------------------------
(***************************************************************************)
(* The client's safety properties, for whatever the user types, however    *)
(* many picks, and all strings.                                            *)
(***************************************************************************)
EXTENDS Client, MessageBodyProofs

-----------------------------------------------------------------------------
(* A pick is acted on twice at most.                                       *)

\* The rounds that may still act on the pick stored last: the one in progress,
\* if it has not come past the pick; the one its own news will start; the one
\* that gotnews, already set, will start.
InRound == mpc = "compare" /\ \E i \in at..Len(Menu) : usrpick = PickOf(i)
NewsToCome == tpc = "news"
RoundToCome == gotnews /\ mpc \in {"top", "connected"}

One(p) == IF p THEN 1 ELSE 0

Control ==
  /\ acts \in Nat /\ at \in 1..(Len(Menu) + 1)
  /\ gotnews \in BOOLEAN

Twice == acts + One(InRound) + One(NewsToCome) + One(RoundToCome) <= 2

\* The menu's picks are different numbers.
LEMMA MenuPicks ==
  /\ Len(Menu) = 8
  /\ \A i, j \in 1..8 : PickOf(i) = PickOf(j) => i = j
<1>1. Len(Menu) = 8
  BY DEF Menu
<1>2. \A i \in 1..8 : PickOf(i) = IF i = 8 THEN 0 ELSE i
  BY DEF Menu, PickOf
<1> QED BY <1>1, <1>2

LEMMA TwiceInit == Init => Control /\ Twice
<1> SUFFICES ASSUME Init PROVE Control /\ Twice
  OBVIOUS
<1>1. ~InRound /\ ~NewsToCome /\ ~RoundToCome
  BY DEF Init, InRound, NewsToCome, RoundToCome
<1>2. Control /\ acts = 0
  <2>1. 1 \in 1..(Len(Menu) + 1)
    BY MenuPicks
  <2> QED BY <2>1 DEF Init, Control
<1> QED BY <1>1, <1>2 DEF Twice, One

\* Steps that leave the pick, the comparisons and the news alone.
LEMMA TwiceKept ==
  ASSUME Control, Twice, UNCHANGED <<usrpick, gotnews, at, acts>>,
         mpc' = mpc \/ mpc' \notin {"top", "compare", "connected"}
                    \/ (mpc = "connected" /\ mpc' = "top"),
         tpc' = tpc \/ tpc' # "news"
  PROVE  Control' /\ Twice'
<1>1. InRound' => InRound
  BY DEF InRound
<1>2. NewsToCome' => NewsToCome
  BY DEF NewsToCome
<1>3. RoundToCome' => RoundToCome
  BY DEF RoundToCome
<1> QED BY <1>1, <1>2, <1>3 DEF Control, Twice, One

LEMMA TwiceNext == Control /\ Twice /\ [Next]_vars => Control' /\ Twice'
<1> SUFFICES ASSUME Control, Twice, [Next]_vars PROVE Control' /\ Twice'
  OBVIOUS
<1> USE DEF Control
<1>1. CASE CheckQuit
  BY <1>1, TwiceKept DEF CheckQuit, loop
<1>2. CASE ReadInput
  BY <1>2, TwiceKept DEF ReadInput, loop
<1>3. CASE ReadAgain
  BY <1>3, TwiceKept DEF ReadAgain, loop
<1>4. CASE StorePick
  <2>1. acts' = 0 /\ at' = at /\ gotnews' = gotnews /\ mpc' = mpc
    BY <1>4 DEF StorePick, loop
  <2>2. ~(InRound' /\ RoundToCome')
    BY DEF InRound, RoundToCome
  <2> QED BY <2>1, <2>2 DEF Twice, One
<1>5. CASE SetNews
  <2>1. /\ UNCHANGED <<usrpick, at, acts, mpc>> /\ gotnews' = TRUE
        /\ tpc = "news" /\ tpc' = "check"
    BY <1>5 DEF SetNews, loop
  <2>2. NewsToCome /\ ~NewsToCome'
    BY <2>1 DEF NewsToCome
  <2>3. InRound' <=> InRound
    BY <2>1 DEF InRound
  <2>4. ~(InRound /\ RoundToCome')
    BY <2>1 DEF InRound, RoundToCome
  <2> QED BY <2>1, <2>2, <2>3 DEF Twice, One
<1>6. CASE SendRun
  BY <1>6, TwiceKept DEF SendRun, reader
<1>7. CASE SendOverruns
  BY <1>7, TwiceKept DEF SendOverruns, reader
<1>8. CASE LookForNews
  <2>1. /\ UNCHANGED <<usrpick, gotnews, acts, tpc>> /\ mpc = "top"
        /\ \/ gotnews /\ mpc' = "compare" /\ at' = 1
           \/ ~gotnews /\ mpc' = "connected" /\ at' = at
    BY <1>8 DEF LookForNews, reader
  <2>2. ~InRound /\ (NewsToCome' <=> NewsToCome)
    BY <2>1 DEF InRound, NewsToCome
  <2>3. CASE gotnews
    <3>1. RoundToCome /\ ~RoundToCome' /\ at' = 1
      BY <2>1, <2>3 DEF RoundToCome
    <3> QED BY <2>1, <2>2, <3>1, MenuPicks DEF Twice, One
  <2>4. CASE ~gotnews
    <3>1. ~RoundToCome' /\ ~InRound'
      BY <2>1, <2>4 DEF RoundToCome, InRound
    <3> QED BY <2>1, <2>2, <2>4, <3>1 DEF Twice, One
  <2> QED BY <2>3, <2>4
<1>9. CASE Skip
  <2>1. /\ UNCHANGED <<usrpick, gotnews, acts, tpc, mpc>>
        /\ at <= Len(Menu) /\ at' = at + 1
    BY <1>9 DEF Skip, reader
  <2>2. InRound' => InRound
    BY <2>1, MenuPicks DEF InRound
  <2>3. (NewsToCome' <=> NewsToCome) /\ (RoundToCome' <=> RoundToCome)
    BY <2>1 DEF NewsToCome, RoundToCome
  <2> QED BY <2>1, <2>2, <2>3, MenuPicks DEF Twice, One
<1>10. CASE Act
  <2>1. /\ UNCHANGED <<usrpick, gotnews, tpc, mpc>> /\ mpc = "compare"
        /\ at <= Len(Menu) /\ at' = at + 1 /\ usrpick = PickOf(at) /\ acts' = acts + 1
    BY <1>10 DEF Act, reader
  <2>2. InRound
    BY <2>1, MenuPicks DEF InRound
  <2>3. ~InRound'
    <3> SUFFICES ASSUME NEW i \in (at + 1)..8, usrpick = PickOf(i) PROVE FALSE
      BY <2>1, MenuPicks DEF InRound
    <3>1. at \in 1..8 /\ i \in 1..8 /\ i # at
      BY <2>1, MenuPicks
    <3> QED BY <2>1, <3>1, MenuPicks
  <2>4. (NewsToCome' <=> NewsToCome) /\ ~RoundToCome'
    BY <2>1 DEF NewsToCome, RoundToCome
  <2> QED BY <2>1, <2>2, <2>3, <2>4, MenuPicks DEF Twice, One
<1>11. CASE Quit
  <2>1. /\ UNCHANGED <<usrpick, gotnews, tpc, at>> /\ mpc = "compare" /\ mpc' = "join"
        /\ at <= Len(Menu) /\ usrpick = PickOf(at) /\ acts' = acts + 1
    BY <1>11 DEF Quit, reader
  <2>2. InRound /\ ~InRound' /\ ~RoundToCome'
    BY <2>1, MenuPicks DEF InRound, RoundToCome
  <2>3. NewsToCome' <=> NewsToCome
    BY <2>1 DEF NewsToCome
  <2> QED BY <2>1, <2>2, <2>3 DEF Twice, One
<1>12. CASE ClearNews
  <2>1. /\ UNCHANGED <<usrpick, acts, tpc>> /\ gotnews' = FALSE
        /\ mpc' = "connected" /\ at' = 1
    BY <1>12 DEF ClearNews, reader
  <2>2. ~InRound' /\ ~RoundToCome' /\ (NewsToCome' <=> NewsToCome)
    BY <2>1 DEF InRound, RoundToCome, NewsToCome
  <2>3. 1 \in 1..(Len(Menu) + 1)
    BY MenuPicks
  <2>4. Control'
    BY <2>1, <2>3
  <2>5. Twice'
    BY <2>1, <2>2 DEF Twice, One
  <2> QED BY <2>4, <2>5
<1>13. CASE Show
  BY <1>13, TwiceKept DEF Show, reader
<1>14. CASE ServerDown
  BY <1>14, TwiceKept DEF ServerDown, reader
<1>15. CASE Join
  BY <1>15, TwiceKept DEF Join, reader
<1>16. CASE Disconnect
  BY <1>16, TwiceKept DEF Disconnect, reader
<1>17. CASE asio
  <2>1. UNCHANGED <<usrpick, gotnews, reader, loop, acts>>
    BY <1>17 DEF asio, Connected, Refused, ContextReturns, WriteFails, Lost, OnMessage, OnMessageThrows,
                 OtherMessagesAll
  <2> QED BY <2>1, TwiceKept DEF reader, loop
<1>18. CASE UNCHANGED vars
  BY <1>18, TwiceKept DEF vars, reader, loop
<1>19. get_userpick => \/ CheckQuit \/ ReadInput \/ ReadAgain \/ StorePick \/ SetNews
  BY DEF get_userpick
<1> QED
  BY <1>1, <1>2, <1>3, <1>4, <1>5, <1>6, <1>7, <1>8, <1>9, <1>10, <1>11, <1>12, <1>13,
     <1>14, <1>15, <1>16, <1>17, <1>18, <1>19 DEF Next, main

\* However often the user types, and whichever steps of the two threads come in
\* between, one pick is acted on twice at most (client.cpp:220-227, 327-350).
THEOREM PickActsAtMostTwice == Spec => []AtMostTwice
<1>1. Control /\ Twice => AtMostTwice
  BY DEF Control, Twice, AtMostTwice, One
<1> QED BY <1>1, TwiceInit, TwiceNext, PTL DEF Spec

-----------------------------------------------------------------------------
(* A pick is not forgotten.                                                *)

\* The pick in usrpick, stored while main compared none, has yet to be acted on.
Pending(i) == i \in 1..8 /\ usrpick = PickOf(i) /\ idle /\ acts = 0 /\ ~Ended

\* Its news is set or to come, and a round that has begun is not past it.
Announced ==
  \A i \in 1..8 : Pending(i) =>
    /\ gotnews \/ tpc = "news"
    /\ mpc = "compare" => at <= i

\* Steps that leave the pick and its news alone, and the comparisons.
LEMMA AnnouncedKept ==
  ASSUME Control, Announced, UNCHANGED <<usrpick, gotnews, acts, idle>>,
         Ended => Ended', tpc = "news" => tpc' = "news",
         mpc' = "compare" => mpc = "compare" /\ at' = at
  PROVE  Announced'
<1> SUFFICES ASSUME NEW i \in 1..8, Pending(i)'
             PROVE  (gotnews \/ tpc = "news")' /\ (mpc = "compare" => at <= i)'
  BY DEF Announced
<1>1. Pending(i)
  BY DEF Pending
<1> QED BY <1>1 DEF Announced

\* A round that clears the news has compared with every pick of the menu.
LEMMA AnnouncedNext == Control /\ Announced /\ [Next]_vars => Announced'
<1> SUFFICES ASSUME Control, Announced, [Next]_vars PROVE Announced'
  OBVIOUS
<1> DEFINE good(i) == (gotnews' \/ tpc' = "news") /\ (mpc' = "compare" => at' <= i)
<1>a. (\A i \in 1..8 : Pending(i)' => good(i)) => Announced'
  BY DEF Announced
<1>1. CASE CheckQuit \/ ReadInput \/ ReadAgain
  BY <1>1, AnnouncedKept DEF CheckQuit, ReadInput, ReadAgain, loop, Ended
<1>2. CASE StorePick
  <2>1. tpc' = "news" /\ mpc' = mpc /\ idle' = (mpc # "compare")
    BY <1>2 DEF StorePick, loop
  <2> QED BY <1>a, <2>1 DEF Pending
<1>3. CASE SetNews
  <2>1. gotnews' = TRUE /\ UNCHANGED <<usrpick, acts, idle, mpc, at>>
    BY <1>3 DEF SetNews, loop
  <2>2. \A i \in 1..8 : Pending(i)' => Pending(i)
    BY <2>1 DEF Pending, Ended
  <2> QED BY <1>a, <2>1, <2>2 DEF Announced
<1>4. CASE SendRun \/ Show \/ ServerDown \/ Join \/ Disconnect \/ SendOverruns
  <2>1. /\ UNCHANGED <<usrpick, gotnews, acts, idle, tpc, at>> /\ mpc' # "compare"
        /\ Ended => Ended'
    BY <1>4 DEF SendRun, Show, ServerDown, Join, Disconnect, SendOverruns, reader, Ended
  <2> QED BY <2>1, AnnouncedKept
<1>5. CASE LookForNews
  <2>1. /\ UNCHANGED <<usrpick, gotnews, acts, idle, tpc>> /\ mpc = "top"
        /\ mpc' = "compare" => at' = 1
    BY <1>5 DEF LookForNews, reader
  <2>2. \A i \in 1..8 : Pending(i)' => Pending(i)
    BY <2>1 DEF Pending, Ended
  <2> QED BY <1>a, <2>1, <2>2 DEF Announced
<1>6. CASE Skip
  <2>1. /\ UNCHANGED <<usrpick, gotnews, acts, idle, tpc, mpc>> /\ mpc = "compare"
        /\ usrpick # PickOf(at) /\ at' = at + 1 /\ at \in Nat
    BY <1>6, MenuPicks DEF Skip, reader, Control
  <2>2. ASSUME NEW i \in 1..8, Pending(i)' PROVE good(i)
    <3>1. Pending(i)
      BY <2>1, <2>2 DEF Pending, Ended
    <3>2. at <= i /\ at # i
      BY <2>1, <3>1 DEF Announced, Pending
    <3>3. gotnews \/ tpc = "news"
      BY <3>1 DEF Announced
    <3> QED BY <2>1, <3>2, <3>3
  <2> QED BY <1>a, <2>2
<1>7. CASE Act \/ Quit
  <2>1. acts' = acts + 1 /\ acts \in Nat
    BY <1>7 DEF Act, Quit, Control
  <2>2. acts' # 0
    BY <2>1
  <2> QED BY <1>a, <2>2 DEF Pending
<1>8. CASE ClearNews
  <2>1. /\ UNCHANGED <<usrpick, acts, idle, tpc>> /\ mpc = "compare" /\ at > 8
        /\ mpc' = "connected" /\ at \in Nat
    BY <1>8, MenuPicks DEF ClearNews, reader, Control
  <2>2. ASSUME NEW i \in 1..8, Pending(i)' PROVE FALSE
    <3>1. Pending(i)
      BY <2>1, <2>2 DEF Pending, Ended
    <3> QED BY <2>1, <3>1 DEF Announced
  <2> QED BY <1>a, <2>2
<1>9. CASE asio
  <2>1. UNCHANGED <<usrpick, gotnews, reader, loop, acts, idle>>
    BY <1>9 DEF asio, Connected, Refused, ContextReturns, WriteFails, Lost, OnMessage, OnMessageThrows,
                OtherMessagesAll
  <2> QED BY <2>1, AnnouncedKept DEF reader, loop, Ended
<1>10. CASE UNCHANGED vars
  BY <1>10, AnnouncedKept DEF vars, reader, loop, Ended
<1> QED
  BY <1>1, <1>2, <1>3, <1>4, <1>5, <1>6, <1>7, <1>8, <1>9, <1>10
  DEF Next, main, get_userpick

\* A pick stored while main compares none keeps its news until it has been acted
\* on, whichever steps of the two threads come in between (client.cpp:220-227,
\* 327-350).
THEOREM PickKeepsItsNews == Spec => []PickAnnounced
<1>1. Init => Announced
  <2>1. \A i \in 1..8 : NoPick # PickOf(i)
    BY MenuPicks DEF NoPick, PickOf, Menu
  <2> QED BY <2>1 DEF Init, Announced, Pending
<1>2. Announced => PickAnnounced
  <2>1. DOMAIN Menu = 1..8
    BY MenuPicks DEF Menu
  <2> QED BY <2>1 DEF Announced, Pending, PickAnnounced
<1> QED BY <1>1, <1>2, AnnouncedNext, TwiceInit, TwiceNext, PTL DEF Spec

-----------------------------------------------------------------------------
(* What the messages are.                                                  *)

RequestMsgs ==
  {StrMsg(id, s) : id \in StrIds, s \in CStrings}
    \cup {PingMsg, Bare("all"), Bare("status")}
ReplyMsgs ==
  {TextMsg(s) : s \in Answers} \cup {PingMsg, OtherMsg, Bare("accept")}

Queues == requests \in Seq(RequestMsgs) /\ incoming \in Seq(ReplyMsgs)

\* push_str pushes bytes, the length cut or not.
LEMMA StrIsBytes ==
  ASSUME NEW s \in CStrings
  PROVE  PushStr(<<>>, s) \in Seq(Byte)
<1> DEFINE a == CArray(s)
           n == StrLen(s)
           cut == SubSeq(a, 1, n)
<1>1. a \in Seq(Byte) /\ Len(a) = Len(s) + 1 /\ Len(s) \in Nat
  BY CArrayEnds
<1>2. n \in Nat /\ n < Base * Base /\ n <= Len(a)
  <2> DEFINE B2 == Base * Base
             l == Len(s) + 1
  <2>1. B2 \in Nat \ {0} /\ l \in Nat
    BY <1>1, BaseAssumption
  <2>2. n = l % B2
    BY DEF StrLen
  <2> HIDE DEF B2, l
  <2>3. l % B2 \in 0..(B2 - 1) /\ l \div B2 \in Nat /\ l = B2 * (l \div B2) + (l % B2)
    BY <2>1, DivMod
  <2>4. B2 * (l \div B2) >= 0
    BY <2>1, <2>3
  <2>5. l % B2 <= l
    <3> DEFINE r == l % B2
               p == B2 * (l \div B2)
    <3>1. r \in Nat /\ p >= 0 /\ p \in Int /\ l = p + r
      BY <2>1, <2>3, <2>4
    <3> HIDE DEF r, p
    <3>2. r <= l
      BY <3>1
    <3> QED BY <3>2 DEF r
  <2>6. n \in Nat /\ n < B2 /\ n <= l
    BY <2>1, <2>2, <2>3, <2>5
  <2> QED BY <1>1, <2>6 DEF B2, l
<1> HIDE DEF a, n
<1>3. cut \in Seq(Byte)
  BY <1>1, <1>2, ElementOfSeq, SubSeqProperties
<1>4. PushStr(<<>>, s) = Push(PushChars(<<>>, cut), Short(n))
  BY DEF PushStr, n, a
<1>5. Short(n) \in Seq(Byte)
  BY <1>2, ShortComesBack
<1> HIDE DEF cut
<1>6. PushChars(<<>>, cut) \in Seq(Byte)
  BY <1>3, CharsComeBack, EmptySeq
<1> QED BY <1>4, <1>5, <1>6, PushedIsPopped

\* The messages of eight and of four bytes.
LEMMA FixedMessages ==
  /\ Clock \in CStrings /\ Len(Clock) = 8
  /\ PingMsg.body \in Seq(Byte)
  /\ Popped(PingMsg.body, 8) = Clock /\ Left(PingMsg.body, 8) = <<>>
  /\ OtherMsg.body \in Seq(Byte)
  /\ Int32Of(Popped(OtherMsg.body, 4)) = 1 /\ Left(OtherMsg.body, 4) = <<>>
<1>1. 1 \in Byte \ {Nul} /\ 1 \in Byte
  BY BaseAssumption DEF Byte, Nul
<1>2. Clock \in CStrings /\ Clock \in Seq(Byte) /\ Len(Clock) = 8
  BY <1>1 DEF Clock, CStrings
<1>3. <<>> \in Seq(Byte)
  BY EmptySeq
<1>4. PingMsg.body = Push(<<>>, Clock) /\ OtherMsg.body = Push(<<>>, Int32(1))
  BY DEF PingMsg, OtherMsg, Msg
<1>5. 1 < Base * Base * (Base * Base)
  <2> DEFINE B2 == Base * Base
  <2>1. B2 \in Nat /\ B2 >= 2
    BY BaseAssumption
  <2> HIDE DEF B2
  <2>2. B2 * B2 >= 2
    BY <2>1
  <2> QED BY <2>1, <2>2 DEF B2
<1>6. Int32(1) \in Seq(Byte) /\ Len(Int32(1)) = 4 /\ Int32Of(Int32(1)) = 1
  BY <1>5, Int32ComesBack
<1>7. /\ Push(<<>>, Clock) \in Seq(Byte)
      /\ Popped(Push(<<>>, Clock), Len(Clock)) = Clock
      /\ Left(Push(<<>>, Clock), Len(Clock)) = <<>>
  BY <1>2, <1>3, PushedIsPopped
<1>8. /\ Push(<<>>, Int32(1)) \in Seq(Byte)
      /\ Popped(Push(<<>>, Int32(1)), Len(Int32(1))) = Int32(1)
      /\ Left(Push(<<>>, Int32(1)), Len(Int32(1))) = <<>>
  BY <1>3, <1>6, PushedIsPopped
<1> QED BY <1>2, <1>4, <1>6, <1>7, <1>8

\* Requests and replies are messages.
LEMMA MessageTypes == RequestMsgs \subseteq Message /\ ReplyMsgs \subseteq Message
<1>1. <<>> \in CStrings /\ <<>> \in Seq(Byte)
  BY EmptySeq DEF CStrings
<1>2. PingMsg \in Message /\ OtherMsg \in Message
  BY <1>1, FixedMessages DEF PingMsg, OtherMsg, Msg, Message, Ids, StrIds
<1>3. Bare("all") \in Message /\ Bare("status") \in Message /\ Bare("accept") \in Message
  BY <1>1 DEF Bare, Msg, Message, Ids
<1>4. ASSUME NEW id \in StrIds, NEW s \in CStrings PROVE StrMsg(id, s) \in Message
  BY StrIsBytes DEF StrMsg, Msg, Message, Ids
<1>5. ASSUME NEW s \in Answers PROVE TextMsg(s) \in Message
  <2>1. s \in CStrings /\ Len(s) + 1 < Base * Base * (Base * Base)
    BY ClientAssumption
  <2>2. PushText(<<>>, s) \in Seq(Byte)
    BY <1>1, <2>1, TextComesBack
  <2> QED BY <2>1, <2>2 DEF TextMsg, Msg, Message, Ids, StrIds
<1> QED BY <1>2, <1>3, <1>4, <1>5 DEF RequestMsgs, ReplyMsgs

\* What the client makes is a request.
LEMMA MadeIsRequest ==
  ASSUME NEW id \in StrIds \cup {"ping", "all", "status"}, NEW m \in Made(id)
  PROVE  m \in RequestMsgs
<1>1. CASE id \in RunIds
  BY <1>1, ClientAssumption DEF Made, RequestMsgs, StrIds
<1>2. CASE id = "text"
  BY <1>2, ClientAssumption DEF Made, RequestMsgs, StrIds, RunIds
<1>3. CASE id = "ping"
  BY <1>3 DEF Made, RequestMsgs, RunIds
<1>4. CASE id \in {"all", "status"}
  BY <1>4 DEF Made, RequestMsgs, RunIds
<1> QED BY <1>1, <1>2, <1>3, <1>4 DEF StrIds

\* The entries of the menu before the last one.
LEMMA MenuIds ==
  ASSUME NEW i \in 1..Len(Menu), Menu[i] # "quit"
  PROVE  Menu[i] \in StrIds \cup {"ping", "all", "status"}
<1>1. i \in 1..8
  BY MenuPicks
<1> QED BY <1>1 DEF Menu, StrIds, RunIds

LEMMA QueuesNext ==
  ASSUME TypeOK, Queues, [Next]_vars
  PROVE  Queues'
<1> USE DEF Queues
<1>1. CASE UNCHANGED network
  BY <1>1 DEF network
<1>2. CASE SendRun
  <2>1. PICK m \in Made("run") : Send(m)
    BY <1>2 DEF SendRun
  <2>2. m \in RequestMsgs
    BY <2>1, MadeIsRequest DEF StrIds, RunIds
  <2> QED BY <1>2, <2>1, <2>2 DEF SendRun, Send
<1>3. CASE Act
  <2>1. at \in 1..Len(Menu) /\ Menu[at] # "quit"
    BY <1>3, MenuPicks DEF Act, TypeOK, ControlOK
  <2>2. PICK m \in Made(Menu[at]) : Send(m)
    BY <1>3 DEF Act
  <2>3. m \in RequestMsgs
    BY <2>1, <2>2, MenuIds, MadeIsRequest
  <2> QED BY <1>3, <2>2, <2>3 DEF Act, Send
<1>4. CASE Show
  BY <1>4, HeadTailProperties DEF Show
<1>5. CASE Disconnect
  BY <1>5, EmptySeq DEF Disconnect
<1>6. CASE Connected \/ OtherMessagesAll
  BY <1>6 DEF Connected, OtherMessagesAll, Arrive, ReplyMsgs
<1>7. CASE Refused \/ ContextReturns
  BY <1>7 DEF Refused, ContextReturns
<1>8. CASE WriteFails \/ Lost \/ OnMessageThrows
  BY <1>8, EmptySeq DEF WriteFails, Lost, OnMessageThrows
<1>9. CASE OnMessage
  <2>1. requests' \in Seq(RequestMsgs) /\ Head(requests) \in RequestMsgs
    BY <1>9, HeadTailProperties DEF OnMessage
  <2>2. Head(requests).id = "ping" => Head(requests) = PingMsg
    BY <2>1 DEF RequestMsgs, StrMsg, Bare, Msg, StrIds, RunIds
  <2>3. \/ Arrive(PingMsg)
        \/ \E s \in Answers : Arrive(TextMsg(s))
        \/ UNCHANGED incoming
    BY <1>9, <2>2 DEF OnMessage
  <2>4. PingMsg \in ReplyMsgs /\ \A s \in Answers : TextMsg(s) \in ReplyMsgs
    BY DEF ReplyMsgs
  <2>5. incoming' = incoming \/ \E m \in ReplyMsgs : incoming' = Append(incoming, m)
    BY <2>3, <2>4 DEF Arrive
  <2>6. incoming' \in Seq(ReplyMsgs)
    BY <2>5, AppendProperties
  <2> QED BY <2>1, <2>6
<1>10. \/ UNCHANGED network \/ SendRun \/ Act \/ Show \/ Disconnect \/ asio
  <2>1. CASE get_userpick
    BY <2>1 DEF get_userpick, CheckQuit, ReadInput, ReadAgain, StorePick, SetNews
  <2>2. CASE main
    BY <2>2 DEF main, SendOverruns, LookForNews, Skip, Quit, ClearNews, ServerDown, Join
  <2>3. CASE UNCHANGED vars
    BY <2>3 DEF vars
  <2> QED BY <2>1, <2>2, <2>3 DEF Next
<1> QED BY <1>1, <1>2, <1>3, <1>4, <1>5, <1>6, <1>7, <1>8, <1>9, <1>10 DEF asio

LEMMA ControlNext ==
  ASSUME ControlOK, [Next]_vars
  PROVE  ControlOK'
<1> USE DEF ControlOK
<1>0. Len(Menu) = 8 /\ 1 \in 1..(Len(Menu) + 1)
  BY MenuPicks
<1>1. CASE CheckQuit
  BY <1>1 DEF CheckQuit, loop, network
<1>2. CASE ReadInput
  BY <1>2 DEF ReadInput, loop, network
<1>3. CASE ReadAgain
  BY <1>3 DEF ReadAgain, loop, network
<1>4. CASE StorePick
  BY <1>4, ClientAssumption DEF StorePick, loop, network
<1>5. CASE SetNews
  BY <1>5 DEF SetNews, loop, network
<1>6. CASE SendRun
  <2>1. sendrun' = FALSE /\ UNCHANGED <<quit, usrpick, gotnews, reader, mpc, at, link, open,
                                        others, acts, idle>>
    BY <1>6 DEF SendRun
  <2>2. sendrun' \in BOOLEAN
    BY <2>1
  <2> QED BY <2>1, <2>2 DEF reader
<1>7. CASE SendOverruns
  BY <1>7 DEF SendOverruns, reader, network
<1>8. CASE LookForNews
  BY <1>0, <1>8 DEF LookForNews, reader, network
<1>9. CASE Skip
  BY <1>0, <1>9 DEF Skip, reader, network
<1>10. CASE Act
  BY <1>0, <1>10 DEF Act, reader
<1>11. CASE Quit
  BY <1>11 DEF Quit, reader, network
<1>12. CASE ClearNews
  <2>1. /\ gotnews' = FALSE /\ mpc' = "connected" /\ at' = 1
        /\ UNCHANGED <<quit, usrpick, reader, sendrun, link, open, others, acts, idle>>
    BY <1>12 DEF ClearNews, network
  <2>2. gotnews' \in BOOLEAN /\ at' \in 1..(Len(Menu) + 1)
    BY <1>0, <2>1
  <2> QED BY <2>1, <2>2 DEF reader
<1>13. CASE Show
  BY <1>13 DEF Show, reader
<1>14. CASE ServerDown
  BY <1>14 DEF ServerDown, reader, network
<1>15. CASE Join
  BY <1>15 DEF Join, reader, network
<1>16. CASE Disconnect
  BY <1>16 DEF Disconnect, reader
<1>17. CASE Connected
  BY <1>17 DEF Connected, reader, loop
<1>18. CASE Refused \/ ContextReturns
  BY <1>18 DEF Refused, ContextReturns, reader, loop
<1>19. CASE WriteFails
  <2>1. open' = FALSE
    BY <1>19 DEF WriteFails
  <2>2. open' \in BOOLEAN
    BY <2>1
  <2>3. /\ link' = "lost"
        /\ UNCHANGED <<quit, usrpick, gotnews, reader, loop, others, acts, idle>>
    BY <1>19 DEF WriteFails
  <2> QED BY <2>2, <2>3 DEF reader, loop
<1>20. CASE Lost
  <2>1. open' = FALSE
    BY <1>20 DEF Lost
  <2>2. open' \in BOOLEAN
    BY <2>1
  <2>3. /\ link' = "lost"
        /\ UNCHANGED <<quit, usrpick, gotnews, reader, loop, others, acts, idle>>
    BY <1>20 DEF Lost
  <2> QED BY <2>2, <2>3 DEF reader, loop
<1>21. CASE OnMessage
  BY <1>21 DEF OnMessage, reader, loop
<1>22. CASE OnMessageThrows
  <2>1. open' = FALSE
    BY <1>22 DEF OnMessageThrows
  <2>2. open' \in BOOLEAN
    BY <2>1
  <2>3. /\ link' = "lost"
        /\ UNCHANGED <<quit, usrpick, gotnews, reader, loop, others, acts, idle>>
    BY <1>22 DEF OnMessageThrows
  <2> QED BY <2>2, <2>3 DEF reader, loop
<1>23. CASE OtherMessagesAll
  BY <1>23, ClientAssumption DEF OtherMessagesAll, reader, loop
<1>24. CASE UNCHANGED vars
  BY <1>24 DEF vars, reader, loop, network
<1> QED
  BY <1>1, <1>2, <1>3, <1>4, <1>5, <1>6, <1>7, <1>8, <1>9, <1>10, <1>11,
     <1>12, <1>13, <1>14, <1>15, <1>16, <1>17, <1>18, <1>19, <1>20, <1>21,
     <1>22, <1>23, <1>24
     DEF Next, get_userpick, main, asio

LEMMA InvInit == Init => ControlOK /\ Queues
<1> SUFFICES ASSUME Init PROVE ControlOK /\ Queues
  OBVIOUS
<1>1. 1 \in 1..(Len(Menu) + 1)
  BY MenuPicks
<1>2. ControlOK
  <2>1. quit \in BOOLEAN /\ gotnews \in BOOLEAN /\ idle \in BOOLEAN
    BY DEF Init
  <2>2. open \in BOOLEAN /\ sendrun \in BOOLEAN
    BY DEF Init
  <2>3. /\ picks \in 0..MaxPicks /\ others \in 0..MaxOthers /\ acts \in Nat
        /\ at \in 1..(Len(Menu) + 1)
        /\ usrpick \in Numbers \cup {0, NoPick} /\ tmp \in Numbers \cup {0}
    BY <1>1, ClientAssumption DEF Init
  <2>4. /\ input = "good" /\ tpc = "check" /\ mpc = "top"
        /\ link \in {"connecting", "none"}
    BY DEF Init
  <2> QED BY <2>1, <2>2, <2>3, <2>4 DEF ControlOK
<1>3. Queues
  BY EmptySeq DEF Init, Queues
<1> QED BY <1>2, <1>3

\* In a queue of requests or replies every message has its type.
LEMMA InvTypes == ControlOK /\ Queues => TypeOK
<1> SUFFICES ASSUME ControlOK, Queues PROVE TypeOK
  OBVIOUS
<1>1. requests \in Seq(Message)
  BY MessageTypes, SeqMonotonic DEF Queues
<1>2. incoming \in Seq(Message)
  BY MessageTypes, SeqMonotonic DEF Queues
<1> QED BY <1>1, <1>2 DEF TypeOK

LEMMA InvNext == ControlOK /\ Queues /\ [Next]_vars => (ControlOK /\ Queues)'
BY InvTypes, ControlNext, QueuesNext

\* Every variable keeps its type, whatever is typed and sent.
THEOREM ClientTypes == Spec => []TypeOK
BY InvInit, InvTypes, InvNext, PTL DEF Spec

\* Every message posted or received is read as it was made: the numbers, the
\* strings that fit, and nothing left over (client.cpp:77-92, 365-400,
\* SimpleServer.cpp:62-81, 333-373).
THEOREM ClientBodies == Spec => []BodiesReadBack
<1>1. Queues => BodiesReadBack
  <2> SUFFICES ASSUME Queues PROVE BodiesReadBack
    OBVIOUS
  <2> <<>> \in Seq(Byte)
    BY EmptySeq
  <2>1. ASSUME NEW m \in RequestMsgs, m.id \in StrIds, Fits(m.of)
        PROVE  PopStr(m.body) = [str |-> m.of, left |-> <<>>]
    <3>1. PICK s \in CStrings : m.of = s /\ m.body = PushStr(<<>>, s)
      BY <2>1 DEF RequestMsgs, StrMsg, PingMsg, Bare, Msg, StrIds, RunIds
    <3> QED BY <2>1, <3>1, StrComesBack
  <2>2. ASSUME NEW m \in ReplyMsgs
        PROVE  /\ m.id = "text" => PopText(m.body) = [str |-> m.of, left |-> <<>>]
               /\ m.id = "ping" => Popped(m.body, 8) = m.of /\ Left(m.body, 8) = <<>>
               /\ m.id = "message" =>
                    Int32Of(Popped(m.body, 4)) = 1 /\ Left(m.body, 4) = <<>>
    <3>1. CASE m = PingMsg
      <4>1. m.id = "ping" /\ m.of = Clock
        BY <3>1 DEF PingMsg, Msg
      <4> QED BY <3>1, <4>1, FixedMessages
    <3>2. CASE m = OtherMsg
      <4>1. m.id = "message"
        BY <3>2 DEF OtherMsg, Msg
      <4> QED BY <3>2, <4>1, FixedMessages
    <3>3. CASE m = Bare("accept")
      BY <3>3 DEF Bare, Msg
    <3>4. ASSUME NEW s \in Answers, m = TextMsg(s)
          PROVE  m.id = "text" /\ PopText(m.body) = [str |-> m.of, left |-> <<>>]
      <4>1. m.id = "text" /\ m.of = s /\ m.body = PushText(<<>>, s)
        BY <3>4 DEF TextMsg, Msg
      <4>2. s \in CStrings /\ Len(s) + 1 < Base * Base * (Base * Base)
        BY ClientAssumption
      <4> QED BY <4>1, <4>2, TextComesBack
    <3> QED BY <3>1, <3>2, <3>3, <3>4 DEF ReplyMsgs
  <2>3. /\ \A i \in DOMAIN requests : requests[i] \in RequestMsgs
        /\ \A i \in DOMAIN incoming : incoming[i] \in ReplyMsgs
    BY LenProperties DEF Queues
  <2> QED BY <2>1, <2>2, <2>3 DEF BodiesReadBack
<1> QED BY <1>1, InvInit, InvNext, PTL DEF Spec
=============================================================================
