------------------------------- MODULE Client ------------------------------
(***************************************************************************)
(* The interactive client (client.cpp) on its client_interface             *)
(* (net_client.h): the thread that reads picks from standard input, the    *)
(* main loop that acts on them and shows what the server sends, and the    *)
(* bodies of the messages both ways.                                       *)
(*                                                                         *)
(* The two threads share bQuit, usrpick and gotnews: each access is a step *)
(* of its own.  Connection has the streams; here a Send posts a request    *)
(* that the server takes whole and in order, unless the link is lost, and  *)
(* the server's answer arrives with it.                                    *)
(***************************************************************************)
EXTENDS MessageBody

CONSTANTS
  Numbers,    \* what the user may type, and uninitialised memory hold
  Archives,   \* what get_serial_str makes of the runs
  Text,       \* what it makes of the text message
  Answers,    \* what the server sends as text
  MaxPicks,   \* bound: picks stored before reading stops
  MaxOthers   \* bound: messages to all from other clients

ASSUME ClientAssumption ==
  /\ Numbers \subseteq Int
  /\ Archives \subseteq CStrings /\ Answers \subseteq CStrings
  /\ Text \in CStrings /\ Fits(Text)
  /\ \A s \in Answers : Len(s) + 1 < Base * Base * (Base * Base)
  /\ MaxPicks \in Nat /\ MaxOthers \in Nat

VARIABLES
  quit,              \* bQuit
  usrpick, gotnews,  \* the atomics
  input, tmp, tpc,   \* std::cin, "good" or "failed"; the reading thread
  mpc, at,           \* the main thread; the comparison it has come to
  sendrun,           \* is the command line's run still to be sent?
  link, open,        \* the connection; IsConnected()
  requests,          \* messages posted that the server has not taken
  incoming,          \* m_qMessagesIn
  picks, others,     \* how many there have been, for the bounds
  acts, idle         \* how often the pick stored last has been acted on, and
                     \* was it stored while main compared none?

reader == <<input, tmp, tpc, picks>>
loop == <<mpc, at, sendrun>>
network == <<link, open, requests, incoming, others>>
vars == <<quit, usrpick, gotnews, reader, loop, network, acts, idle>>

NoPick == -99

\* The comparisons in the order of the code, and the pick each is with.
Menu == <<"text", "ping", "all", "status", "up", "down", "remove", "quit">>
PickOf(i) == IF Menu[i] = "quit" THEN 0 ELSE i

\* A message and, for the properties, the string it was made of.
Msg(id, of, body) == [id |-> id, of |-> of, body |-> body]
Bare(id) == Msg(id, <<>>, <<>>)
StrMsg(id, s) == Msg(id, s, PushStr(<<>>, s))
TextMsg(s) == Msg("text", s, PushText(<<>>, s))
Clock == [i \in 1..8 |-> 1]
PingMsg == Msg("ping", Clock, Push(<<>>, Clock))
OtherMsg == Msg("message", <<>>, Push(<<>>, Int32(1)))

RunIds == {"run", "up", "down", "remove"}
StrIds == RunIds \cup {"text"}
Ids == StrIds \cup {"ping", "all", "status", "accept", "message"}

Message == [id : Ids, of : CStrings, body : Seq(Byte)]

\* What the client makes of a pick or of its command line.
Made(id) ==
  CASE id \in RunIds -> {StrMsg(id, s) : s \in Archives}
    [] id = "text"   -> {StrMsg(id, Text)}
    [] id = "ping"   -> {PingMsg}
    [] OTHER         -> {Bare(id)}

Init ==
  /\ quit = FALSE
  /\ usrpick = NoPick /\ gotnews = FALSE
  /\ input = "good" /\ tmp \in Numbers /\ tpc = "check" /\ picks = 0
  /\ mpc = "top" /\ at = 1 /\ sendrun \in BOOLEAN
  /\ link \in {"connecting", "none"}  \* none: the name was not resolved
  /\ open = (link = "connecting")
  /\ requests = <<>> /\ incoming = <<>> /\ others = 0
  /\ acts = 0 /\ idle = TRUE

-----------------------------------------------------------------------------
(* get_userpick.                                                           *)

CheckQuit ==
  /\ tpc = "check"
  /\ tpc' = IF quit THEN "ended" ELSE "read"
  /\ UNCHANGED <<quit, usrpick, gotnews, input, tmp, picks, loop, network, acts, idle>>

\* A number; something else, which makes it 0; the end, which leaves tmp alone.
ReadInput ==
  /\ tpc = "read" /\ input = "good"
  /\ picks < MaxPicks \/ quit
  /\ \/ /\ tmp' \in Numbers
        /\ UNCHANGED input
     \/ /\ input' = "failed"
        /\ tmp' \in {0, tmp}
  /\ tpc' = "store"
  /\ UNCHANGED <<quit, usrpick, gotnews, picks, loop, network, acts, idle>>

\* Once it has failed the stream stays so, and every read returns at once.
ReadAgain ==
  /\ tpc = "read" /\ input = "failed"
  /\ picks < MaxPicks \/ quit
  /\ tpc' = "store"
  /\ UNCHANGED <<quit, usrpick, gotnews, input, tmp, picks, loop, network, acts, idle>>

StorePick ==
  /\ tpc = "store"
  /\ usrpick' = tmp
  /\ picks' = IF picks < MaxPicks THEN picks + 1 ELSE picks
  /\ acts' = 0 /\ idle' = (mpc # "compare")
  /\ tpc' = "news"
  /\ UNCHANGED <<quit, gotnews, input, tmp, loop, network>>

SetNews ==
  /\ tpc = "news"
  /\ gotnews' = TRUE
  /\ tpc' = "check"
  /\ UNCHANGED <<quit, usrpick, input, tmp, picks, loop, network, acts, idle>>

\* Mistake: gotnews is set before usrpick.
StorePickSetNews ==
  /\ tpc = "store"
  /\ gotnews' = TRUE
  /\ tpc' = "news"
  /\ UNCHANGED <<quit, usrpick, input, tmp, picks, loop, network, acts, idle>>
SetNewsStorePick ==
  /\ tpc = "news"
  /\ usrpick' = tmp
  /\ picks' = IF picks < MaxPicks THEN picks + 1 ELSE picks
  /\ acts' = 0 /\ idle' = (mpc # "compare")
  /\ tpc' = "check"
  /\ UNCHANGED <<quit, gotnews, input, tmp, loop, network>>

-----------------------------------------------------------------------------
(* The main loop.                                                          *)

\* client_interface::Send
Send(m) == requests' = IF open THEN Append(requests, m) ELSE requests

\* Mistakes: gotnews is not cleared; the first message is looked at and left in
\* the queue; nothing is done when the server is down; bQuit is not set.
ClearNothing ==
  /\ mpc = "compare" /\ at > Len(Menu)
  /\ mpc' = "connected" /\ at' = 1
  /\ UNCHANGED <<quit, usrpick, gotnews, reader, sendrun, network, acts, idle>>
ShowFront ==
  /\ mpc = "connected" /\ open
  /\ mpc' = "top"
  /\ UNCHANGED <<quit, usrpick, gotnews, reader, at, sendrun, network, acts, idle>>
ServerDownIgnored ==
  /\ mpc = "connected" /\ ~open
  /\ mpc' = "top"
  /\ UNCHANGED <<quit, usrpick, gotnews, reader, at, sendrun, network, acts, idle>>
ServerDownNoQuit ==
  /\ mpc = "connected" /\ ~open
  /\ mpc' = "join"
  /\ UNCHANGED <<quit, usrpick, gotnews, reader, at, sendrun, network, acts, idle>>

\* Mistake: the first comparison that fails ends the round.
SkipRest ==
  /\ mpc = "compare" /\ at <= Len(Menu) /\ usrpick # PickOf(at)
  /\ at' = Len(Menu) + 1
  /\ UNCHANGED <<quit, usrpick, gotnews, reader, mpc, sendrun, network, acts, idle>>

\* The command line's run, once, before anything else.
SendRun ==
  /\ mpc = "top" /\ sendrun
  /\ \E m \in Made("run") : Send(m)
  /\ sendrun' = FALSE
  /\ UNCHANGED <<quit, usrpick, gotnews, reader, mpc, at, link, open, incoming,
                 others, acts, idle>>

\* push_str of a string that does not fit: strcpy overruns the array.
SendOverruns ==
  /\ \/ mpc = "top" /\ sendrun
     \/ /\ mpc = "compare" /\ at <= Len(Menu)
        /\ Menu[at] \in RunIds /\ usrpick = PickOf(at)
  /\ \E s \in Archives : ~Fits(s)
  /\ mpc' = "crashed"
  /\ UNCHANGED <<quit, usrpick, gotnews, reader, at, sendrun, network, acts, idle>>

LookForNews ==
  /\ mpc = "top" /\ ~sendrun
  /\ IF gotnews THEN mpc' = "compare" /\ at' = 1
                ELSE mpc' = "connected" /\ at' = at
  /\ UNCHANGED <<quit, usrpick, gotnews, reader, sendrun, network, acts, idle>>

\* if (usrpick == ...), each reading usrpick anew.
Skip ==
  /\ mpc = "compare" /\ at <= Len(Menu) /\ usrpick # PickOf(at)
  /\ at' = at + 1
  /\ UNCHANGED <<quit, usrpick, gotnews, reader, mpc, sendrun, network, acts, idle>>

Act ==
  /\ mpc = "compare" /\ at <= Len(Menu) /\ usrpick = PickOf(at)
  /\ Menu[at] # "quit"
  /\ \E m \in Made(Menu[at]) : Send(m)
  /\ acts' = acts + 1
  /\ at' = at + 1
  /\ UNCHANGED <<quit, usrpick, gotnews, reader, mpc, sendrun, link, open, incoming,
                 others, idle>>

Quit ==
  /\ mpc = "compare" /\ at <= Len(Menu) /\ usrpick = PickOf(at)
  /\ Menu[at] = "quit"
  /\ quit' = TRUE
  /\ acts' = acts + 1
  /\ mpc' = "join"
  /\ UNCHANGED <<usrpick, gotnews, reader, at, sendrun, network, idle>>

ClearNews ==
  /\ mpc = "compare" /\ at > Len(Menu)
  /\ gotnews' = FALSE
  /\ mpc' = "connected" /\ at' = 1
  /\ UNCHANGED <<quit, usrpick, reader, sendrun, network, acts, idle>>

\* Take the first message received, if there is one, and show it.
Show ==
  /\ mpc = "connected" /\ open
  /\ incoming' = IF incoming = <<>> THEN incoming ELSE Tail(incoming)
  /\ mpc' = "top"
  /\ UNCHANGED <<quit, usrpick, gotnews, reader, at, sendrun, link, open, requests,
                 others, acts, idle>>

ServerDown ==
  /\ mpc = "connected" /\ ~open
  /\ quit' = TRUE
  /\ mpc' = "join"
  /\ UNCHANGED <<usrpick, gotnews, reader, at, sendrun, network, acts, idle>>

Join ==
  /\ mpc = "join" /\ tpc = "ended"
  /\ mpc' = "leaving"
  /\ UNCHANGED <<quit, usrpick, gotnews, reader, at, sendrun, network, acts, idle>>

\* ~client_interface: what is posted and not yet written is dropped.
Disconnect ==
  /\ mpc = "leaving"
  /\ open' = FALSE /\ link' = "lost" /\ requests' = <<>>
  /\ mpc' = "done"
  /\ UNCHANGED <<quit, usrpick, gotnews, reader, at, sendrun, incoming, others, acts, idle>>

-----------------------------------------------------------------------------
(* The asio thread, the network and the server.                            *)

Alive == mpc \notin {"done", "crashed"}

\* The handshake is over; the server's first message arrives.
Connected ==
  /\ Alive /\ link = "connecting" /\ open
  /\ link' = "up"
  /\ incoming' = Append(incoming, Bare("accept"))
  /\ UNCHANGED <<quit, usrpick, gotnews, reader, loop, open, requests, others, acts, idle>>

\* The handler of async_connect does nothing when it has failed.
Refused ==
  /\ Alive /\ link = "connecting" /\ open
  /\ link' = "refused"
  /\ UNCHANGED <<quit, usrpick, gotnews, reader, loop, open, requests, incoming,
                 others, acts, idle>>

\* Then io_context::run() has nothing left to do, and returns: what is posted
\* from now on stays posted, and nothing closes the socket.
ContextReturns ==
  /\ Alive /\ link = "refused" /\ open /\ requests = <<>>
  /\ link' = "returned"
  /\ UNCHANGED <<quit, usrpick, gotnews, reader, loop, open, requests, incoming,
                 others, acts, idle>>

\* Unless a Send was posted before: WriteHeader fails, and closes the socket.
WriteFails ==
  /\ Alive /\ link = "refused" /\ open /\ requests # <<>>
  /\ open' = FALSE /\ link' = "lost" /\ requests' = <<>>
  /\ UNCHANGED <<quit, usrpick, gotnews, reader, loop, incoming, others, acts, idle>>

\* The connection breaks, or the server drops it; a handler closes the socket.
Lost ==
  /\ Alive /\ link \in {"connecting", "up"}
  /\ open' = FALSE /\ link' = "lost" /\ requests' = <<>>
  /\ UNCHANGED <<quit, usrpick, gotnews, reader, loop, incoming, others, acts, idle>>

\* CustomServer::OnMessage and the answer's way back.  An archive that does not
\* parse throws, in the thread that runs Update: the server ends.
Parses(m) == PopStr(m.body).str \in Archives \cup {Text}

Arrive(m) == incoming' = Append(incoming, m)

OnMessage ==
  /\ Alive /\ link = "up" /\ requests # <<>>
  /\ LET m == Head(requests) IN
       \/ m.id = "ping" /\ Arrive(m)
       \/ m.id = "status" /\ \E s \in Answers : Arrive(TextMsg(s))
       \/ m.id = "text" /\ Parses(m) /\ \E s \in Answers : Arrive(TextMsg(s))
       \/ m.id \in RunIds /\ Parses(m) /\ UNCHANGED incoming
       \/ m.id = "all" /\ UNCHANGED incoming
  /\ requests' = Tail(requests)
  /\ UNCHANGED <<quit, usrpick, gotnews, reader, loop, link, open, others, acts, idle>>

OnMessageThrows ==
  /\ Alive /\ link = "up" /\ requests # <<>>
  /\ Head(requests).id \in StrIds /\ ~Parses(Head(requests))
  /\ open' = FALSE /\ link' = "lost" /\ requests' = <<>>
  /\ UNCHANGED <<quit, usrpick, gotnews, reader, loop, incoming, others, acts, idle>>

\* MessageAllClients on behalf of another client.
OtherMessagesAll ==
  /\ Alive /\ link = "up" /\ others < MaxOthers
  /\ Arrive(OtherMsg)
  /\ others' = others + 1
  /\ UNCHANGED <<quit, usrpick, gotnews, reader, loop, link, open, requests, acts, idle>>

-----------------------------------------------------------------------------
get_userpick_swapped ==
  /\ Alive
  /\ CheckQuit \/ ReadInput \/ ReadAgain \/ StorePickSetNews \/ SetNewsStorePick

get_userpick ==
  /\ Alive
  /\ CheckQuit \/ ReadInput \/ ReadAgain \/ StorePick \/ SetNews

main ==
  \/ SendRun \/ SendOverruns \/ LookForNews \/ Skip \/ Act \/ Quit \/ ClearNews
  \/ Show \/ ServerDown \/ Join \/ Disconnect

asio ==
  \/ Connected \/ Refused \/ ContextReturns \/ WriteFails \/ Lost
  \/ OnMessage \/ OnMessageThrows \/ OtherMessagesAll

Next == get_userpick \/ main \/ asio

Spec == Init /\ [][Next]_vars

\* The threads run; the user may never type again, and the network do nothing.
Waiting == tpc = "read" /\ input = "good"

FairSpec ==
  /\ Spec
  /\ WF_vars(main)
  /\ WF_vars(~Waiting /\ get_userpick)
  /\ WF_vars(ContextReturns \/ WriteFails)

-----------------------------------------------------------------------------
(* Properties.                                                             *)

ControlOK ==
  /\ quit \in BOOLEAN /\ gotnews \in BOOLEAN
  /\ usrpick \in Numbers \cup {0, NoPick} /\ tmp \in Numbers \cup {0}
  /\ input \in {"good", "failed"}
  /\ tpc \in {"check", "read", "store", "news", "ended"}
  /\ picks \in 0..MaxPicks /\ others \in 0..MaxOthers /\ acts \in Nat
  /\ mpc \in {"top", "compare", "connected", "join", "leaving", "done", "crashed"}
  /\ at \in 1..(Len(Menu) + 1)
  /\ sendrun \in BOOLEAN /\ open \in BOOLEAN /\ idle \in BOOLEAN
  /\ link \in {"none", "connecting", "refused", "returned", "up", "lost"}

\* Every variable has its type, and every message is made of bytes.
TypeOK ==
  /\ ControlOK
  /\ requests \in Seq(Message) /\ incoming \in Seq(Message)

\* A pick is acted on twice at most: once by a round that it came into, and once
\* because of its own gotnews (client.cpp:220-227, 327-350).
AtMostTwice == acts <= 2

\* Every message that is posted or received is popped as it was pushed, bytes of
\* every width and the ends of strings included, unless a string is too long for
\* its 16-bit length (client.cpp:77-92, 365-400, SimpleServer.cpp:62-81, 333-373).
BodiesReadBack ==
  /\ \A i \in DOMAIN requests : LET m == requests[i] IN
       m.id \in StrIds /\ Fits(m.of) => PopStr(m.body) = [str |-> m.of, left |-> <<>>]
  /\ \A i \in DOMAIN incoming : LET m == incoming[i] IN
       /\ m.id = "text" => PopText(m.body) = [str |-> m.of, left |-> <<>>]
       /\ m.id = "ping" => Popped(m.body, 8) = m.of /\ Left(m.body, 8) = <<>>
       /\ m.id = "message" => Int32Of(Popped(m.body, 4)) = 1 /\ Left(m.body, 4) = <<>>

Ended == mpc \in {"join", "leaving", "done", "crashed"}

\* A pick stored while the main loop compares none is not forgotten: until it has
\* been acted on, the news of it is set or about to be, and not cleared by a round
\* that has not met the pick (client.cpp:220-227, 327-350).
PickAnnounced ==
  \A i \in DOMAIN Menu :
    usrpick = PickOf(i) /\ idle /\ acts = 0 /\ ~Ended => gotnews \/ tpc = "news"

\* A pick stored while the main loop is not in the middle of comparing another
\* one is acted on, unless the user types again first (client.cpp:220-227,
\* 327-350).
PickTakesEffect ==
  \A i \in DOMAIN Menu :
    usrpick = PickOf(i) /\ idle ~> acts > 0 \/ usrpick # PickOf(i) \/ ~idle \/ Ended

\* Leaving the program waits for nothing but the user's next line (client.cpp:
\* 344-348, 404-409).
LeavingEnds == mpc = "join" ~> mpc = "done" \/ Waiting

\* When the socket has been closed the main loop finds out (client.cpp:352, 404).
ClosedIsNoticed == ~open ~> Ended

\* Messages received do not stay in the queue (client.cpp:352-357).
MessagesAreShown == []<>(incoming = <<>> \/ ~open \/ Ended)

-----------------------------------------------------------------------------
(* What a comment says and the code does not do.                           *)

\* net_client.h:125, "Check if client is actually connected to a server": when
\* the server refuses the connection, IsConnected says so sooner or later.
RefusalIsNoticed == link = "refused" ~> ~open \/ Ended
=============================================================================
