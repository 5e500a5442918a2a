---------------------------- MODULE Connection -----------------------------
(***************************************************************************)
(* The two ends of one connection (net_connection.h, net_client.h): the    *)
(* handshake and the two streams of messages.                              *)
(*                                                                         *)
(* Each end has one thread that runs its io_context's handlers one after   *)
(* another, and another thread, the application's, that only posts to it.  *)
(* A handler is one step, with the operations it starts: a write takes its *)
(* turn behind those in flight (`writing'), a read waits in `reading'.     *)
(* The completion it is called for belongs to it too: one that comes when  *)
(* another handler has just closed the socket is taken for an error.       *)
(*                                                                         *)
(* A stream carries units: the puzzle, its answer, a header, a body.  The  *)
(* first three are all 8 bytes long, so that each can be read in the place *)
(* of another.  No header passes for an answer: the upper 32 bits of an    *)
(* answer are above 0xC0000000 (scramble), those of a header are its size. *)
(***************************************************************************)
EXTENDS Integers, Sequences, SequencesExt

CONSTANTS
  Bare,          \* messages without a body, as they are passed to Send
  Bodied,        \* messages with one: header.size is its size, and not 0
  ServerAccept,  \* the message OnClientConnect sends
  NoMsg,         \* no message
  MaxSends,      \* bound: messages each end sends
  Eager,         \* may the client send before its handshake is over?
  MayFail        \* may the connection fail, and the client quit?

Messages == Bare \cup Bodied

ASSUME ConnectionAssumption ==
  /\ ServerAccept \in Bare
  /\ Bare \cap Bodied = {}
  /\ NoMsg \notin Messages
  /\ MaxSends \in Nat
  /\ Eager \in BOOLEAN /\ MayFail \in BOOLEAN

Ends == {"client", "server"}
Peer(e) == IF e = "client" THEN "server" ELSE "client"

VARIABLES
  tcp,        \* "connecting", "up", "refused" or "lost"
  open,       \* m_socket.is_open(); the server's is the kernel's until accepted
  started,    \* has the handler of async_connect or async_accept run?
  context,    \* the client's io_context: "running", "returned" or "exited"
  posts,      \* the messages whose Send is posted and has not run
  out,        \* m_qMessagesOut
  writing,    \* the writes in flight, in the order they were started
  reading,    \* the read in flight: "validation", "header", "body" or "none"
  stream,     \* stream[e]: what is on its way to e
  temporary,  \* m_msgTemporaryIn.header, that of the message last begun
  body,       \* m_msgTemporaryIn.body: the message whose bytes it holds
  validated,  \* has the server's end accepted the answer?
  in,         \* what this connection has put into m_qMessagesIn, ever,
  inBody,     \* and the message whose body came with each
  sent        \* what was passed to Send, ever

link == <<tcp, context>>
queues == <<posts, out, writing>>
received == <<in, inBody>>
inbound == <<reading, stream, temporary, body, validated, received>>
vars == <<link, open, started, queues, inbound, sent>>

Unit(kind, m) == [kind |-> kind, msg |-> m]
Puzzle == Unit("puzzle", NoMsg)
Units == [kind : {"puzzle", "answer", "wrong", "header", "body"},
          msg : Messages \cup {NoMsg}]

Init ==
  /\ tcp = "connecting" /\ context = "running"
  /\ open = [e \in Ends |-> TRUE]
  /\ started = [e \in Ends |-> FALSE]
  /\ posts = [e \in Ends |-> <<>>]
  /\ out = [e \in Ends |-> <<>>]
  /\ writing = [e \in Ends |-> <<>>]
  /\ reading = [e \in Ends |-> "none"]
  /\ stream = [e \in Ends |-> <<>>]
  /\ temporary = [e \in Ends |-> NoMsg]
  /\ validated = FALSE
  /\ body = [e \in Ends |-> NoMsg]
  /\ in = [e \in Ends |-> <<>>] /\ inBody = [e \in Ends |-> <<>>]
  /\ sent = [e \in Ends |-> <<>>]

\* The thread of e runs handlers.
Runs(e) == e = "client" => context = "running"

\* An operation of e on its socket may fail: it is closed, the connection is
\* gone, or the peer has closed its end.
MayBreak(e) ==
  ~open[e] \/ tcp \in {"refused", "lost"} \/ ~open[Peer(e)]

\* WriteHeader, if there is a message at the front of q.
HeaderOf(q) == IF q = <<>> THEN <<>> ELSE <<Unit("header", Head(q))>>

-----------------------------------------------------------------------------
(* Mistakes the runs are checked against.                                  *)

\* The message is queued at the wrong end, or its header written at once even
\* while another message is being written.
RunPostedInFront(e) ==
  /\ Runs(e) /\ posts[e] # <<>>
  /\ posts' = [posts EXCEPT ![e] = Tail(@)]
  /\ out' = [out EXCEPT ![e] = <<Head(posts[e])>> \o @]
  /\ writing' = [writing EXCEPT
                   ![e] = IF out[e] = <<>> THEN @ \o HeaderOf(posts[e]) ELSE @]
  /\ UNCHANGED <<link, open, started, inbound, sent>>

RunPostedAlways(e) ==
  /\ Runs(e) /\ posts[e] # <<>>
  /\ posts' = [posts EXCEPT ![e] = Tail(@)]
  /\ out' = [out EXCEPT ![e] = Append(@, Head(posts[e]))]
  /\ writing' = [writing EXCEPT ![e] = @ \o HeaderOf(posts[e])]
  /\ UNCHANGED <<link, open, started, inbound, sent>>

\* After a message the next one is left in the queue.
MessageWrittenStops(e) ==
  /\ Runs(e) /\ writing[e] # <<>> /\ Head(writing[e]).kind \in {"header", "body"}
  /\ open[e] /\ tcp = "up"
  /\ Head(writing[e]).kind = "header" => Head(out[e]) \in Bare
  /\ stream' = [stream EXCEPT ![Peer(e)] = Append(@, Head(writing[e]))]
  /\ out' = [out EXCEPT ![e] = Tail(@)]
  /\ writing' = [writing EXCEPT ![e] = Tail(@)]
  /\ UNCHANGED <<link, open, started, posts, reading, temporary, body, validated, received,
                 sent>>

\* The accept message is sent at once, before the puzzle.
AcceptHandlerInline ==
  /\ ~started["server"] /\ tcp \in {"up", "lost"}
  /\ started' = [started EXCEPT !["server"] = TRUE]
  /\ sent' = [sent EXCEPT !["server"] = Append(@, ServerAccept)]
  /\ out' = [out EXCEPT !["server"] = Append(@, ServerAccept)]
  /\ writing' = [writing EXCEPT
                   !["server"] = @ \o <<Unit("header", ServerAccept), Puzzle>>]
  /\ reading' = [reading EXCEPT !["server"] = "validation"]
  /\ UNCHANGED <<link, open, posts, stream, temporary, body, validated, received>>

\* A wrong answer is noted, and the connection read from all the same.
RejectAnswerReads ==
  /\ reading["server"] = "validation" /\ stream["server"] # <<>> /\ open["server"]
  /\ Head(stream["server"]).kind # "answer"
  /\ stream' = [stream EXCEPT !["server"] = Tail(@)]
  /\ reading' = [reading EXCEPT !["server"] = "header"]
  /\ UNCHANGED <<link, open, started, queues, temporary, body, validated, received,
                 sent>>

\* The header passed on is the one read before.
BareReadStale(e) ==
  /\ Runs(e) /\ reading[e] = "header" /\ stream[e] # <<>> /\ open[e]
  /\ Head(stream[e]).msg \in Bare
  /\ stream' = [stream EXCEPT ![e] = Tail(@)]
  /\ temporary' = [temporary EXCEPT ![e] = Head(stream[e]).msg]
  /\ in' = [in EXCEPT ![e] = Append(@, temporary[e])]
  /\ inBody' = [inBody EXCEPT ![e] = Append(@, body[e])]
  /\ UNCHANGED <<link, open, started, queues, reading, body, validated, sent>>

\* The client's answer is out, and it waits for nothing.
ValidationWrittenIdle(e) ==
  /\ Runs(e) /\ writing[e] # <<>> /\ Head(writing[e]).kind \in {"puzzle", "answer"}
  /\ open[e] /\ tcp = "up"
  /\ stream' = [stream EXCEPT ![Peer(e)] = Append(@, Head(writing[e]))]
  /\ writing' = [writing EXCEPT ![e] = Tail(@)]
  /\ UNCHANGED <<link, open, started, posts, out, reading, temporary, body, validated,
                 received, sent>>

\* Nobody is greeted.
OnClientConnectSilent == UNCHANGED <<sent, posts>>

\* A failed read leaves the socket open.
ReadFailOpen(e) ==
  /\ Runs(e) /\ reading[e] # "none" /\ MayBreak(e)
  /\ reading' = [reading EXCEPT ![e] = "none"]
  /\ UNCHANGED <<link, open, started, queues, stream, temporary, body, validated, received,
                 sent>>
-----------------------------------------------------------------------------
(* The network.                                                            *)

Establish ==
  /\ tcp = "connecting"
  /\ tcp' = "up"
  /\ UNCHANGED <<context, open, started, queues, inbound, sent>>

Refuse ==
  /\ MayFail /\ tcp = "connecting"
  /\ tcp' = "refused"
  /\ UNCHANGED <<context, open, started, queues, inbound, sent>>

\* The connection breaks, and the kernels say so.  (No keepalive is set: of a peer
\* that falls silent nobody would learn anything.)
Lose ==
  /\ MayFail /\ tcp = "up"
  /\ tcp' = "lost"
  /\ UNCHANGED <<context, open, started, queues, inbound, sent>>

-----------------------------------------------------------------------------
(* Starting.  Connect has called async_connect on the client's open socket *)
(* and started its thread.                                                 *)

\* The handler of async_connect: without an error, wait for the puzzle.
ConnectHandler ==
  /\ Runs("client") /\ ~started["client"] /\ tcp # "connecting"
  /\ started' = [started EXCEPT !["client"] = TRUE]
  /\ reading' = IF tcp = "refused" THEN reading
                ELSE [reading EXCEPT !["client"] = "validation"]
  /\ UNCHANGED <<link, open, queues, stream, temporary, body, validated, received,
                 sent>>

\* CustomServer::OnClientConnect posts the accept message.
OnClientConnect ==
  /\ sent' = [sent EXCEPT !["server"] = Append(@, ServerAccept)]
  /\ posts' = [posts EXCEPT !["server"] = Append(@, ServerAccept)]

\* The server starts writing the puzzle and waits for its answer.
ConnectToClient ==
  /\ writing' = [writing EXCEPT !["server"] = Append(@, Puzzle)]
  /\ reading' = [reading EXCEPT !["server"] = "validation"]

\* The handler of async_accept.
AcceptHandler ==
  /\ ~started["server"] /\ open["server"] /\ tcp \in {"up", "lost"}
  /\ started' = [started EXCEPT !["server"] = TRUE]
  /\ OnClientConnect
  /\ ConnectToClient
  /\ UNCHANGED <<link, open, out, stream, temporary, body, validated, received>>

\* remote_endpoint() throws when the peer has gone, and nothing catches it: the
\* server's process ends.
AcceptThrows ==
  /\ ~started["server"] /\ open["server"] /\ tcp = "lost"
  /\ open' = [open EXCEPT !["server"] = FALSE]
  /\ UNCHANGED <<link, started, queues, inbound, sent>>

-----------------------------------------------------------------------------
(* The applications' threads.                                              *)

\* Send posts the message.  The client's interface asks IsConnected() first,
\* which is m_socket.is_open(); the server's handlers do not ask.
Send(e, m) ==
  /\ Len(sent[e]) < MaxSends
  /\ IF e = "server" THEN started[e]
     ELSE /\ open[e] /\ context # "exited"
          /\ Eager \/ reading[e] \in {"header", "body"}
  /\ sent' = [sent EXCEPT ![e] = Append(@, m)]
  /\ posts' = [posts EXCEPT ![e] = Append(@, m)]
  /\ UNCHANGED <<link, open, started, out, writing, inbound>>

\* The client's main returns: Disconnect posts a close and stops the context,
\* which may be before the posted handlers have run; then the process ends.
Exit ==
  /\ MayFail /\ context # "exited"
  /\ context' = "exited"
  /\ open' = [open EXCEPT !["client"] = FALSE]
  /\ UNCHANGED <<tcp, started, queues, inbound, sent>>

\* io_context::run() returns for good when no handler is pending.
ContextReturns ==
  /\ context = "running" /\ started["client"]
  /\ posts["client"] = <<>> /\ writing["client"] = <<>>
  /\ reading["client"] = "none"
  /\ context' = "returned"
  /\ UNCHANGED <<tcp, open, started, queues, inbound, sent>>

-----------------------------------------------------------------------------
(* Writing.                                                                *)

\* The handler that Send posted: a message in the queue is taken to be in the
\* process of being written.
RunPosted(e) ==
  /\ Runs(e) /\ posts[e] # <<>>
  /\ posts' = [posts EXCEPT ![e] = Tail(@)]
  /\ out' = [out EXCEPT ![e] = Append(@, Head(posts[e]))]
  /\ writing' = [writing EXCEPT
                   ![e] = IF out[e] = <<>> THEN @ \o HeaderOf(posts[e]) ELSE @]
  /\ UNCHANGED <<link, open, started, inbound, sent>>

\* The oldest write in flight has gone out; to a closed peer it is lost.
Written(e, kinds) ==
  /\ Runs(e) /\ writing[e] # <<>> /\ Head(writing[e]).kind \in kinds
  /\ open[e] /\ tcp = "up"
  /\ stream' = [stream EXCEPT
                  ![Peer(e)] = IF open[Peer(e)] THEN Append(@, Head(writing[e])) ELSE @]

\* WriteValidation's handler: the client goes on to read messages.
ValidationWritten(e) ==
  /\ Written(e, {"puzzle", "answer", "wrong"})
  /\ writing' = [writing EXCEPT ![e] = Tail(@)]
  /\ reading' = IF e = "client" THEN [reading EXCEPT ![e] = "header"] ELSE reading
  /\ UNCHANGED <<link, open, started, posts, out, temporary, body, validated, received,
                 sent>>

\* WriteHeader's handler, when a body follows.
HeaderWritten(e) ==
  /\ Written(e, {"header"})
  /\ Head(out[e]) \in Bodied
  /\ writing' = [writing EXCEPT ![e] = Append(Tail(@), Unit("body", Head(out[e])))]
  /\ UNCHANGED <<link, open, started, posts, out, reading, temporary, body, validated,
                 received, sent>>

\* WriteHeader's handler without a body, and WriteBody's: on to the next message.
MessageWritten(e) ==
  /\ Written(e, {"header", "body"})
  /\ Head(writing[e]).kind = "header" => Head(out[e]) \in Bare
  /\ out' = [out EXCEPT ![e] = Tail(@)]
  /\ writing' = [writing EXCEPT ![e] = Tail(@) \o HeaderOf(Tail(out[e]))]
  /\ UNCHANGED <<link, open, started, posts, reading, temporary, body, validated, received,
                 sent>>

\* A write's handler gets an error: the message stays in the queue.
WriteFail(e) ==
  /\ Runs(e) /\ writing[e] # <<>> /\ MayBreak(e)
  /\ writing' = [writing EXCEPT ![e] = Tail(@)]
  /\ open' = [open EXCEPT ![e] = FALSE]
  /\ UNCHANGED <<link, started, posts, out, inbound, sent>>

-----------------------------------------------------------------------------
(* Reading.                                                                *)

\* The read in flight at e has got the next unit.
Got(e, what) ==
  /\ Runs(e) /\ reading[e] = what /\ stream[e] # <<>> /\ open[e]
  /\ stream' = [stream EXCEPT ![e] = Tail(@)]

\* What it makes of the puzzle is the answer the server has computed; what it
\* makes of anything else is not.
Scramble(u) == Unit(IF u.kind = "puzzle" THEN "answer" ELSE "wrong", NoMsg)

\* ReadValidation's handler at the client: solve what was read, send the result.
SolvePuzzle ==
  /\ Got("client", "validation")
  /\ writing' = [writing EXCEPT
                   !["client"] = Append(@, Scramble(Head(stream["client"])))]
  /\ reading' = [reading EXCEPT !["client"] = "none"]
  /\ UNCHANGED <<link, open, started, posts, out, temporary, body, validated, received,
                 sent>>

\* ReadValidation's handler at the server.
AcceptAnswer ==
  /\ Got("server", "validation") /\ Head(stream["server"]).kind = "answer"
  /\ validated' = TRUE
  /\ reading' = [reading EXCEPT !["server"] = "header"]
  /\ UNCHANGED <<link, open, started, queues, temporary, body, received, sent>>

RejectAnswer ==
  /\ Got("server", "validation") /\ Head(stream["server"]).kind # "answer"
  /\ open' = [open EXCEPT !["server"] = FALSE]
  /\ reading' = [reading EXCEPT !["server"] = "none"]
  /\ UNCHANGED <<link, started, queues, temporary, body, validated, received,
                 sent>>

\* ReadHeader's handler, when a body follows: m_msgTemporaryIn.body gets its size.
\* Nobody sees what it holds until the body has been read over it.
HeaderRead(e) ==
  /\ Got(e, "header") /\ Head(stream[e]).msg \in Bodied
  /\ temporary' = [temporary EXCEPT ![e] = Head(stream[e]).msg]
  /\ reading' = [reading EXCEPT ![e] = "body"]
  /\ UNCHANGED <<link, open, started, queues, body, validated, received, sent>>

\* m_msgTemporaryIn, header m and body b, is copied; the next read is for a header.
AddToIncomingMessageQueue(e, m, b) ==
  /\ in' = [in EXCEPT ![e] = Append(@, m)]
  /\ inBody' = [inBody EXCEPT ![e] = Append(@, b)]
  /\ reading' = [reading EXCEPT ![e] = "header"]

\* ReadHeader's handler without a body.  Nothing clears m_msgTemporaryIn.body: the
\* message takes along the body of the one before.
BareRead(e) ==
  /\ Got(e, "header") /\ Head(stream[e]).msg \in Bare
  /\ temporary' = [temporary EXCEPT ![e] = Head(stream[e]).msg]
  /\ AddToIncomingMessageQueue(e, Head(stream[e]).msg, body[e])
  /\ UNCHANGED <<link, open, started, queues, body, validated, sent>>

\* ReadBody's handler.
BodyRead(e) ==
  /\ Got(e, "body")
  /\ body' = [body EXCEPT ![e] = Head(stream[e]).msg]
  /\ AddToIncomingMessageQueue(e, temporary[e], Head(stream[e]).msg)
  /\ UNCHANGED <<link, open, started, queues, temporary, validated, sent>>

\* A read's handler gets an error.
ReadFail(e) ==
  /\ Runs(e) /\ reading[e] # "none" /\ MayBreak(e)
  /\ reading' = [reading EXCEPT ![e] = "none"]
  /\ open' = [open EXCEPT ![e] = FALSE]
  /\ UNCHANGED <<link, started, queues, stream, temporary, body, validated, received,
                 sent>>

-----------------------------------------------------------------------------
Handler(e) ==
  \/ e = "client" /\ (ConnectHandler \/ ContextReturns \/ SolvePuzzle)
  \/ e = "server" /\ (AcceptHandler \/ AcceptThrows \/ AcceptAnswer \/ RejectAnswer)
  \/ RunPosted(e)
  \/ ValidationWritten(e) \/ HeaderWritten(e) \/ MessageWritten(e) \/ WriteFail(e)
  \/ HeaderRead(e) \/ BareRead(e) \/ BodyRead(e) \/ ReadFail(e)

Next ==
  \/ Establish \/ Refuse \/ Lose \/ Exit
  \/ \E e \in Ends : Handler(e)
  \/ \E e \in Ends, m \in Messages : Send(e, m)

Spec == Init /\ [][Next]_vars

\* Both threads keep running handlers, and connecting comes to an end.
FairSpec ==
  /\ Spec
  /\ WF_vars(Establish \/ Refuse)
  /\ \A e \in Ends : WF_vars(Handler(e))

-----------------------------------------------------------------------------
(* Properties.                                                             *)

\* Every variable has its type.
TypeOK ==
  /\ tcp \in {"connecting", "up", "refused", "lost"}
  /\ context \in {"running", "returned", "exited"}
  /\ open \in [Ends -> BOOLEAN] /\ started \in [Ends -> BOOLEAN]
  /\ posts \in [Ends -> Seq(Messages)] /\ out \in [Ends -> Seq(Messages)]
  /\ writing \in [Ends -> Seq(Units)] /\ stream \in [Ends -> Seq(Units)]
  /\ reading \in [Ends -> {"validation", "header", "body", "none"}]
  /\ temporary \in [Ends -> Messages \cup {NoMsg}]
  /\ body \in [Ends -> Messages \cup {NoMsg}]
  /\ validated \in BOOLEAN
  /\ inBody \in [Ends -> Seq(Messages \cup {NoMsg})]
  /\ in \in [Ends -> Seq(Messages)] /\ sent \in [Ends -> Seq(Messages)]

\* The messages an end receives are those the other passed to Send, in that order,
\* without a gap or a repetition, however the connection ends, and every message
\* with a body comes with its own, although one buffer serves them all and nothing
\* clears it.  (One without comes with the bytes of the last one that had some, as
\* Dialogue says.  net_connection.h:181-357.)
ReceivedInOrder ==
  \A e \in Ends :
    /\ IsPrefix(in[e], sent[Peer(e)])
    /\ Len(inBody[e]) = Len(in[e])
    /\ \A i \in DOMAIN in[e] : in[e][i] \in Bodied => inBody[e][i] = in[e][i]

\* No read takes a unit for one of another kind, but for the server's reading of
\* the answer, which checks it: what is read first is what was written first,
\* although the handshake and the messages do not share a queue
\* (net_connection.h:131, 183, 395; SimpleServer.cpp:163).
ReadersInStep ==
  \A e \in Ends :
    stream[e] # <<>> =>
      /\ reading[e] \in {"header", "body"} => Head(stream[e]).kind = reading[e]
      /\ reading[e] = "body" => Head(stream[e]).msg = temporary[e]
      /\ e = "client" /\ reading[e] = "validation" => Head(stream[e]).kind = "puzzle"

\* Nothing reaches the server's application before the answer was right, although
\* a client may send its first message where the answer should be
\* (net_connection.h:395-410).
ValidatedFirst == in["server"] # <<>> => validated

\* The places in `writing' of the parts of messages.
MessageWrites(e) == {i \in DOMAIN writing[e] : writing[e][i].kind \in {"header", "body"}}

\* While a socket is open exactly one part of one message is being written if
\* there are messages to write, and that of the front one, whose memory the
\* write refers to (net_connection.h:186-196, 209, 255).
FrontIsWritten ==
  \A e \in Ends :
    open[e] => IF out[e] = <<>> THEN MessageWrites(e) = {}
               ELSE \E i \in DOMAIN writing[e] :
                      /\ MessageWrites(e) = {i}
                      /\ writing[e][i].msg = Head(out[e])

\* An open end that is connected always waits for its peer, or writes the answer
\* whose handler will: without an operation in flight it would neither hear more
\* nor notice that the connection breaks (net_connection.h:135, 154, 300, 356,
\* 377, 402: each handler starts the next read).
KeepsListening ==
  \A e \in Ends :
    started[e] /\ open[e] /\ tcp # "refused" =>
      \/ reading[e] # "none"
      \/ e = "client" /\ \E i \in DOMAIN writing[e] : writing[e][i].kind = "answer"

D == INSTANCE Dialogue WITH Greeting <- ServerAccept, admitted <- validated

\* Through handshake, queues, writes, units, reads and failures the connection does
\* what Dialogue says: each handler is one step of it or none
\* (net_connection.h:181-426; net_server.h:145-155).
ImplementsDialogue == D!DSpec

\* The server has turned the client away: it read something else, a message sent
\* too early, in the place of the answer.
TurnedAway == ~validated /\ ~open["server"]

\* All that is sent arrives, both ways, unless the connection fails, the client
\* quits, or it sent before its handshake was over
\* (net_connection.h:231, 266, 356: each handler starts the next operation).
Delivered ==
  \A e \in Ends, k \in 1..MaxSends :
    Len(sent[e]) >= k ~>
      \/ Len(in[Peer(e)]) >= k
      \/ tcp \in {"refused", "lost"} \/ context = "exited" \/ TurnedAway

\* When the connection breaks, at whatever point of the handshake or of a message,
\* both ends close: some operation of theirs is always in flight to notice
\* (net_connection.h:244, 275, 314, 338, 381, 423).
BothNotice ==
  tcp = "lost" ~> (context = "exited" \/ ~open["client"]) /\ ~open["server"]

-----------------------------------------------------------------------------
(* What the documentation says, and the code does not do.                  *)

\* README.md:15, of "clientel -run": "Passes a run to server".
EverySendArrives ==
  \A k \in 1..MaxSends : Len(sent["client"]) >= k ~> Len(in["server"]) >= k
=============================================================================
