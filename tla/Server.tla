------------------------------- MODULE Server -------------------------------
(***************************************************************************)
(* server_interface (net_server.h): the container m_deqConnections of      *)
(* shared pointers, the messages that own a pointer each, and the handlers *)
(* that own none.                                                          *)
(*                                                                         *)
(* The asio thread accepts connections, pushes them into the container and *)
(* runs their handlers, which capture `this'.  The main thread handles the *)
(* messages received (Update, OnMessage); for a MessageAll it walks the    *)
(* container, drops the pointers to closed connections and erases them     *)
(* (MessageAllClients).  No lock protects the container: a step is what a  *)
(* thread does with it between two points where the other one's steps      *)
(* matter.  A connection lives as long as some pointer to it does.         *)
(*                                                                         *)
(* Connection has the streams in detail; here a read yields a message or   *)
(* fails, and what a Send posts is one handler to come, until its message  *)
(* is written.  Not here: identifiers (nIDCounter), MessageClient, which   *)
(* nobody calls, a denied connection, since OnClientConnect never denies   *)
(* one, and Stop: main never returns.                                      *)
(***************************************************************************)
EXTENDS Integers, Sequences, SequencesExt, FiniteSets

CONSTANTS
  Conns,        \* the connections that clients may open
  None,         \* the null pointer; no connection
  Cap,          \* bound: messages queued before clients stop sending
  MaxMessages   \* bound: messages that clients send in all

ASSUME ServerAssumption ==
  /\ None \notin Conns
  /\ Cap \in Nat /\ MaxMessages \in Nat

VARIABLES
  conns,     \* m_deqConnections
  made,      \* the connections made so far
  open,      \* m_socket.is_open()
  reads,     \* the reads in flight: for "validation", for a "message"
  writes,    \* how many handlers of posted Sends and of writes are to come
  apc,       \* the accept handler: "idle", or about to "listen" to back() and "report"
  fresh,     \* the connection that it has just pushed
  queue,     \* m_qMessagesIn
  leaked,    \* pointers overwritten in a race, never released
  late,      \* for the properties: connections pushed during a remove and erase
  arrived,   \* how many messages have been received
  mpc,       \* main: "idle", "handle", "visit" the container, "remove" the null
             \* pointers, ask for the "end", "erase" them
  cur,       \* the message being handled: its sender and kind
  k, last,   \* the range-for: the position reached, and the end it started with
  found,     \* bInvalidClientExists
  cut, outer,   \* where std::remove has ended; the end() that erase is given
  walk,      \* for the properties: what this MessageAllClients met and did
  alive      \* has the process survived?

sockets == <<open, reads, writes>>
accepting == <<apc, fresh>>
lost == <<leaked, late>>
erasing == <<cut, outer>>
loop == <<mpc, cur, k, last, erasing, found, walk>>
vars == <<conns, made, sockets, accepting, queue, lost, arrived, loop, alive>>

Reads == {"validation", "message"}
\* "ping" stands for what is answered with one Send (ServerPing, SendText,
\* Qstatus); RunScheduler has the messages that are not answered.
Kinds == {"ping", "all"}
Message == [remote : Conns, kind : Kinds]
NoMessage == [remote |-> None, kind |-> "none"]
NoWalk == [members |-> {}, gone |-> {}, reached |-> {}]

\* The pointers of s that are not null, as a set, and in their order.
Pointers(s) == {c \in ToSet(s) : c # None}
NonNullTrace(s) ==
  LET kept[i \in 0..Len(s)] ==
        IF i = 0 THEN <<>>
        ELSE IF s[i] = None THEN kept[i-1] ELSE Append(kept[i-1], s[i])
  IN  kept
NonNull(s) == NonNullTrace(s)[Len(s)]

Nulls(n) == [i \in 1..n |-> None]

\* Does a shared pointer to c exist?
Exists(c) ==
  \/ c \in Pointers(conns) \cup leaked \cup {cur.remote}
  \/ \E i \in DOMAIN queue : queue[i].remote = c

Init ==
  /\ conns = <<>> /\ made = {}
  /\ open = [c \in Conns |-> FALSE]
  /\ reads = [c \in Conns |-> {}]
  /\ writes = [c \in Conns |-> 0]
  /\ apc = "idle" /\ fresh = None
  /\ queue = <<>> /\ leaked = {} /\ late = {} /\ arrived = 0
  /\ mpc = "idle" /\ cur = NoMessage
  /\ k = 1 /\ last = 0 /\ found = FALSE /\ cut = 0 /\ outer = 0
  /\ walk = NoWalk
  /\ alive = TRUE

\* The process ends, and its memory and its sockets with it.
Dies ==
  /\ alive' = FALSE
  /\ conns' = <<>> /\ made' = {}
  /\ open' = [c \in Conns |-> FALSE]
  /\ reads' = [c \in Conns |-> {}] /\ writes' = [c \in Conns |-> 0]
  /\ apc' = "idle" /\ fresh' = None
  /\ queue' = <<>> /\ leaked' = {} /\ late' = {} /\ arrived' = 0
  /\ mpc' = "idle" /\ cur' = NoMessage
  /\ k' = 1 /\ last' = 0 /\ found' = FALSE /\ cut' = 0 /\ outer' = 0
  /\ walk' = NoWalk

-----------------------------------------------------------------------------
(* The asio thread: the accept handler.                                    *)

AsioFree == alive /\ apc = "idle"

\* A new connection: OnClientConnect posts the accept message, then the pointer
\* moves into the container.
Accept(c) ==
  /\ AsioFree /\ c \notin made
  /\ made' = made \cup {c}
  /\ open' = [open EXCEPT ![c] = TRUE]
  /\ writes' = [writes EXCEPT ![c] = 1]
  /\ conns' = Append(conns, c)
  /\ apc' = "listen" /\ fresh' = c
  /\ late' = IF mpc \in {"remove", "end", "erase"} THEN late \cup {c} ELSE late
  /\ UNCHANGED <<reads, queue, leaked, arrived, loop, alive>>

\* remote_endpoint() throws if the peer is gone already, and nobody catches it.
AcceptThrows == AsioFree /\ made # Conns /\ Dies

BackExists == conns # <<>> /\ Last(conns) # None

\* m_deqConnections.back()->ConnectToClient(...): write the puzzle, await the
\* answer.
ListenToBack ==
  /\ alive /\ apc = "listen"
  /\ BackExists
  /\ IF open[Last(conns)]
     THEN /\ writes' = [writes EXCEPT ![Last(conns)] = @ + 1]
          /\ reads' = [reads EXCEPT ![Last(conns)] = @ \cup {"validation"}]
     ELSE UNCHANGED <<writes, reads>>
  /\ apc' = "report" /\ fresh' = None
  /\ UNCHANGED <<conns, made, open, queue, lost, arrived, loop, alive>>

\* back() once more, for the identifier to report.
ReportBack ==
  /\ alive /\ apc = "report"
  /\ BackExists
  /\ apc' = "idle"
  /\ UNCHANGED <<conns, made, sockets, fresh, queue, lost, arrived, loop, alive>>

\* Either call through a null pointer, or the back() of an empty deque.
BackIsNull ==
  /\ alive /\ apc # "idle"
  /\ ~BackExists
  /\ Dies

-----------------------------------------------------------------------------
(* The asio thread: handlers of a connection that exists.                  *)

\* Mistake: the handler of a write is called for nothing.
WrittenTwice(c) ==
  /\ AsioFree /\ Exists(c) /\ open[c]
  /\ writes' = [writes EXCEPT ![c] = @ - 1]
  /\ UNCHANGED <<conns, made, open, reads, accepting, queue, lost, arrived, loop, alive>>

\* A posted Send has run and its message, or a puzzle, is written.
Written(c) ==
  /\ AsioFree /\ Exists(c) /\ writes[c] > 0
  /\ writes' = [writes EXCEPT ![c] = @ - 1]
  /\ UNCHANGED <<conns, made, open, reads, accepting, queue, lost, arrived, loop, alive>>

Completes(c, what) == AsioFree /\ Exists(c) /\ what \in reads[c] /\ open[c]

\* The answer is right: wait for messages.  (A wrong one closes, as ReadFail does.)
Validated(c) ==
  /\ Completes(c, "validation")
  /\ reads' = [reads EXCEPT ![c] = (@ \ {"validation"}) \cup {"message"}]
  /\ UNCHANGED <<conns, made, open, writes, accepting, queue, lost, arrived, loop, alive>>

\* AddToIncomingMessageQueue: the message owns a pointer to its connection.
Receive(c, kind) ==
  /\ Completes(c, "message")
  /\ Len(queue) < Cap /\ arrived < MaxMessages
  /\ queue' = Append(queue, [remote |-> c, kind |-> kind])
  /\ arrived' = arrived + 1
  /\ UNCHANGED <<conns, made, sockets, accepting, lost, loop, alive>>

\* A handler is called with an error, and closes the socket.
ReadFail(c, what) ==
  /\ AsioFree /\ Exists(c) /\ what \in reads[c]
  /\ open' = [open EXCEPT ![c] = FALSE]
  /\ reads' = [reads EXCEPT ![c] = @ \ {what}]
  /\ UNCHANGED <<conns, made, writes, accepting, queue, lost, arrived, loop, alive>>

WriteFail(c) ==
  /\ AsioFree /\ Exists(c) /\ writes[c] > 0
  /\ open' = [open EXCEPT ![c] = FALSE]
  /\ writes' = [writes EXCEPT ![c] = @ - 1]
  /\ UNCHANGED <<conns, made, reads, accepting, queue, lost, arrived, loop, alive>>

\* The handlers of a connection that has been destroyed still run, those of its
\* operations with operation_aborted: on freed memory, which may pass or not.
Dangling(c) ==
  /\ AsioFree /\ c \in made /\ ~Exists(c)
  /\ \/ \E what \in reads[c] : /\ reads' = [reads EXCEPT ![c] = @ \ {what}]
                                /\ UNCHANGED writes
     \/ /\ writes[c] > 0
        /\ writes' = [writes EXCEPT ![c] = @ - 1]
        /\ UNCHANGED reads
  /\ UNCHANGED <<conns, made, open, accepting, queue, lost, arrived, loop, alive>>

DanglingDies(c) ==
  /\ AsioFree /\ c \in made /\ ~Exists(c)
  /\ reads[c] # {} \/ writes[c] > 0
  /\ Dies

-----------------------------------------------------------------------------
(* The main thread: Update and OnMessage.                                  *)

TakeMessage ==
  /\ alive /\ mpc = "idle" /\ queue # <<>>
  /\ cur' = Head(queue)
  /\ queue' = Tail(queue)
  /\ mpc' = "handle"
  /\ UNCHANGED <<conns, made, sockets, accepting, lost, arrived, k, last, erasing,
                 found, walk, alive>>

\* client->Send(msg), without asking whether it is connected.
Reply ==
  /\ alive /\ mpc = "handle" /\ cur.kind = "ping"
  /\ writes' = [writes EXCEPT ![cur.remote] = @ + 1]
  /\ mpc' = "idle" /\ cur' = NoMessage
  /\ UNCHANGED <<conns, made, open, reads, accepting, queue, lost, arrived,
                 k, last, erasing, found, walk, alive>>

-----------------------------------------------------------------------------
(* The main thread: MessageAllClients(msg, cur.remote).                    *)

\* The call returns: its variables are gone, and so is the handler's pointer.
Done ==
  /\ mpc' = "idle" /\ cur' = NoMessage
  /\ k' = 1 /\ last' = 0 /\ found' = FALSE /\ cut' = 0 /\ outer' = 0
  /\ walk' = NoWalk

StartWalk ==
  /\ alive /\ mpc = "handle" /\ cur.kind = "all"
  /\ last' = Len(conns)
  /\ walk' = [members |-> Pointers(conns),
              gone |-> {c \in Pointers(conns) : ~open[c]}, reached |-> {}]
  /\ mpc' = "visit"
  /\ UNCHANGED <<conns, made, sockets, accepting, queue, lost, arrived, cur, k, erasing,
                 found, alive>>

\* Mistakes: the client to be ignored is taken for a dead one, or is sent the
\* message too; the flag that there are dead ones is forgotten.
VisitSenderAsDead ==
  /\ alive /\ mpc = "visit" /\ k <= last /\ conns[k] # None
  /\ LET c == conns[k] IN
       IF open[c] /\ c # cur.remote
       THEN /\ writes' = [writes EXCEPT ![c] = @ + 1]
            /\ walk' = [walk EXCEPT !.reached = @ \cup {c}]
            /\ UNCHANGED <<conns, found>>
       ELSE /\ conns' = [conns EXCEPT ![k] = None]
            /\ found' = TRUE
            /\ UNCHANGED <<writes, walk>>
  /\ k' = k + 1
  /\ UNCHANGED <<made, open, reads, accepting, queue, lost, arrived, mpc, cur,
                 last, erasing, alive>>

VisitSenderToo ==
  /\ alive /\ mpc = "visit" /\ k <= last /\ conns[k] # None
  /\ LET c == conns[k] IN
       IF open[c]
       THEN /\ writes' = [writes EXCEPT ![c] = @ + 1]
            /\ walk' = [walk EXCEPT !.reached = @ \cup {c}]
            /\ UNCHANGED <<conns, found>>
       ELSE /\ conns' = [conns EXCEPT ![k] = None]
            /\ found' = TRUE
            /\ UNCHANGED <<writes, walk>>
  /\ k' = k + 1
  /\ UNCHANGED <<made, open, reads, accepting, queue, lost, arrived, mpc, cur,
                 last, erasing, alive>>

VisitUnflagged ==
  /\ alive /\ mpc = "visit" /\ k <= last /\ conns[k] # None
  /\ LET c == conns[k] IN
       IF open[c]
       THEN /\ writes' = IF c = cur.remote THEN writes ELSE [writes EXCEPT ![c] = @ + 1]
            /\ walk' = [walk EXCEPT !.reached = @ \cup ({c} \ {cur.remote})]
            /\ UNCHANGED conns
       ELSE /\ conns' = [conns EXCEPT ![k] = None]
            /\ UNCHANGED <<writes, walk>>
  /\ k' = k + 1
  /\ UNCHANGED <<made, open, reads, accepting, queue, lost, arrived, mpc, cur,
                 last, erasing, found, alive>>

\* One turn of the loop: send, or say good-bye and reset the pointer.
Visit ==
  /\ alive /\ mpc = "visit" /\ k <= last /\ conns[k] # None
  /\ LET c == conns[k] IN
       IF open[c]
       THEN /\ writes' = IF c = cur.remote THEN writes ELSE [writes EXCEPT ![c] = @ + 1]
            /\ walk' = [walk EXCEPT !.reached = @ \cup ({c} \ {cur.remote})]
            /\ UNCHANGED <<conns, found>>
       ELSE /\ conns' = [conns EXCEPT ![k] = None]
            /\ found' = TRUE
            /\ UNCHANGED <<writes, walk>>
  /\ k' = k + 1
  /\ UNCHANGED <<made, open, reads, accepting, queue, lost, arrived, mpc, cur,
                 last, erasing, alive>>

\* push_back has invalidated the loop's iterators: it may read a freed map.
VisitAstray ==
  /\ alive /\ mpc = "visit" /\ k <= last
  /\ Len(conns) > last
  /\ Dies

\* A null pointer that an erase has left: OnClientDisconnect asks it for its
\* identifier.
VisitNull ==
  /\ alive /\ mpc = "visit" /\ k <= last /\ conns[k] = None
  /\ Dies

NothingToRemove ==
  /\ alive /\ mpc = "visit" /\ k > last /\ ~found
  /\ Done
  /\ UNCHANGED <<conns, made, sockets, accepting, queue, lost, arrived, alive>>

\* erase(remove(begin(), end(), nullptr), end()): the two arguments may be
\* evaluated in either order, and the container may grow between the two.
EndFirst ==
  /\ alive /\ mpc = "visit" /\ k > last /\ found
  /\ outer' = Len(conns)
  /\ mpc' = "remove"
  /\ UNCHANGED <<conns, made, sockets, accepting, queue, lost, arrived, cur, k, last,
                 cut, found, walk, alive>>

\* std::remove moves the pointers that are left to the front; behind them are
\* null pointers.
RemoveNulls ==
  /\ alive
  /\ \/ mpc = "visit" /\ k > last /\ found /\ mpc' = "end"
     \/ mpc = "remove" /\ mpc' = "erase"
  /\ LET kept == NonNull(conns) IN
       /\ conns' = kept \o Nulls(Len(conns) - Len(kept))
       /\ cut' = Len(kept)
  /\ UNCHANGED <<made, sockets, accepting, queue, lost, arrived, cur, k, last, outer,
                 found, walk, alive>>

EndLast ==
  /\ alive /\ mpc = "end"
  /\ outer' = Len(conns)
  /\ mpc' = "erase"
  /\ UNCHANGED <<conns, made, sockets, accepting, queue, lost, arrived, cur, k, last,
                 cut, found, walk, alive>>

\* erase destroys what is between the two places, a pointer pushed since too, and
\* what is behind them moves up.
Erase ==
  /\ alive /\ mpc = "erase" /\ cut <= outer
  /\ conns' = SubSeq(conns, 1, cut) \o SubSeq(conns, outer + 1, Len(conns))
  /\ Done
  /\ UNCHANGED <<made, sockets, accepting, queue, lost, arrived, alive>>

\* Pointers pushed while erase is at work stay where they are.  erase and push_back
\* both set the end, which may come to be anywhere behind what is kept; a pointer
\* behind it is destroyed or overwritten.
EraseRaces ==
  /\ alive /\ mpc = "erase" /\ cut < outer
  /\ \E i \in outer..(Len(conns) - 1) :
       LET kept == SubSeq(conns, 1, cut) \o SubSeq(conns, outer + 1, i)
           rest == Nulls(outer - cut) \o SubSeq(conns, i + 1, Len(conns))
       IN \E m \in 0..Len(rest) :
            /\ conns' = kept \o SubSeq(rest, 1, m)
            /\ \E over \in SUBSET (Pointers(conns) \ Pointers(conns')) :
                 leaked' = leaked \cup over
  /\ Done
  /\ UNCHANGED <<made, sockets, accepting, queue, late, arrived, alive>>

\* A push_back has invalidated the iterators that erase is given, or they are in
\* the wrong order: it may read a freed map, or run out of the container.
EraseAstray ==
  /\ alive /\ mpc = "erase"
  /\ outer < Len(conns) \/ Pointers(SubSeq(conns, cut + 1, Len(conns))) # {}
  /\ Dies

-----------------------------------------------------------------------------
AcceptHandler == \/ \E c \in Conns : Accept(c)
                 \/ AcceptThrows \/ ListenToBack \/ ReportBack \/ BackIsNull

Handler(c) ==
  \/ Written(c) \/ WriteFail(c) \/ Validated(c)
  \/ \E kind \in Kinds : Receive(c, kind)
  \/ \E what \in Reads : ReadFail(c, what)
  \/ Dangling(c) \/ DanglingDies(c)

MessageAllClients ==
  \/ StartWalk \/ Visit \/ VisitNull \/ VisitAstray \/ NothingToRemove
  \/ EndFirst \/ RemoveNulls \/ EndLast
  \/ Erase \/ EraseRaces \/ EraseAstray

Update == TakeMessage \/ Reply \/ MessageAllClients

Next == AcceptHandler \/ (\E c \in Conns : Handler(c)) \/ Update

Spec == Init /\ [][Next]_vars

-----------------------------------------------------------------------------
(* Properties.                                                             *)

\* Every variable has its type.
TypeOK ==
  /\ conns \in Seq(Conns \cup {None})
  /\ made \subseteq Conns /\ leaked \subseteq Conns /\ late \subseteq Conns
  /\ open \in [Conns -> BOOLEAN] /\ reads \in [Conns -> SUBSET Reads]
  /\ writes \in [Conns -> Nat]
  /\ apc \in {"idle", "listen", "report"} /\ fresh \in Conns \cup {None}
  /\ queue \in Seq(Message) /\ arrived \in 0..MaxMessages
  /\ mpc \in {"idle", "handle", "visit", "remove", "end", "erase"}
  /\ cur \in Message \cup {NoMessage}
  /\ k \in Nat \ {0} /\ last \in Nat /\ cut \in Nat /\ outer \in Nat
  /\ found \in BOOLEAN /\ alive \in BOOLEAN
  /\ walk \in [members : SUBSET Conns, gone : SUBSET Conns, reached : SUBSET Conns]

\* Until a connection has been pushed during a remove and erase, MessageAllClients
\* never comes to a null pointer that an earlier one has left: OnClientDisconnect
\* would call GetID through it (net_server.h:208-233, SimpleServer.cpp:170).
NoNullVisited == late = {} /\ mpc = "visit" /\ k <= last => conns[k] # None

\* A connection that was not pushed during a remove and erase is not cut off: its
\* last pointer, whose destructor closes the socket, goes only after the socket
\* has been closed, although pointers are reset, moved and destroyed on one
\* thread, and made and copied on another (net_server.h:149, 208-233).
NobodyElseCutOff == \A c \in made : open[c] => Exists(c) \/ c \in late

\* When MessageAllClients has come past its loop every connection that was in the
\* container has been sent the message or is out of it, the sender has not been
\* sent it, and of those closed when it began none is left, nor comes back while
\* the null pointers are removed and erased (net_server.h:203-234).
WalkComplete ==
  /\ mpc = "visit" /\ k > last =>
       /\ walk.members \ {cur.remote} \subseteq
            walk.reached \cup (walk.members \ Pointers(conns))
       /\ walk.reached \cap (walk.gone \cup {cur.remote}) = {}
  /\ mpc # "visit" \/ k > last => walk.gone \cap Pointers(conns) = {}

-----------------------------------------------------------------------------
(* What comments say and the missing lock contradicts.                     *)

\* net_server.h:151, "And very important! Issue a task to the connection's asio
\* context to sit and wait for bytes to arrive!": the connection that back() then
\* yields is the one the accept handler has just pushed.
BackIsNew == apc = "listen" => BackExists /\ Last(conns) = fresh

\* net_server.h:148, "Connection allowed, so add to container of new connections":
\* an allowed connection has a pointer to it, in the container, as long as its
\* socket is open.  erase may destroy the pointer that has just been pushed.
NobodyCutOff == \A c \in made : open[c] => Exists(c)
=============================================================================
