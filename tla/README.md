# servy in TLA+

servy is a job server: clients connect over TCP and submit *runs*, shell commands that ask for
cores of named machines. The server queues them, starts the front run when the cluster has the
cores, reserves these while the command runs and takes them back when it ends. This directory
holds a TLA+ model of it, TLC runs that check the model on small instances, and theorems about it
that TLAPS checks for every instance. Line numbers are those of the repository.

## 1. The system

| Component | State | Operations | Modelled by |
|---|---|---|---|
| cluster, machine (`cluster.h`, `machine.h`) | per machine `m_size`, `m_res`, `m_free` | `can_alloc`, `alloc`, `free` | `Cluster` |
| run (`run.h`) | extended id, list of machines with core counts | `operator==`, `execute` | `Cluster` (`Runs`), `RunScheduler` |
| run queue (`vq.h`) | a vector of runs | `add_item`, `rm_item`, `mvup`, `mvdn`, `pop_front` | `VQueue` |
| scheduler (`SimpleServer.cpp`) | `vq`, `active_runs`, `done_runs`, `mcluster`, `mu`, `cond` | `OnMessage`, `handle_runs`, `execute_run` | `RunScheduler` |
| thread-safe queue (`net_tsqueue.h`) | `deqQueue`, two mutexes, a condition variable | `push_back`, `empty`, `pop_front`, `wait` | `TsQueue` |
| server loop (`net_server.h`) | `m_qMessagesIn` | `Update` | `TsQueue` |
| connection (`net_connection.h`) | socket, `m_qMessagesOut`, `m_msgTemporaryIn`, handshake numbers | handlers of connect, accept, read and write; `Send` | `Connection` |
| client interface (`net_client.h`) | context, its thread, the connection | `Connect`, `Send`, `IsConnected`, `Disconnect` | `Connection`, `Client` |
| server interface (`net_server.h`) | `m_deqConnections` | accept, `MessageAllClients`, `Update`; `MessageClient`, `Stop` | `Server`, without the last two |
| interactive client (`client.cpp`) | `usrpick`, `gotnews`, `bQuit` | `get_userpick`, main loop | `Client` |
| message bodies (`net_message.h`) | a byte vector | `<<`, `>>`, `push_str`, `pop_str` | `MessageBody` |

**How they interact.** In the server three kinds of threads run. The *asio thread* runs every
handler of every connection and pushes complete messages into `m_qMessagesIn`. The *main thread*
waits on that queue and handles one message at a time (`OnMessage`), which changes `vq` under the
mutex `mu` and then notifies `cond`. The thread of *`handle_runs`* waits on `cond`, takes the front
run, reserves its machines, and starts a detached thread of *`execute_run`*, which returns the
machines under `mu` and notifies `cond` as well. In the client an asio thread does the same for its
one connection, the main thread polls, and a third thread reads the user's choices: it stores a
number in `usrpick` and sets `gotnews`, which the main loop tests, acts on and clears.

**What is hard.** Two condition variables, one waited on with a predicate (`cond`) and one without
(`tsqueue`); notifications after unlocking; reservations kept in two counters that three functions
test and change in different ways, silently doing nothing when a test fails; runs compared by an
id that need not be unique; a handshake and a message queue that write to one socket independently
of each other; operations in flight when a connection fails; a container of connections that one
thread appends to while another walks it and erases from it, with no lock; in the client, two
atomics that are meant as one, and a join on a thread that is blocked in a read. `PROJECT.json` lists these hazards
with their lines and the properties meant for them.

## 2. The modules

- **`SeqSums`**: sums over sequences of integers, as recursive functions.
- **`Cluster`**: machines and runs. `MachineAlloc` and `MachineFree` are `machine::alloc` and
  `free` with both counters and both silent refusals. `CanAlloc`, `Alloc` and `Free` are the loops of
  `cluster`; `AllocTrace` and `FreeTrace` keep the cluster after each iteration, since a run may name
  a machine twice, and the second request meets what the first has left. `Demand` and `TotalDemand`
  are what the accounting is measured against. A run is its `m_xid` and its requests.
- **`VQueue`**: the operations of `vqueue`, runs being named by their extended id
  (`operator==` compares nothing else).
- **`Allocation`**: the abstract scheduler. It has a queue and a list of running runs, and no
  counters: the front run starts if the running ones leave it, on each machine, the cores it asks for.
- **`RunScheduler`**: `CustomServer`. No critical section of `mu` blocks or takes another lock, so
  each is one step; what happens outside is a step of its own: `Notify` (`notify_one` after
  unlocking), `HandleSpawn` (the thread started after unlocking), and the time a command takes
  (between `HandleSpawn` and `Finish`). `HandleWait` is the predicate found false and the release of
  `mu`, one step as the condition variable promises; `SpuriousWake` wakes it without cause. `Finish` is
  the whole critical section of `execute_run`, the shortening of `done_runs` included. `MoveRunDownCrash`
  is the undefined comparison in `mvdn` on a vector that never had storage; `OnMessageThrows` the end of
  the process at a message whose archive cannot be read.
- **`MCRunScheduler`**: small clusters and runs for TLC.
- **`TsQueue`**: the queue between the asio thread and the main thread, at the grain of its locks:
  a step is what one thread does between taking a mutex, releasing it or blocking.
- **`Connection`**: both ends of one connection. A handler with the operations it starts is one
  step, since each `io_context` is run by one thread. `writing[e]` holds the writes in flight at end
  `e`, in the order they were started, which is the order in which the reactor performs them;
  `stream[e]` what is on its way to `e`. A stream is made of *units*: puzzle, answer, header, body. The first three
  are 8 bytes long each, so that any can be read in place of another: the model lets it happen, and
  `ReadersInStep` says where it does not. A header never equals an answer: the top byte of what
  `scramble` returns is 0xC0, which for a header would be a body of more than 3 GB. What `Send` posts
  waits in `posts[e]`. `m_msgTemporaryIn` is in two parts, since no code clears its body for a message
  without one: `temporary` is the header last read, `body` the bytes last read, and `inBody` keeps whose
  bytes went into the incoming queue with each message. `Exit` is the client's end, which may stop the
  context before posted handlers run; `AcceptThrows` the server's, when the peer has gone before
  `remote_endpoint()` is asked.
- **`Dialogue`**: the abstract connection. What each end has said and heard, and whether the server has
  admitted the client: it greets before it says anything else, hears nothing before it has admitted, and an end
  hears the next message the other has said, or nothing. A message with a body is heard with it, one
  without is heard with the body heard last.
- **`Server`**: the life of the server's connections. Where `Connection` has one connection in
  detail, `Server` has several, each with a socket that is open or not, the reads in flight and the
  number of handlers of posted Sends and writes to come. The container `conns` is a sequence of shared pointers, null
  ones included. The accept handler is split at `push_back` and at each of the two calls of `back()` after
  it (`Accept`, `ListenToBack`, `ReportBack`); `MessageAllClients` into a step for each turn of its loop and,
  in the line that erases, one for each read of the container: `RemoveNulls`, the `end()` that `erase` is
  given, and `Erase`. The two arguments of `erase` are evaluated in an order the language leaves open, so
  that `end()` may be read before `std::remove` (`EndFirst`) or after it (`EndLast`), and a connection may be
  pushed between any two of the three. `Erase` then stops short of a null pointer, or takes the pushed pointer
  with the null ones; `EraseRaces` and `EraseAstray` are what a push in the course of `erase`, or iterators
  that a push has invalidated, may do besides. `Exists` says whether a shared pointer to a connection is left: in the
  container, in a queued message or in the one being handled. `Dangling` is a handler of a
  connection that does not exist any more, and `Dies` the end of the process. `walk` remembers, for `WalkComplete`,
  whom the latest `MessageAllClients` met and reached, and `late` which connections were pushed between
  the first of those three reads and the end of the erase.
- **`MessageBody`**: the body of a message as a stack of bytes, with the two encodings of a string:
  the client's, with a 16-bit length (`PushStr`, `PopStr`), and the server's, with an int
  (`PushText`, `PopText`). `Base` is the number of values of a byte.
- **`Client`**: `client.cpp`. Each access to `quit`, `usrpick` and `gotnews` is a step, so each of the
  eight comparisons reads `usrpick` anew (`Skip`, `Act`, `Quit`). Messages have the bodies that `MessageBody`
  makes; `OnMessage` is the server's side of an exchange. `SendOverruns` is `strcpy` past the end of an array;
  the code may as well go on, which is `Act` or `SendRun`. After a refused connect the context has nothing
  left to run (`ContextReturns`), unless a `Send` was posted before (`WriteFails`). `acts` and `idle` are history variables.
- **`MCServer`**, **`MCClient`**: connections and strings for TLC.

`Allocation` is instantiated by `RunScheduler` (`queue <- vq`, `running <- Held`), where `Held` is the
sequence of runs that hold machines: those with a thread, and the one `handle_runs` has taken and not
yet started.

`Dialogue` is instantiated by `Connection` under the names of its own variables (`admitted <- validated`).

Proof modules: **`LoopLemmas`** (induction on naturals, derived from the well-foundedness of
finite sets; recursion along an interval; sums), **`ClusterProofs`** (the loops of `cluster`),
**`MessageBodyProofs`** (the two encodings), **`RunSchedulerProofs`**, **`TsQueueProofs`**,
**`ServerProofs`**, **`ClientProofs`** and **`ConnectionProofs`** (the theorems).

The definitions headed "Mistake" or "Mistakes" are plausible bugs (a forgotten notification, a
dropped guard, an end of the queue mixed up). They are no part of the model: each is put in place of
the definition it resembles to see that a property then fails.

## 3. What is checked

Passing runs:

| Run | Module | Shows |
|---|---|---|
| `scheduler` | `MCRunScheduler` | Two machines (2 cores and 1), five runs, two pairs of which share an id, one naming a machine the cluster lacks, up to 3 live. `CapacityRespected`: the two counters of a machine stay the two parts of its size. `ReservationsExact`: what is reserved of a machine is what the runs holding it asked for, so neither `alloc` nor `free` ever silently does nothing. `NoOversubscription`; `ActiveRunsExact`: the list shown to clients has the ids of the runs holding machines, each as often. `NoMissedStart`: no lost wakeup. `ImplementsAllocation`. Under fairness a non-empty queue gets its next run started (`QueueKeepsMoving`), and every run starts unless clients move and remove runs for ever (`EveryRunStarts`). |
| `tsqueue` | `TsQueue` | Two producers: no deadlock (checked as such and as `NoLockCycle`), no pop of an empty queue, and, while messages keep coming, each is handled. |
| `connection` | `Connection` | With early sends, refused and broken connections and a client that quits at any moment: what an end receives is a prefix of what the other sent, each message that has a body with its own (`ReceivedInOrder`), no unit is taken for another (`ReadersInStep`), while a socket is open exactly the front message is being written (`FrontIsWritten`), nothing of a client is handled before it is validated (`ValidatedFirst`), and an open end always has an operation in flight that hears its peer or notices its end (`KeepsListening`). `ImplementsDialogue`: each handler is one step of `Dialogue` or none. Under fairness a client that waits for its handshake has everything delivered, both ways, unless the connection fails or it quits (`Delivered`), and a broken connection is closed at both ends (`BothNotice`). |
| `server` | `MCServer` | Two connections that are accepted, validated, lost and answered while the main thread handles three messages to all. `NobodyElseCutOff`: the last pointer to a connection never goes while its socket is open, unless the connection was pushed during a remove and erase. `NoNullVisited`: until one has been, no walk meets a null pointer that an earlier one left. `WalkComplete`: whoever was in the container has been sent the message or is out of it, the sender has not been sent it, and those that were closed are gone for good. |
| `client` | `MCClient` | One pick is acted on twice at most (`AtMostTwice`), and, stored while no comparison is in progress, once at least, unless the user types again (`PickTakesEffect`): its news is not cleared before (`PickAnnounced`). What is pushed is popped (`BodiesReadBack`). Leaving waits for nothing but the user's next line (`LeavingEnds`); a closed socket is noticed (`ClosedIsNoticed`); received messages do not stay queued (`MessagesAreShown`). |

Runs that find a disagreement between the code and what the repository says of it (the findings of
`PROJECT.json`):

| Run | Shows |
|---|---|
| `machine_twice` | A run that names a machine twice is accepted if each request fits alone; afterwards cores stay reserved for nobody. |
| `too_large` | A run larger than a machine is queued and blocks every run behind it for ever. |
| `lost_wakeup` | `tsqueue::wait` tests the queue under one mutex and waits under another, without a predicate: a push in between wakes nobody, and its message waits for the next one. |
| `early_send` | `clientel -run` sends as soon as the socket is open, before the handshake: the header is read as the answer to the puzzle and the server closes the connection. The outcome is a race between the client's main thread and the network. |
| `accept_race` | The accept handler calls `back()` after it has pushed a connection; `MessageAllClients` may erase null pointers in between, and `back()` is then another connection or none: the new one is never listened to. |
| `erase_cuts_off` | With `std::remove` evaluated before a push and `erase`'s `end()` after it, `erase` destroys the pointer to the connection just accepted, whose socket is open. |
| `refused` | `IsConnected` tests `is_open()`, which stays true when the server refuses the connection, and `io_context::run()` has then returned: nothing posted later runs, no write can fail, and the client goes on for ever. |

Other divergences need no run. `mvdn` on a queue that was never filled evaluates `end()-1` on a null
iterator (`vq.h:47`; `MoveRunDownCrash`). The README (`README.md:8-11`) numbers the client's picks 0 to 3;
the code (`client.cpp:328-344`) has 1 to 7, and 0 quits. A run that names a machine the cluster lacks passes
`can_alloc` and starts with nothing reserved there (`cluster.h:37`; `Gpu` in `MCRunScheduler`), although the README
(17) has "the specified machines reserved". What `net_connection.h:305` calls a "bodyless message" takes along
the body of the last message that had one, since nothing clears `m_msgTemporaryIn.body` (`BareRead`; `LastBody` in
`Dialogue`). The other side of the race in `erase_cuts_off`: with `erase`'s `end()` evaluated before a push and
`std::remove` after it, `erase` stops one short, and the null pointer that stays is met by the next walk
(`EndFirst`, `VisitNull`), not "all in one go" (`net_server.h:229`).

**Bounds.** `MaxLive` (runs queued or active) stops submissions; 3 lets one run execute, one wait at
the front and one be moved past another, with two machines that fill up separately. `DoneLimit`
stands for the 5 of `done_runs` and is 0 or 1, so that it is reached. `Cap` bounds the queue of
`TsQueue`; it is waived while the main thread is blocked, as otherwise a full queue would hide a lost
wakeup or turn it into a deadlock of the model. `MaxSends` is 2: one message in flight and one behind
it, the server's accept message counting as one; `Bodied` and `Bare` have a member each that clients
send. `Server` has two connections and three messages in `server`,
so that one connection may be dead and the other pushed at any point of a walk and its erase, and a walk meets what
the erase before it has left; the invariants are proved for any number of both. The runs that end in a violation have a
third connection, so that one is alive besides. With `Cap` 1 one message is queued while another is handled.
`MaxPicks` is 2, since a second pick is what may overwrite the first; of the seven picks three are taken, one for each kind of body, beside 0, and `MaxOthers` is 1.
`Base` is 2 there, so that a string of three characters overflows the 16-bit length and one of two
does not. Deadlock is checked in `TsQueue` only: elsewhere the process may die or
leave, and a connection with nothing left to send or to read is at rest.

**Fairness.** `RunScheduler`: weak fairness of `Notify`, of the steps of `handle_runs` and of the
runs' threads; each is a thread that the system keeps running and whose step, once enabled, stays
so or is overtaken by one of its own. That commands end is an assumption, as
`std::system` waits for them. Nothing is assumed of clients or spurious wakeups. `TsQueue`: strong fairness of
the main thread and of pushes that have begun, because a mutex that is free again and again is got
in the end; `BusySpec` adds that messages keep coming, without which `lost_wakeup` fails.
`Client`: weak fairness of the main loop, of the reading thread except while it waits for the user,
and of the asio thread after a refused connect: `run()` returns, or the `Send` posted before fails. Nothing is assumed of the user, the server or the network.
`Connection`: weak fairness of each thread's handlers, and of connecting. A broken connection is one
that the kernels report; a peer that falls silent would never be noticed, no keepalive being set.

## 4. What is proved

For all values of the constants, under the named assumptions of the modules:

| Theorem | States |
|---|---|
| `TypeCorrect` | `Spec => []TypeOK` |
| `NoLostWakeup` | `Spec => []NoMissedStart` |
| `CapacityTheorem` | no core count negative, machines named twice or not: `Spec => []CapacityRespected` |
| `ReservationsTheorem`, `NoOversubscriptionTheorem` | all runs well-formed: `Spec => []ReservationsExact`, `Spec => []NoOversubscription` |
| `ActiveRunsTheorem` | `Spec => []ActiveRunsExact` |
| `Refinement` | all runs well-formed: `Spec => ImplementsAllocation` |
| `MutexesHeld`, `PopsFindMessages`, `LocksOrdered` | of `TsQueue`: `TypeOK`, `NeverPopsEmpty`, `NoLockCycle` |
| `ServerTypes`, `ServerCutsNobodyElseOff`, `WalkMeetsNoNull`, `WalkReachesAll` | of `Server`: `TypeOK`, `NobodyElseCutOff`, `NoNullVisited`, `WalkComplete` |
| `StrComesBack`, `TextComesBack` | of `MessageBody`: a string pushed is the string popped, in either encoding, with the body below it untouched, if its length fits |
| `ClientTypes`, `PickActsAtMostTwice`, `PickKeepsItsNews`, `ClientBodies` | of `Client`: `TypeOK`, `AtMostTwice`, `PickAnnounced`, `BodiesReadBack` |
| `ConnectionTypes`, `ConnectionInOrder`, `ConnectionInStep`, `ConnectionFrontWritten`, `ConnectionValidated`, `ConnectionListens` | of `Connection`: `TypeOK`, `ReceivedInOrder`, `ReadersInStep`, `FrontIsWritten`, `ValidatedFirst`, `KeepsListening` |
| `ConnectionRefinement` | of `Connection`: `Spec => ImplementsDialogue` |

*Well-formed* means a core count that is not negative and each machine named once; the code does not
see to it, and `machine_twice` shows that it is needed. With such runs no sum exceeds a machine's size,
so `int` does not overflow.

**The argument.** `ReservationsExact` is not inductive alone: that `free` succeeds needs the
reserved cores to include the run's own, that `alloc` succeeds needs `m_free` to be what `can_alloc`
computed from `m_res`. The invariant is `Accounting == TypeOK /\ CapacityRespected /\
ReservationsExact`. `ClusterProofs` shows, by induction along the loop, that a well-formed run that
passes `can_alloc` adds exactly its demand to every machine (`AllocExact`) and that freeing subtracts it
where that much is reserved (`FreeExact`), which holds because no run of a list asks for more than
all (`TotalDemandFacts`). `NoOversubscription` and the guard of `Allocation`'s `Start` follow from
`Accounting`. `ActiveRunsExact` holds because `active_runs` and `Held` gain and lose the same ids,
whichever of several equal runs `rm_item` erases. `NoMissedStart` is inductive with the types: every
step that can make `CanStart` true notifies, or leaves a notification to come.

In `Server`, `NobodyElseCutOff` follows from `Tracked`: an open connection that was made has its pointer in the
container, in `leaked`, or is in `late`. A pointer is reset only after `IsConnected` has been false, and no socket is
opened twice. What `erase` destroys is settled by `CutInv`: once `std::remove` has run, only pointers that are not
null are in front of `cut`, what is behind it is null or in `late`, and `outer` is the end of the container as long as
nothing was pushed. The walk's invariant `WalkInv` says what is behind the range-for (reset, or reached and not closed
when it began), what is beyond its end (pushed since, so no member of it), and, as long as `late` is empty, that null
pointers are only behind it, with the flag set, and that outside a walk and its erase there are none: `late` is where a
null pointer left behind would come from (`EndFirst`, then `VisitNull`). `NullsFacts` and `RemovedFacts` are `std::remove`, shown by
induction along the container; `SubSeqElements`, `ConcatElements` and `EraseEffect` are what an erase leaves.

`AtMostTwice` becomes inductive as `Twice`: the actions so far and the rounds that may still act are
two at most. Such rounds are the one in progress, if the comparison with the pick is still ahead, and
the one to come, if the pick's own `gotnews` is set or about to be. Within one round a pick is met once, since
`PickOf` is injective; a round that ends clears `gotnews`. `ClientBodies` needs of the queues only that each message is one
the client or the server makes (`Queues`), and then the theorems of `MessageBodyProofs`, in which a number
of two or four bytes is read back digit by digit.

`PickAnnounced` becomes inductive as `Announced`: besides, a round that has begun is not past a pick that is
still pending. `ClearNews` ends a round that has compared with every pick, so none was pending.

In `Connection` not even the types are inductive alone: a handler takes the head of `out`, and a
body that has been read is `m_msgTemporaryIn`, whatever this holds. `ConnectionInv` therefore has, beside the types:

- *What is being written* (`Writes`): at an open end, the unit of its handshake at most once and one part
  of the front message exactly if there is one. Neither waits for the other, which is why both may be in flight.
- *What is queued* (`Queues`): what has been sent is what was written, followed by `out` and then by `posts`.
- *What is on its way* (`Streams`). A *cursor* is a place in what an end sends: the start, where the handshake
  is due, or the header or the body of the n-th message. `Path(q, h, s, from, to)` says that the units `s` lead from
  one cursor to another, each unit being the one due at its cursor. The invariant is that from what an
  end reads next (`ReadCursor`) the units in its stream lead to what its peer writes next (`WriteCursor`). A handler that
  reads takes the first step of a path (`PathHead`), one that writes adds the last (`PathAppend`), and all others leave both
  cursors alone (`ReaderStays`, `WriterStays`).
- *What has arrived* (`Arrivals`, `HoldsNext`): a prefix of what was sent, and each message that has a body came with its own;
  while a body is read, `temporary` is the next message.
- *The order of the handshake* (`PuzzleFirst`, `AnswerAlone`, `ReadsValidated` and others). The server writes the puzzle
  before all else because the accept message is only posted. The client may send before its answer; then the server
  reads a header in the place of the answer and turns the client away (`TurnsAway`), the one case where the stream leads nowhere
  and nothing more is read of it.

`ReadersInStep` is then the first step of a path, and `ReceivedInOrder` is `Arrivals`. `KeepsListening` is inductive
with `ConnectionInv`, of which it needs that the client's first read finds the puzzle. For `ConnectionRefinement`, a message
put into an end's queue is the next one of those sent, by `Arrivals` after the step; the rest are the guards of `Dialogue`.

The assumptions on the constants of `Connection` are that the accept message has no body and that no message passed to
`Send` both has one and has none: in what is sent `header.size` is `body.size()` (`net_message.h`), so that the sender's
test of the body (`net_connection.h:218`) and the receiver's of the header (295) agree. Of a message that was received
nothing of the kind is assumed: one without a body may differ in the two (`BareRead`), and the theorems allow for it.
The one received message that is sent on is the ping that the server bounces (`SimpleServer.cpp:181`), and a ping has a
body, which comes with it (`ReceivedInOrder`).

The library's induction rules take operators as arguments, which the provers cannot instantiate;
`LoopLemmas` states induction over *sets* of naturals instead and derives it from the
well-foundedness of strict inclusion of finite sets.

**Only model-checked**: all liveness (`QueueKeepsMoving`, `EveryRunStarts`, `EveryMessageHandled`,
`Delivered`, `BothNotice`, `PickTakesEffect`, `LeavingEnds`, `ClosedIsNoticed`, `MessagesAreShown`), since the
provers have no rule for fairness and `ENABLED`. What is proved are safety properties these rest on: `NoMissedStart` for
`QueueKeepsMoving`, `KeepsListening` and `FrontIsWritten` for `BothNotice` and `Delivered`, `PickAnnounced` for
`PickTakesEffect`. Every invariant and the two refinements that the runs check are proved.

## 5. Not modelled

- Parsing of arguments, environment and configuration, and name resolution: their outcomes are
  constants or choices of an initial state (`Config`, `Runs`, `sendrun`, `link`).
- Boost serialisation through files (`fwrite_serial`, `fread_T`): one thread writes a file and reads
  it back. An archive is a string, and `Parses` says whether it is one that was made.
- The shell commands of a run, and its result directory: a run is the time between `HandleSpawn` and `Finish`.
- `MessageClient` and `OnClientConnect` returning false, which do not occur, and `Stop`, which runs
  only in a destructor `main` never comes to.
- Overflow of core counts: runs with negative counts are allowed by `ClusterAssumption`, and excluded
  by `CapacityTheorem`.
- `TsQueue`'s functions that the program does not call concurrently.
- In `Connection`, the moment between the completion of an operation and its handler: one that has succeeded just
  before another handler closes the socket is taken for an error, so that its unit is lost a moment earlier.
- In `Server` the streams themselves and the identifiers; in `Client` the handshake. `Connection` has both.

## 6. Plan

1. **Composition** of `RunScheduler` with the incoming queue: requests handled in the order in which
   `TsQueue` yields them. (`TsQueue` alone has its queue as a variable, changed by one action at each end, so that to
   implement an abstract queue would say nothing more.)
2. **Proofs** about that composition, from those of its parts.
