# A TLA+ model of the Reality server

Reality (`src/Reality/Source`) is an emulator of the server of *The Matrix
Online*. This directory holds TLA+ modules translated from its source,
configurations that check small instances of them with TLC, and theorems proved
with TLAPS for every value of the constants. Line numbers below refer to files
of `src/Reality/Source`.

| read this | for |
|---|---|
| [Inventory](#inventory) | the parts of the server, their state, how they interact, what is hard about them |
| [Modules](#modules) | which module models what, and how state and actions correspond to the code |
| [Runs](#runs) | what TLC checks, on which instances, and why these are enough |
| [Fairness](#fairness) | what the liveness properties assume |
| [Proofs](#proofs) | what is proved, from what, along which argument |
| [What the models found](#what-the-models-found) | where the code does not do what it says |
| [Not modelled](#not-modelled) and [Plan](#plan) | what is left out and why, what comes next |

## Inventory

The server is one process. `Master::Run` (Master.cpp:78-136) opens the
database, starts a thread pool and gives it four tasks that run until the
operator says `exit`: the auth server, the margin server, the game server and
the console. A player's program talks to the auth server (TCP), then to the
margin server (TCP), then to the game server (UDP).

| Part | State | Operations | Interacts with |
|---|---|---|---|
| **Reliable channel** (GameClient, SequencedPacket, the queue half of GameSocket) | sequence numbers, `m_queuedCommands`, `m_sentCommands`, `m_queuedStates`, `m_recvdPacketSeqs`, `m_clientCommandsReceived` | QueueCommand, QueueState, FlushQueue, HandlePacket, AcknowledgePacket, CheckAndResend | the world logic queues; callBacks of acknowledged updates call back into it |
| **Sessions** (MarginSocket, MarginHandler, GameSocket, set-up and end of GameClient) | margin sockets with `charId`, `sessionId`, `readyForUdp`; `m_clients`; object ids | load request, first UDP packet, invalidation, pruning, destruction | margin thread reads `m_clients`, game thread reads `m_sockets`, no lock |
| **World** (PlayerObject, ObjectMgr, state messages) | `m_spawnedInWorld`, `m_worldPopulated`, `m_sendAfterSpawn`, the state queues of all clients | construct, SpawnSelf, PopulateWorld, Update, destroy | announcements put messages into other clients' queues; messages look objects up when they are sent |
| **Database layer** (Database, Queue, Condition) | `queries_queue`, `ThreadRunning`, `m_threadRunning`, busy connections | Execute, WaitExecute, Query, the executor's loop, EndThreads, Shutdown | called by all server threads and the console; stopped by the main thread |
| **Thread pool** (ThreadPool, ThreadController) | free and active threads, the task of each, semaphores | Startup, ExecuteTask, the thread's loop, ThreadExit, Suspend, Resume | runs every other part |
| **Auth server, accounts** (AuthSocket, AuthServer) | per connection: challenge, name and row of the user; the table `users` | key request, challenge, answer; console commands that insert and update rows | reads the database at once, writes through the executor |
| **TCP framing** (TCPVarLenSocket) | input buffer | OnRead cuts off one packet | auth and margin sockets |
| **Server loops, shutdown** (Master, *Runnable, Start/Stop/Loop) | `m_stopEvent`, `m_threadRunning` | start, loop, terminate | everything |
| **Console** | none | operator commands, announcements | writes to the game thread's queues |

What is hard to test here, and what the properties are therefore about:

* *numbers that run out*: packet numbers have 12 bits but are subtracted in 16
  (GameClient.cpp:442), command ids have 16, both wrap within a session;
* *an unreliable network*: every packet can be lost, repeated, reordered, and
  its acknowledgement too; a resent block is in several packets;
* *callbacks and messages that outlive what they are about*: a state update is
  serialised when it is sent, perhaps after its object or its receiver has gone;
* *order among players*: spawn, announcement, population, acknowledgement and
  leaving, of several players;
* *threads without locks*: margin and game thread read each other's maps, with a
  database query or a whole handler between check and use;
* *lost wake-ups and shutdown*: a queue that signals once, a waiter that waits
  once, a loop that ends on one of two flags, connections closed behind it; a
  condition variable made by hand of events and a deque of their handles;
* *rows read now and written later*: a query runs at once, a statement is queued,
  so what was read may be out of date when it is written back;
* *failure in the middle*: the first packet has five early returns after the
  player object exists; a database connection is lost after the statement was
  executed.

`PROJECT.json` lists these one by one with their lines under `hazards`, and the
properties that cover each.

## Modules

    PacketSequences ── RCC ──────────── RCC_proofs          ReliableCommands ◁─ RCC
          └─────────── AckTracker ───── AckTracker_proofs       StateUpdates ◁───── RCC
    Database ────────────────────────── Database_proofs     AsyncWrites ◁────── Database
          └─────────── FQueue ───────── FQueue_proofs       Database ◁───────── FQueue
    ThreadPool ──────────────────────── ThreadPool_proofs
    Session ─────────────────────────── Session_proofs
    World ───────────────────────────── World_proofs        Presence ◁───────── World
    Auth ────────────────────────────── Auth_proofs
    (── EXTENDS;  ◁─ implemented by;  MCDatabase, MCFQueue and MCAuth hold
     definitions for TLC: sets of threads, symmetry, the tables at the start)

**PacketSequences** — the arithmetic of packet numbers: distance modulo the
range (`isSequenceMoreRecent`, wraparound test, GameClient.h), the 16-bit
subtraction with which an acknowledgement is read (`AckSequences`), and the map
of received numbers (`RecvdAfter`, `GetAckBits`). Pure operators, used by the
next two.

**RCC** — one client's channel. A call made by the socket loop is one action:
`HandlePacket` is acknowledging, handling the commands and flushing;
`CheckAndResend` is a flush. `Flush` decides what is due (`DueBlocks`,
`DueStates`), packs it (`Packings`, `StateSlots`), gives every packet an
acknowledgement (`AckNumbers`) and adds empty packets until nothing received is
unacknowledged (`PacketsToSend`). Blocks and updates remember the packets they
were in (`packetsItsIn`). Bytes and clocks are abstracted into free choices:
which blocks are older than the resend time, how many commands fit into a
packet, which updates are no longer valid. The network is the set of all packets
ever sent: one that is never taken is lost, one taken twice duplicated. The
client's program is not in the repository; `ClientReceive` and `ClientSend` are
what any client may do that numbers its packets in turn and acknowledges only
what it received.

**ReliableCommands** — what the channel promises for a command: issue, deliver,
and only then release.

**StateUpdates** — what it promises for a state update: it is sent only while it
waits, leaves the queue on an acknowledgement only if the client has it, and its
callBack runs then and at no other time. Arrival is not promised: an update may be
given up. The updates waiting are the entries of `m_queuedStates`, without the
packets they were in.

**AckTracker** — `m_recvdPacketSeqs` over several cycles of numbers, which RCC
stops short of. Packets are absolute numbers; a history of what was received is
kept beside what the server knows.

**Database** — the server threads, the executor, the query thread and the main
thread, each with a program counter at the points where another may come in
between: reading `ThreadRunning` and pushing (Execute), test and wait in `pop`,
taking a connection, sending, sending again after `_Reconnect`. A statement is
an identifier with its issuer and kind; the database server is a log. One
variable is history: `late`, the statements pushed after the executor found the
queue empty for the last time (`Gone`), which Execute accepts and nobody writes.
**AsyncWrites** is the abstract writer: first come first served, gone only when
nothing it accepted is pending, after which what is accepted stays where it is.

**FQueue** — the queue between them, with nothing taken for granted but the
operating system's mutex, critical section and events. `push`, `pop`, `get_size`
and `Broadcast` are the steps at which another thread can come in: entering the
mutex, the list operation, the two halves of `Signal` (taking a handle off the
deque, setting its event), the four of `Wait` (entering the deque while the mutex
is held, letting it go, waking, taking it again and closing the handle), and the
two of `Broadcast`, which runs without the mutex. `at` says where each caller is;
`m_nLockCount`, `m_deqWaitSet` and `hWaitEvent` are the code's, `open` and
`signalled` the state of the handles. A step of Database is taken at the step of
FQueue that reads or changes the list, everything else is a stutter for it, and
`ImplementsDatabase` says so. This is the condition variable of Windows; on other
systems it is the one of pthreads, which may wake for no reason, and that is what
`SpuriousWakeups` of Database stands for.

**ThreadPool** — ExecuteTask under `_mutex`, split where the chosen thread is
resumed; the thread's loop; Suspend/Resume on both platforms (`Semaphores`).

**Session** — margin sockets and game clients. The margin thread runs one handler
at a time (`MarginIdle`), but the game thread can come in between: after the load
request has set `charId`, after the database query, and between `sessionId`
(`ConnectChallengeResponse`) and `readyForUdp` (`ConnectReplySent`). The first
packet is split where it keeps pointers to sockets of the other thread and where
it keeps what it read of them: finding the sockets (`FindMargin`), copying the
session id (`LookUpSession`, GameClient.cpp:109), and asking UdpReady five
messages later (`Establish`, line 167). Then there are the two ways a client is
removed and what its destructor does. `Garbage` is the value an uninitialised
`m_sessionId` may hold. Three fields of a client are history: the session its
program was given (`proof`), those drawn when it looked its own up (`known`), and
the one of the margin connection that said it was ready (`told`).

**World** — the players and what their clients are told of each other. The
queue of state updates is taken over from RCC in a coarser form (what is queued,
what was sent at least once, what arrived), so that several players fit. The
shared message of SpawnSelf has one `m_toWho` (`receiver`). A flush that meets
an update that cannot be serialised either drops it (`Stale`), throws
(`Stray`) or uses a deleted client (`Dangling`); the last two end the behaviour
with `fault`. The variables of a client that has gone are emptied, and a
player that comes again is a new object id, hence a new member of `Players`.

**Presence** — what the server promises its clients about the players: whoever
spawns is told to all who are present, whoever is populated is told of all who
are; that news lapses only if the player goes before it was sent, and is not sent
after that; when a spawned player leaves, all who are present are told, and of
nobody else. The kinds of spawn messages, `m_sendAfterSpawn`, the queues and what
is resent are gone: told is what is in any of them or was sent.

**Auth** — the three requests of a connection to the auth server, the framing
under them, and the console's `register` and `changePassword`. A packet of any
other opcode (`Other`) falls through ProcessData's switch: it is taken, and
nothing is sent or closed (`Ignore`, noted as `Nothing` in `replies`). A client
may also answer a challenge it was never sent. A packet arrives
in two halves (`arrived`), so that an `OnRead` can find half of one, one and a
half, or several; `cut` counts those handed to `ProcessData`, one per `OnRead`.
A connection keeps the name, the row it read and the reply its challenge is in.
`Query` reads the table at once and may fail, which looks like an empty result;
`Execute` appends to `pending`, and `Write` is the executor, which may fail too.
`due` records what each row is to have: the password the operator was told last
and the keys made last, whether or not a client was given them. The console is
in the middle of a command between its query and its statement. Execute is
taken to accept every statement, as it does until the server is stopped, and the
order of `pending` is Database's `AppliedInOrder`. Passwords are hashed and salted
in the code; here a password is equal to itself and to nothing else.

Every definition that models code is listed with its lines under `map`.
Operators whose comment says "Mutant of X" are plausible mistakes in X; none is
part of a specification, they show that the property beside them can fail.

## Runs

| run | instance | properties |
|---|---|---|
| `rcc_commands` | 3 commands, 4 server and 2 client packets, window 2 | ResendBeforeNew, refinement of ReliableCommands, KeepsSending |
| `rcc_both` | both directions, 1 command, 1 update, 2 client commands, 3 packets each way, numbers 0..7 starting at 6 | DeliveryInv (with the types, NothingLost and HeldOnce), ExactlyOnce, refinement of StateUpdates |
| `ack_cycles` | 20 client packets, numbers 0..7: three cycles | HonestAcks, LastIsNewest, FirstArrivalAcked |
| `db_order` | 2 server threads, 3 statements, 3 connections, 1 fault, spurious wake-ups | TypeOK, NoLostWakeup, AppliedInOrder, LostOrRepeatedByFault, ShortfallWaits, ExecutorGoneBeforeClose, refinement of AsyncWrites |
| `db_queue` | 1 server thread, 2 statements, 3 connections, 1 fault, 2 event handles, no spurious wake-ups | QueueTypeOK, LockHeldByCallingThread, NotificationNotMissed, EventsOpen, refinement of Database, AcceptedIsTaken, EndThreadsReturns, CallsReturn |
| `pool` | 3 tasks, 2 threads at start, both platforms | TypeOK, TaskOnce, TaskStarts |
| `session` | 2 endpoints, 2 sockets, 1 session, 2 objects, 1 character | TypeOK, PlayerOwned, OwnSession, LoginAgain |
| `world` | 2 players, one of whom updates its appearance | TypeOK, EveryoneSeen, SpawnBeforeWorld, ClientsCatchUp, refinement of Presence |
| `auth` | 2 clients, one of whom waits for replies; 2 users, 2 passwords, 2 tables at the start; 4 packets, commands and failures in all | TypeOK, RightUser, Settled, Answered |
| `session_duplicate` | 2 endpoints, 2 sessions | OneClientPerCharacter is violated |
| `session_match` | 1 endpoint, 2 sessions | MatchingSession is violated |
| `world_flush` | 2 players | FlushSurvives is violated |

Why these bounds. The interesting cases of the channel need a command that is
resent while a newer one joins it, an acknowledgement of the first sending that
arrives after the second, and the end of the range of numbers: three commands in
four packets have the first two, and `rcc_both` starts both numbers two below
the end. A range of 8 or 16 instead of 4096 changes no case, because only
differences are compared, and the proofs hold for any range that with the window
stays within 16 bits. `ack_cycles` limits delay and gaps to less than half the
range, as any comparison modulo the range must. In the database two threads are
enough for every pair of statements that could overtake each other and three
statements for one in the executor's hands, one queued and one on its way. The
default of five connections (Master.cpp:162) is one fewer than its possible
users: the auth, margin and game servers, the console (AuthServer.cpp:477), the
executor and the query thread. `db_order` has the same relation, three connections
for two servers, the executor and the query thread, so that a user can find all
of them busy and wait in GetFreeConnection. `db_queue`, whose subject is the
queue, has enough for everybody. Two players have every order
of connecting, spawning, being populated and leaving; a third would see what
either of them sees, and the proofs have any number.
`db_queue` has one server thread because each thread inside the queue multiplies
the states by its steps; with the executor and the main thread that is three
callers of the mutex, and the proofs have any number of threads. Two handles are
enough for one that is closed and given out again while the main thread walks the
deque. In `auth` four events are one login of three packets with a command or a
failure in between, or two of the same name registered before either is written,
with what the executor does of it, or packets that nothing is done about in any
place of a login; one table has two users with the same
password, the other lacks one of them.
`MaxSessions = 1` in `session` keeps the liveness check small: the session is
drawn before the lookup, between the lookup and UdpReady, or not at all, and a
destructor with id 0 meets a socket without a session. What a second session adds,
an id that is replaced by a newer one, is in the violations, which use two, and in
the proof.

`CHECK_DEADLOCK FALSE` is given where the modelled system does come to rest:
after Shutdown, when all tasks have been handed out, and when the bound on
sessions, on players or on events of the auth server is used up. The channel
never rests, since anyone can receive a packet again.

## Fairness

* **RCC**: `ResendAll` is weakly fair. GameServer::Loop calls CheckAndResend
  every few milliseconds, and after at most a second every block is due. Nothing
  is assumed of the network or the client: KeepsSending says that packets go out
  as long as the server holds a command, not that anything arrives.
* **FQueue** (and with it Database): the steps of every thread that has something
  to do are weakly fair, since the operating system schedules them. Getting the
  mutex is strongly fair: those who contend for it sleep or do database work
  between two calls, so the mutex is free again and again and Windows does not
  pass over a waiter for ever. Nothing makes a server issue a statement, or the
  operator stop it. The liveness properties of the database are checked here and
  not on Database, where the wake-ups they rest on are atomic.
* **ThreadPool**: the threads, and ExecuteTask once it has begun; a task need
  not end. TaskStarts is stated for semaphores only (see below).
* **Session**: pruning, and finishing a handler. Clients may stay silent, and
  the property assumes that they do.
* **World**: for each client, the flush in which all its updates are due.
  Nothing is assumed of players: they need not acknowledge, spawn or leave, and
  ClientsCatchUp holds however often updates are given up after 20 sendings,
  because it asks for the sending.
* **Auth**: `OnRead`, which the select loop of the auth server calls when there is
  something to read. Nothing is assumed of the executor, the clients or the
  operator.

## Proofs

`X_proofs` extends `X`; `X`'s assumption on its constants (`RCCAssumption`, ...)
is the only thing taken for granted, and TLC evaluates it in every run. Each
module shows `Init => IInv`, one lemma per action that the action keeps `IInv`,
and draws the theorems from that.

**RCC_proofs** — in four parts.

*Commands of the server*: `TypeCorrect`, `DeliveryInvariant`, `CommandsNeverLost`,
`CommandsHeldOnce`, `Refinement`. NothingLost alone is not inductive: a block is
dropped on the strength of a number. The invariant `DeliveryInv` says why that is
right: a number names one packet among those sent, a block knows only numbers of
packets that carry all of it, the client acknowledges only packets it has. The
lemma `AckedIsMeant` carries the arithmetic: the 16-bit subtraction either yields
the number the client meant or none that a packet has. TLC checks `DeliveryInv` in
`rcc_both`; NothingLost and HeldOnce, the subjects of `CommandsNeverLost` and
`CommandsHeldOnce`, are parts of it. The proofs need that numbers are not reused
among the packets sent (`FreshNumbers`); what happens beyond is in AckTracker, or
noted as a hazard.

*Their order*: `OlderBlocksFirst`, an action property. A flush that sends anything
new sends every block (`FlushSends` names what `Flush` chooses), and packs them
in order. That order is of use because of the invariant
`BlocksAreOlder`: a block is never empty and all its commands are older than all
in the queue.

*Updates*: `CallbacksAfterReceipt`, `UpdatesRefinement`. `EntryInv` says of state
updates what DeliveryInv says of blocks: an entry knows only packets that carry its
update, no two entries are about one update, and what is still queued has not been
called back. So a callBack happens when the entry leaves the queue, for an update
that is in a packet the client has, and each step of the channel is one of
StateUpdates.

*Commands of the client*: `ClientCommandsHandledOnce` (at most once) and
`CommandsExactlyOnce`. The second half, that a command is ignored or its packet
acknowledged only when it has been handled, is about the keys of
`m_recvdPacketSeqs`. `ReceiptInv` says that these are numbers of packets whose
commands have all been handled (`Settled`), or numbers from before the observation
starts, which the map may keep until it is cleared, but then all of them and none
left to acknowledge. The theorem has two hypotheses: the client issues at most
`CmdMod` commands, and its packets and one window fit into the range of numbers.
Without the first the code ignores what it has not handled (a hazard below);
without the second a packet can have the number of an older one that the server
still acknowledges, which AckTracker is about. Both are true of `rcc_both`, and
with 65536 and 4096 of every session of some 4000 packets.

**AckTracker_proofs** — `NewestIsKnown`, `AcksAreHonest`, `FirstArrivalIsAcked`,
for every range of numbers, every window and sessions of any length, with
wraparounds without end. Assumed are a window of at most half the range and one,
a range that with the window stays within 16 bits, and delays and gaps below half
the range; with 4096 numbers and a window of 7 the first two are true of the code.
The lemma `CycleStep` says that two packets less than a range apart are in the
same cycle of numbers or in neighbouring ones, and `Meaning` which packet an
acknowledged number stands for. `WindowInv` keeps the newest packet near those
still under way, `AllMarked` says that nothing is left unacknowledged between two
calls, and `KeysOfCycle`, without which HonestAcks is not inductive, that what is
in the map are packets received in the newest cycle, but for the numbers that
came in late.

**Database_proofs** — `TypeCorrect`, `NoWakeupLost`, `ExecutedInOrder`,
`ClosedAfterExecutor`, `ConnectionsFound`, `LossesAreFaults`,
`ExecutorWritesInOrder` (refinement), for any number of threads, connections,
statements and faults. `PlaceInv` ties the program counters to what is in hand
and which connections are busy, `LifeInv` the main thread to the executor, and
`OrderInv` runs the order of issue from the log through the executor's hands and
the queue to the hands of the thread. ShortfallWaits needs of PlaceInv that who
waits for a connection has none, and is counting from there. For
LostOrRepeatedByFault a statement is in one place only (`OnePlace`) and what was not sent has not been executed
(`Unexecuted`); then `Charged` keeps the account: missing statements, statements
about to be sent again and executions are never more than faults and different
statements executed. `LateInv` says that once the executor is gone what is in the
queue is late, so that nothing else can be left there.

**FQueue_proofs** — `QueueTypeCorrect`, `LockHeld`, `NotificationsArrive`,
`EventsStayOpen`, `QueueImplementsDatabase`, `QueueWritesInOrder`, for any number of
server threads and handles, without spurious wake-ups. `LockInv` makes being inside the queue and
owning the mutex the same, so that `m_nLockCount` is one exactly then; `EventInv`
says where the handle of the waiting executor is (in the deque, off it in the
hands of a `Signal`, or set), and that whatever is set was woken in the sense of
Database. The refinement needs Database's own invariant `IInv`, hence the module
extends Database_proofs. With that, what is proved of Database holds over the real queue;
`QueueWritesInOrder` draws the conclusion for the order of writing, for losses and
for the closing of the connections.

**ThreadPool_proofs** — `TypeCorrect`, `TasksRunOnce`, `FreeThreadsAreIdle`. The
invariant says that a posted semaphore belongs to a thread between its choice
and its wait, so none is left over for a thread of the free set.

**Session_proofs** — `TypeCorrect`, `PlayersOwned`, `SessionsOwn`. Needs
`FirstOnce`: a valid client without a session has an object only while its first
packet is being handled, so no second first packet orphans the object. For
OwnSession, `LookedUp` says of a first packet between its lookup and its end that
the client has the id the socket had then, and that this is still the socket's
unless that was deleted or has drawn another since.

**World_proofs** — `TypeCorrect`, `EveryoneIsSeen`, `DeletionsTold`,
`WorldAfterSpawn`, `OnlyTheLivingSpawn`, `PresenceRefinement`, for any set of
players. The lemma `FlushEffect` is the heart: what a client knows (queued or sent)
is forgotten in one way only, a spawn of somebody gone that is due. `SpawnedSelf`,
that who has spawned has its own spawn queued or sent, is what makes
SpawnBeforeWorld inductive. The refinement puts the two halves of a packet
together: `HandleTells`, that what PopulateWorld, Update and SpawnSelf add to the
queues and to `m_sendAfterSpawn` is Presence's news and nothing else, and
`FlushServes`, that the flush at its end loses only what may lapse. DeletionTold
and SpawnsOfTheLiving hold along the way; the runs check Presence, which contains
them, and for the thread pool `FreeThreadsAreIdle` is of the same kind.

**Auth_proofs** — `TypeCorrect`, `LoggedInAsAsked`, `RowsSettle`, for every set of
clients, users and passwords, every table at the start and any number of
failures. RightUser is about a reply and an earlier one; `ChallengeKept` and
`NoRowYet` say that the challenge a connection remembers is in its last reply to a
request and that the name it keeps is the one asked for, and that a connection
that sent none has read no row, so that an answer to no challenge is refused.
For Settled, `SettledInv` looks into the queue of the executor: of the statements
that set a column of a user the last one sets what is due, and if there is none it is in the table.

Only model-checked: the liveness properties (KeepsSending, AcceptedIsTaken,
EndThreadsReturns, CallsReturn, TaskStarts, LoginAgain, ClientsCatchUp, Answered),
since ENABLED and fairness are beyond the prover. Every other property of the
passing runs is a theorem.
What a recursive definition computes for every input cannot
be proved with the installed provers; no module here declares a RECURSIVE
operator.

## What the models found

Three disagreements with comments of the code, each shown by a run:

1. `session_duplicate` — MarginSocket.cpp:432 "Don't allow multiple users with
   the same character id". The check looks for clients that are in the game
   already; two endpoints that come later both get in.
2. `session_match` — GameClient.cpp:105 "we need to test every margin session
   that has the same charId, for a matching sessionId". The loop runs to its
   end whatever it finds, and the last socket is taken.
3. `world_flush` — GameClient.cpp:884 "see if packet is still valid, if not,
   erase and carry on". An appearance update about a player who left throws a
   different exception, which ends the game thread; and the spawn message shared
   by all queues remembers one receiver, which may be deleted by then.

Where the code has a limit that no comment denies, the property says so and the
hazard list records it:

* a number that comes in late over a wraparound stays in `m_recvdPacketSeqs` for
  a cycle, and what has that number next is acknowledged even if it is lost
  (`late` in HonestAcks and FirstArrivalAcked);
* `m_clientCommandsReceived` only grows: after 65536 commands of the client
  every id is known and the rest is dropped as repetitions;
* Execute can push a statement after the executor has looked at the queue for the
  last time: it is accepted and never written, although Database.cpp:212 says
  "execute all the remaining queries". LostOrRepeatedByFault makes an exception for
  it (`late`) and fails without; AsyncWrites leaves it unwritten after Close. A
  statement left behind in any other way violates both;
* the default of five connections is one fewer than the threads that can want one:
  with all servers, the console and the executor at work one of them polls in
  GetFreeConnection until another is done. ShortfallWaits says that it is never
  more than that;
* the margin thread sets a session id and only later `readyForUdp`, the game thread
  reads them in the same order with five messages in between: a client can be
  established with the id from before, usually 0. Its destructor then closes the
  first connection without a session, somebody else's in its handshake, or none.
  OwnSession makes an exception for sessions drawn after the lookup
  (`known < told`) and fails without;
* with ResumeThread (Windows) a task handed to a thread that has not yet
  suspended itself is not started; TaskStarts is about semaphores;
* the console reports a second user of a name as created while the first INSERT
  is still queued (the check reads the table); Settled exempts users one of whose
  statements failed;
* two connections that read a user without keys each make a pair. The pair made
  last stays in the table, but the client that was given the first keeps that, also
  when the second connection is then closed without a reply. Settled is about the
  pair made last, not about those given out;
* a packet to the auth server of an opcode without a case is taken and neither
  answered nor refused (AuthSocket.cpp:114), so who sends one waits for ever. TypeOK
  and Answered make the exception;
* one packet is taken from the input buffer per OnRead: a client that sends two
  and waits for both replies does not get the second until it sends something
  else. Answered is about clients that wait for each reply;
* a player that leaves before it spawned is told to others (PopulateWorld of
  those who spawned) and never taken back; DeletionTold is about those who
  spawned.

## Not modelled

* Code without callers: IntegrityCheck, KillFreeThreads and Shutdown of the
  thread pool, AddQueryBuffer and QueueAsyncQuery (so `query_buffer` stays
  empty), GameSocket::RemoveCharacter. The branch of FlushQueue for commands
  that are no longer valid cannot be reached: every queued command is a
  StaticMsg.
* The first, unencrypted packets beyond what Session has of them; the ping
  history behind the resend time, a free choice in RCC; statistics.
* Layout of messages, buffers, cryptography, configuration, logs, crash
  handling: data without protocol. Packing by size is a free choice, which
  leaves out commands larger than a packet and more than 255 in one.
* Data races on containers (`m_clients`, `m_sockets`, the console's
  announcements): the handlers are interleaved at their reads, the memory of a
  std::map is below these models.
* Start and Stop of the servers, and the order in which their threads end;
  Database has the consequence, a statement issued after Shutdown
  (`UseAfterShutdown`).
* In World: positions, emotes, chat, doors, timed events; several commands in one
  packet (here several packets); the number of sendings, which RCC has.
* In Auth: CreateCharacter and CreateWorld of the console, the lists of characters
  and worlds in the reply, the server's own keys, the length prefix of one or two
  bytes. In Session: the certificate exchange and the character's data.
* RWLock, LockedQueue and FastMutex, which nothing modelled here uses.
* Sniffer, Proxy, mxohax and the vendored libraries under `src/Dependencies*`:
  not part of the server.

## Plan

Done, in this order: the channel (PacketSequences, ReliableCommands, RCC,
AckTracker); the database layer (AsyncWrites, Database, FQueue); the thread pool;
sessions; the world; the auth server; proofs for each.

Next, the most valuable first:

1. **Doors**: `m_openDoors` and view ids per client against announcements to all
   (ObjectMgr.cpp:208). MessageTypes.cpp:109 calls the id "a unique number given to
   the client for each door that is currently opened"; a model of two clients would
   show whether it is.
2. **Creation of worlds and characters** from the console: checks that read the
   table and insertions that are late, as in Auth, with the number of characters
   per user as a third table.
3. **Server shutdown**: runnables, Stop and Master::Run, so that what happens
   after Shutdown becomes a property.
