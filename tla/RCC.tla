--------------------------------- MODULE RCC ---------------------------------
(***************************************************************************)
(* The reliable channel ("RCC") between one game client and the GameClient *)
(* object that serves it (GameClient.h, GameClient.cpp): guaranteed        *)
(* commands in both directions, state updates that are repeated until they *)
(* are acknowledged or given up, and the acknowledgement of packets.       *)
(*                                                                         *)
(* The server side is translated from the code.  It runs on one thread, so *)
(* a call made by the socket loop is one action: HandlePacket and          *)
(* CheckAndResend both end in a whole FlushQueue.  The client program is   *)
(* not in the repository: ClientReceive and ClientSend are what any client *)
(* with honest acknowledgements may do.  The network is UDP: a packet is   *)
(* never removed from the set of packets sent, so it can be lost (nobody   *)
(* ever takes it), delayed, reordered and duplicated.                      *)
(*                                                                         *)
(* Commands are numbered in the order in which they are queued; the 16-bit *)
(* sequence id of a command is its number modulo CmdMod.  The bytes of a   *)
(* message are not modelled, so "fits in 1300 bytes" and "was sent less    *)
(* than so many milliseconds ago" are free choices (Packings, DueBlocks,   *)
(* DueStates).                                                             *)
(***************************************************************************)
EXTENDS PacketSequences, FiniteSets

CONSTANTS
  SeqMod,             \* size of the range of packet numbers (4096)
  CmdMod,             \* size of the range of command ids (2^16)
  AckWindow,          \* MAX_ACKED_PACKETS (7)
  MaxTries,           \* sends after which a state update is given up (20)
  StartSequence,      \* m_serverSequence when the observation starts
  StartClientSequence,\* m_lastClientSequence when the observation starts
  MaxCommands,        \* bound: guaranteed commands the server queues
  MaxStates,          \* bound: state updates the server queues
  MaxClientCommands,  \* bound: guaranteed commands the client issues
  MaxServerPackets,   \* bound: packets the server sends
  MaxClientPackets    \* bound: packets the client sends

ASSUME RCCAssumption ==
  /\ SeqMod \in Nat \ {0, 1}
  /\ AckWindow \in 1 .. SeqMod
  /\ SeqMod + AckWindow <= 65536
  /\ CmdMod \in Nat \ {0}
  /\ StartSequence \in 0 .. SeqMod - 1
  /\ StartClientSequence \in 0 .. SeqMod - 1
  /\ {MaxTries, MaxCommands, MaxStates, MaxClientCommands,
      MaxServerPackets, MaxClientPackets} \subseteq Nat
  /\ MaxClientPackets < SeqMod

VARIABLES
  serverSequence,         \* m_serverSequence: number of the next packet
  serverCommandsSent,     \* commands queued so far (m_serverCommandsSent)
  queuedCommands,         \* m_queuedCommands: numbers not yet sent
  sentCommands,           \* m_sentCommands: blocks not yet acknowledged
  statesQueued,           \* state updates queued so far
  queuedStates,           \* m_queuedStates
  lastClientSequence,     \* m_lastClientSequence
  recvdPacketSeqs,        \* m_recvdPacketSeqs
  clientCommandsReceived, \* m_clientCommandsReceived: ids seen
  executed,               \* how often each client command was handled
  callbacks,              \* how often each state's callBack was run
  s2c, c2s,               \* packets ever sent by the server, by the client
  cliGot                  \* the server packets the client has received

server  == <<serverSequence, serverCommandsSent, queuedCommands, sentCommands,
             statesQueued, queuedStates, lastClientSequence, recvdPacketSeqs,
             clientCommandsReceived, executed, callbacks>>
vars == <<server, s2c, c2s, cliGot>>

(* What the 12 bits of a number in a SequencedPacket's header can hold.    *)
PacketNumbers == 0 .. SeqMod - 1
Commands == 0 .. MaxCommands - 1
States == 0 .. MaxStates - 1
ClientCommands == 0 .. MaxClientCommands - 1
NoState == -1

-----------------------------------------------------------------------------
(* What the two ends can infer from the packets they have.                 *)

CommandsOf(packets) == UNION {p.cmds : p \in packets}
SeqsOf(packets) == {p.seq : p \in packets}

(* The client packets that a server packet acknowledges, read by a client  *)
(* that counts back from the header's number around the circle.            *)
AckedBy(p) == {SequenceBefore(p.ack, i, SeqMod) : i \in p.bits}
ClientAcked == UNION {AckedBy(p) : p \in cliGot}

(* Commands of the client whose delivery it has seen acknowledged.         *)
ClientCommandsAcked == CommandsOf({q \in c2s : q.seq \in ClientAcked})

-----------------------------------------------------------------------------
Init ==
  /\ serverSequence = StartSequence
  /\ serverCommandsSent = 0
  /\ queuedCommands = {} /\ sentCommands = {}
  /\ statesQueued = 0 /\ queuedStates = {}
  /\ lastClientSequence = StartClientSequence
  /\ recvdPacketSeqs = [s \in 1 .. StartClientSequence |-> TRUE]
  /\ clientCommandsReceived = {}
  /\ executed = [c \in ClientCommands |-> 0]
  /\ callbacks = [s \in States |-> 0]
  /\ s2c = {} /\ c2s = {} /\ cliGot = {}

-----------------------------------------------------------------------------
(* QueueCommand and QueueState: called by the world logic of this client   *)
(* and by every announcement made for another one.                         *)

QueueCommand ==
  /\ serverCommandsSent < MaxCommands
  /\ queuedCommands' = queuedCommands \cup {serverCommandsSent}
  /\ serverCommandsSent' = serverCommandsSent + 1
  /\ UNCHANGED <<serverSequence, sentCommands, statesQueued, queuedStates,
                 lastClientSequence, recvdPacketSeqs, clientCommandsReceived,
                 executed, callbacks, s2c, c2s, cliGot>>

QueuedState(id, immediateOnly, callBack) ==
  [id |-> id, noResend |-> immediateOnly, callBack |-> callBack,
   packetsItsIn |-> {}]

QueueState(immediateOnly, callBack) ==
  /\ statesQueued < MaxStates
  /\ queuedStates' =
       queuedStates \cup {QueuedState(statesQueued, immediateOnly, callBack)}
  /\ statesQueued' = statesQueued + 1
  /\ UNCHANGED <<serverSequence, serverCommandsSent, queuedCommands,
                 sentCommands, lastClientSequence, recvdPacketSeqs,
                 clientCommandsReceived, executed, callbacks, s2c, c2s, cliGot>>

-----------------------------------------------------------------------------
(* FlushQueue.                                                             *)

(* Mutant of DueBlocks: new commands do not wait for the older blocks.     *)
DueBlocksTimerOnly(alsoResend, sent) ==
  IF alsoResend THEN SUBSET sent ELSE {{}}

(* Mutant of DueBlocks: the timer never sends a block again.               *)
DueBlocksNever(alsoResend, sent) ==
  IF queuedCommands # {} THEN {sent} ELSE {{}}

(* The blocks sent again.  All of them when a new command is waiting, so   *)
(* that older commands go out before newer ones; otherwise, on the timer,  *)
(* those last sent longer than the resend time ago.                        *)
DueBlocks(alsoResend, sent) ==
  IF queuedCommands # {} THEN {sent}
  ELSE IF alsoResend THEN SUBSET sent
  ELSE {{}}

(* Packing the blocks and the queued commands, in order, into n packets of *)
(* at most 1300 bytes: a packing gives every command its packet, never     *)
(* goes back, leaves no packet empty and splits no block sent before.  The *)
(* queued commands that share a packet become one new block.               *)
Outgoing(blocks) == queuedCommands \cup UNION {b.cmds : b \in blocks}

Packings(blocks, n) ==
  {f \in [Outgoing(blocks) -> 1 .. n] :
     /\ \A k, l \in Outgoing(blocks) : k < l => f[k] <= f[l]
     /\ \A j \in 1 .. n : \E k \in Outgoing(blocks) : f[k] = j
     /\ \A b \in blocks : \A k, l \in b.cmds : f[k] = f[l]}

(* The state updates looked at: those never sent, and on the timer those   *)
(* last sent at least 500 ms ago.                                          *)
DueStates(alsoResend, states) ==
  LET fresh == {st \in states : st.packetsItsIn = {}}
  IN  IF alsoResend THEN {fresh \cup d : d \in SUBSET (states \ fresh)}
      ELSE {fresh}

(* The commands that make up the new block in packet j.                    *)
NewBlock(f, j) == {k \in queuedCommands : f[k] = j}

(* An update that has gone out more than five times is erased.             *)
GivenUp(states) == {st \in states : Cardinality(st.packetsItsIn) > MaxTries}

(* State updates are sent one per packet, in queue order, in the packets   *)
(* n+1 .. m that follow those of the commands.                             *)
StateSlots(states, n, m) ==
  {g \in [states -> n + 1 .. m] :
     /\ \A x, y \in states : x.id < y.id => g[x] < g[y]
     /\ \A j \in n + 1 .. m : \E x \in states : g[x] = j}

(* GetAnAck: each packet sent takes one received number that was never     *)
(* acknowledged, in the order of a hash map; when none is left, the latest *)
(* number received.                                                        *)
AckOrders(recvd) ==
  LET u == Unacked(recvd)
  IN  {o \in [1 .. Cardinality(u) -> u] :
         \A i, j \in DOMAIN o : o[i] = o[j] => i = j}

(* The numbers acknowledged by the packets of a flush.                     *)
AckNumbers(order, count, last) ==
  [j \in 1 .. count |-> IF j \in DOMAIN order THEN order[j] ELSE last]

Numbers(ack) == {ack[j] : j \in DOMAIN ack}

(* A flush sends its data packets, then empty ones as long as a received   *)
(* number is unacknowledged.                                               *)
PacketsToSend(data, acks) == IF data >= acks THEN data ELSE acks

(* The number of the j-th packet of a flush.                               *)
NumberOf(j) == SequenceAfter(serverSequence, j - 1, SeqMod)

(* Bound: the model stops when the next flush would use a packet number a  *)
(* second time, or exceed MaxServerPackets.                                *)
FreshNumbers(count) ==
  /\ count <= SeqMod
  /\ Cardinality(s2c) + count <= MaxServerPackets
  /\ \A j \in 1 .. count : NumberOf(j) \notin SeqsOf(s2c)

(* An entry that goes out once more, in the packets with these numbers.    *)
SentIn(entry, numbers) == [entry EXCEPT !.packetsItsIn = @ \cup numbers]

(* The packets of a flush and their effects: f places the commands of the  *)
(* blocks and the queue, g the state updates; the j-th packet acknowledges *)
(* the number ack[j].                                                      *)
Transmit(sent, states, due, recvd, f, g, ack, count) ==
  LET packet(j) ==
        [seq |-> NumberOf(j), ack |-> ack[j],
         bits |-> GetAckBits(recvd, ack[j], AckWindow),
         cmds |-> {k \in DOMAIN f : f[k] = j},
         states |-> {st.id : st \in {x \in DOMAIN g : g[x] = j}}]
  IN
  /\ FreshNumbers(count)
  /\ s2c' = s2c \cup {packet(j) : j \in 1 .. count}
  /\ serverSequence' = SequenceAfter(serverSequence, count, SeqMod)
  /\ queuedCommands' = {}
  /\ sentCommands' =
       {SentIn(b, {NumberOf(f[k]) : k \in b.cmds \cap DOMAIN f}) : b \in sent}
       \cup
       {[cmds |-> NewBlock(f, j), packetsItsIn |-> {NumberOf(j)}] :
           j \in {f[k] : k \in queuedCommands}}
  /\ queuedStates' =
       (states \ due) \cup
       {SentIn(st, {NumberOf(g[st])}) : st \in {x \in DOMAIN g : ~x.noResend}}

Flush(alsoResend, sent, states, recvd, last) ==
  \E blocks \in DueBlocks(alsoResend, sent), due \in DueStates(alsoResend, states) :
  \E n \in 0 .. Cardinality(Outgoing(blocks)), invalid \in SUBSET due :
    LET sending == due \ (invalid \cup GivenUp(due))
        m == n + Cardinality(sending)
        count == PacketsToSend(m, Cardinality(Unacked(recvd)))
    IN
    \E f \in Packings(blocks, n), g \in StateSlots(sending, n, m) :
    \E order \in AckOrders(recvd) :
      /\ Transmit(sent, states, due, recvd, f, g, AckNumbers(order, count, last), count)
      /\ recvdPacketSeqs' = AcksGiven(recvd, Numbers(AckNumbers(order, count, last)))

CheckAndResend ==
  /\ Flush(TRUE, sentCommands, queuedStates, recvdPacketSeqs, lastClientSequence)
  /\ UNCHANGED <<serverCommandsSent, statesQueued, lastClientSequence,
                 clientCommandsReceived, executed, callbacks, c2s, cliGot>>

-----------------------------------------------------------------------------
(* HandlePacket, for an encrypted packet q of the client.                  *)

(* Mutant of Acknowledged: any acknowledgement settles whatever was sent.  *)
AcknowledgedAny(entries, q) ==
  {e \in entries : e.packetsItsIn # {} /\ q.bits # {}}

(* AcknowledgePacket drops every block and state update that was in an     *)
(* acknowledged packet; the callBack of a state update (PopulateWorld, for *)
(* the player's own spawn) may queue further state updates.                *)
Acknowledged(entries, q) ==
  {e \in entries : e.packetsItsIn \cap AckSequences(q.ack, q.bits) # {}}

(* Mutant of NewCommands: no look at the ids received before.              *)
NewCommandsUnchecked(q) == q.cmds

(* HandleOrdered: a command is handled unless its id has been seen.        *)
NewCommands(q) == {c \in q.cmds : c % CmdMod \notin clientCommandsReceived}

(* HandlePacket: the acknowledgements, then the content (HandleEncrypted:  *)
(* state updates to HandleOther, which leaves the channel alone, commands  *)
(* to HandleOrdered), then a flush.  What handling a command queues is in  *)
(* that flush; here it is queued before, which comes to the same, since    *)
(* nothing is acknowledged that was not sent.                              *)
HandlePacket(q) ==
  LET gone == Acknowledged(queuedStates, q)
      called == {st \in gone : st.callBack}
      last == LastAfter(lastClientSequence, q.seq, SeqMod)
      recvd == RecvdAfter(recvdPacketSeqs, lastClientSequence, q.seq, SeqMod)
  IN
  \E more \in 0 .. (IF called = {} THEN 0 ELSE MaxStates - statesQueued) :
    /\ callbacks' = [s \in States |->
                       callbacks[s] + Cardinality({st \in called : st.id = s})]
    /\ statesQueued' = statesQueued + more
    /\ lastClientSequence' = last
    /\ clientCommandsReceived' =
         clientCommandsReceived \cup {c % CmdMod : c \in q.cmds}
    /\ executed' = [c \in ClientCommands |->
                      executed[c] + (IF c \in NewCommands(q) THEN 1 ELSE 0)]
    /\ Flush(FALSE,
             sentCommands \ Acknowledged(sentCommands, q),
             (queuedStates \ gone) \cup
               {QueuedState(statesQueued + i, FALSE, FALSE) : i \in 0 .. more - 1},
             recvd, last)
    /\ UNCHANGED <<serverCommandsSent, c2s, cliGot>>

-----------------------------------------------------------------------------
(* The client.                                                             *)

ClientReceive(p) ==
  /\ cliGot' = cliGot \cup {p}
  /\ UNCHANGED <<server, s2c, c2s>>

(* The client numbers its packets like the server, keeps repeating the     *)
(* commands it has not seen acknowledged, and acknowledges with a number   *)
(* it has received and honest bits.                                        *)
ClientSequence ==
  SequenceAfter(StartClientSequence, Cardinality(c2s) + 1, SeqMod)

ClientHonestBits(r) ==
  {i \in 0 .. AckWindow - 1 : SequenceBefore(r, i, SeqMod) \in SeqsOf(cliGot)}

ClientSend ==
  LET issued == CommandsOf(c2s)
      fresh == {c \in ClientCommands : c = Cardinality(issued)}
      pending == issued \ ClientCommandsAcked
  IN
  /\ Cardinality(c2s) < MaxClientPackets
  /\ \E r \in SeqsOf(cliGot) \cup {0}, cmds \in {pending, pending \cup fresh} :
       c2s' = c2s \cup {[seq |-> ClientSequence, ack |-> r,
                         bits |-> ClientHonestBits(r), cmds |-> cmds]}
  /\ UNCHANGED <<server, s2c, cliGot>>

-----------------------------------------------------------------------------
Next ==
  \/ QueueCommand
  \/ \E immediateOnly, callBack \in BOOLEAN : QueueState(immediateOnly, callBack)
  \/ CheckAndResend
  \/ \E q \in c2s : HandlePacket(q)
  \/ \E p \in s2c : ClientReceive(p)
  \/ ClientSend

Spec == Init /\ [][Next]_vars

(* The socket loop calls CheckAndResend over and over, and after at most a *)
(* second every block is due: a flush that sends all that is held is not   *)
(* put off for ever.                                                       *)
ResendAll ==
  /\ CheckAndResend
  /\ \A b \in sentCommands : b \notin sentCommands'

FairSpec == Spec /\ WF_vars(ResendAll)

-----------------------------------------------------------------------------
(* Properties.                                                             *)

Blocks == [cmds : SUBSET Commands, packetsItsIn : SUBSET PacketNumbers]
StateEntries == [id : States, noResend : BOOLEAN, callBack : BOOLEAN,
                 packetsItsIn : SUBSET PacketNumbers]

(* A SequencedPacket: localSeq, remoteSeq, the ackBits 0 .. 6 that are set *)
(* (bit 7 only counts as a request for more packets), and its messages.    *)
ServerPackets == [seq : PacketNumbers, ack : PacketNumbers,
                  bits : SUBSET (0 .. AckWindow - 1),
                  cmds : SUBSET Commands, states : SUBSET States]

(* A packet of the client carries the commands of an OrderedPacket: the    *)
(* blocks give the first number of a run, the commands in a run follow it. *)
ClientPackets == [seq : PacketNumbers, ack : PacketNumbers,
                  bits : SUBSET (0 .. AckWindow - 1),
                  cmds : SUBSET ClientCommands]

(* Every variable stays within the range of its C++ type and bound.        *)
TypeOK ==
  /\ serverSequence \in PacketNumbers
  /\ serverCommandsSent \in 0 .. MaxCommands
  /\ queuedCommands \in SUBSET Commands
  /\ sentCommands \in SUBSET Blocks
  /\ statesQueued \in 0 .. MaxStates
  /\ queuedStates \in SUBSET StateEntries
  /\ lastClientSequence \in PacketNumbers
  /\ DOMAIN recvdPacketSeqs \subseteq PacketNumbers
  /\ recvdPacketSeqs \in [DOMAIN recvdPacketSeqs -> BOOLEAN]
  /\ clientCommandsReceived \in SUBSET (0 .. CmdMod - 1)
  /\ executed \in [ClientCommands -> Nat]
  /\ callbacks \in [States -> Nat]
  /\ s2c \in SUBSET ServerPackets
  /\ c2s \in SUBSET ClientPackets
  /\ cliGot \in SUBSET s2c

Held == queuedCommands \cup UNION {b.cmds : b \in sentCommands}

(* A guaranteed command queued for the client is never lost: until the     *)
(* client has received a packet with it, FlushQueue still has it to send.  *)
NothingLost ==
  \A k \in 0 .. serverCommandsSent - 1 : k \in Held \cup CommandsOf(cliGot)

(* No command is held twice, by two sent blocks or by a block and the      *)
(* queue: FlushQueue never sends one command under two blocks.             *)
HeldOnce ==
  /\ \A b \in sentCommands : b.cmds \cap queuedCommands = {}
  /\ \A b1, b2 \in sentCommands : b1 # b2 => b1.cmds \cap b2.cmds = {}

(* A command of the client is handled at most once, however often its      *)
(* packet is repeated.                                                     *)
HandledAtMostOnce == \A c \in ClientCommands : executed[c] <= 1

(* "Command %1% already exists, ignoring.": a command that is ignored, its *)
(* packet being acknowledged all the same, has been handled before.        *)
IgnoredAlreadyHandled == \A c \in ClientCommandsAcked : executed[c] >= 1

(* A command of the client is handled at most once, and exactly once if    *)
(* the server's acknowledgements have told the client that it arrived.     *)
ExactlyOnce == HandledAtMostOnce /\ IgnoredAlreadyHandled

(* The callBack of a state update runs at most once, and only if the       *)
(* client has received the update (PopulateWorld after the own spawn).     *)
CallbackAfterReceipt ==
  \A s \in States :
    /\ callbacks[s] <= 1
    /\ callbacks[s] = 1 => \E p \in cliGot : s \in p.states

(* "always resend previous guaranteed msgs before sending new ones": when  *)
(* a packet carries a command for the first time, every older block still  *)
(* unacknowledged is in that packet or in an earlier one of the same flush.*)
PlaceInFlush(p) ==
  CHOOSE j \in 0 .. SeqMod - 1 : SequenceAfter(serverSequence, j, SeqMod) = p.seq

OldBeforeNew ==
  \A p \in s2c' \ s2c : p.cmds \cap queuedCommands # {} =>
    \A b \in sentCommands :
      (\E kept \in sentCommands' : kept.cmds = b.cmds) =>
        \E earlier \in s2c' \ s2c :
          /\ b.cmds \subseteq earlier.cmds
          /\ PlaceInFlush(earlier) <= PlaceInFlush(p)

ResendBeforeNew == [][OldBeforeNew]_vars

(* The server does not give up on a command: while it holds one, packets   *)
(* keep going out, as far as the bound on packets lets them, although the  *)
(* network promises nothing and the client may never answer.               *)
KeepsSending ==
  \A k \in Commands : k \in Held ~> (k \notin Held \/ Cardinality(s2c) = MaxServerPackets)

(* The channel implements the abstract one: the commands released are      *)
(* those the server no longer holds.                                       *)
Abstract == INSTANCE ReliableCommands WITH
  issued <- serverCommandsSent,
  delivered <- CommandsOf(cliGot),
  released <- (0 .. serverCommandsSent - 1) \ Held

ImplementsReliableCommands == Abstract!Spec

(* So does its other half: the updates waiting are those in m_queuedStates.*)
StatesOf(packets) == UNION {p.states : p \in packets}

Waiting(entries) == {[id |-> st.id, callBack |-> st.callBack] : st \in entries}

Updates == INSTANCE StateUpdates WITH
  Ids <- States,
  queued <- statesQueued,
  waiting <- Waiting(queuedStates),
  sent <- StatesOf(s2c),
  received <- StatesOf(cliGot),
  called <- callbacks

ImplementsStateUpdates == Updates!Spec

-----------------------------------------------------------------------------
(* Why no command is lost, as an inductive invariant.  A packet number     *)
(* names one packet; a block knows only numbers of packets sent, and every *)
(* such packet carries the whole block; the client acknowledges only       *)
(* packets it has.  An acknowledgement of any number a block knows is then *)
(* an acknowledgement of the block.                                        *)
NumbersUnique == \A p1, p2 \in s2c : p1.seq = p2.seq => p1 = p2

BlockNumbersSent == \A b \in sentCommands : b.packetsItsIn \subseteq SeqsOf(s2c)

BlockContents ==
  \A b \in sentCommands, p \in s2c : p.seq \in b.packetsItsIn => b.cmds \subseteq p.cmds

ClientHonest ==
  \A q \in c2s, i \in 0 .. AckWindow - 1 :
    i \in q.bits => SequenceBefore(q.ack, i, SeqMod) \in SeqsOf(cliGot)

CommandsIssued ==
  /\ Held \subseteq 0 .. serverCommandsSent - 1
  /\ \A p \in s2c : p.cmds \subseteq 0 .. serverCommandsSent - 1

(* The conjunction is inductive: blocks go out whole and with their own    *)
(* number only, so nothing is forgotten on a wrong acknowledgement.        *)
DeliveryInv ==
  /\ TypeOK
  /\ IsFiniteSet(queuedStates) /\ IsFiniteSet(c2s)
  /\ NumbersUnique
  /\ BlockNumbersSent
  /\ BlockContents
  /\ ClientHonest
  /\ CommandsIssued
  /\ HeldOnce
  /\ NothingLost
=============================================================================
