------------------------------ MODULE RCC_proofs ------------------------------
(***************************************************************************)
(* Proofs about the reliable channel, for every value of its constants     *)
(* that satisfies RCCAssumption.                                           *)
(***************************************************************************)
EXTENDS RCC, TLAPS, FiniteSetTheorems

-----------------------------------------------------------------------------
(* Packet numbers.                                                         *)

LEMMA AfterInRange ==
  ASSUME NEW s \in PacketNumbers, NEW d \in 0 .. SeqMod
  PROVE  SequenceAfter(s, d, SeqMod) \in PacketNumbers
BY RCCAssumption DEF SequenceAfter, PacketNumbers

LEMMA AfterInjective ==
  ASSUME NEW s \in PacketNumbers,
         NEW d \in 0 .. SeqMod - 1, NEW e \in 0 .. SeqMod - 1,
         SequenceAfter(s, d, SeqMod) = SequenceAfter(s, e, SeqMod)
  PROVE  d = e
BY RCCAssumption DEF SequenceAfter, PacketNumbers

(* A number that the server reads as acknowledged, if it is a packet       *)
(* number at all, is the one the client meant, although the code subtracts *)
(* in 16 bits instead of modulo SeqMod.                                    *)
LEMMA AckedIsMeant ==
  ASSUME NEW s \in PacketNumbers, NEW ack \in PacketNumbers,
         NEW i \in 0 .. AckWindow - 1, s = Uint16(ack - i)
  PROVE  s = SequenceBefore(ack, i, SeqMod) /\ s = ack - i /\ i <= ack
<1>1. CASE i <= ack
  <2>1. (ack - i) % 65536 = ack - i
    BY <1>1, RCCAssumption DEF PacketNumbers
  <2> QED BY <2>1, <1>1 DEF Uint16, SequenceBefore
<1>2. CASE i > ack
  <2>1. (ack - i) % 65536 = ack - i + 65536
    BY <1>2, RCCAssumption DEF PacketNumbers
  <2>2. s > SeqMod - 1
    BY <2>1, <1>2, RCCAssumption DEF Uint16, PacketNumbers
  <2> QED BY <2>2, RCCAssumption DEF PacketNumbers
<1> QED BY <1>1, <1>2, RCCAssumption DEF PacketNumbers

LEMMA NumbersFinite == IsFiniteSet(PacketNumbers)
<1>1. SeqMod - 1 \in Int
  BY RCCAssumption
<1>2. IsFiniteSet(0 .. SeqMod - 1)
  BY <1>1, FS_Interval
<1> QED BY <1>2 DEF PacketNumbers

(* How many packets a flush sends is a natural number.                     *)
LEMMA FlushCounts ==
  ASSUME NEW sending, IsFiniteSet(sending),
         NEW recvd, DOMAIN recvd \subseteq PacketNumbers,
         NEW n \in Nat
  PROVE  LET m == n + Cardinality(sending)
             acks == Cardinality(Unacked(recvd))
             count == PacketsToSend(m, acks)
         IN  /\ m \in Nat /\ acks \in Nat /\ count \in Nat
             /\ n <= m /\ m <= count
<1>1. IsFiniteSet(Unacked(recvd))
  BY NumbersFinite, FS_Subset DEF Unacked
<1>2. Cardinality(Unacked(recvd)) \in Nat /\ Cardinality(sending) \in Nat
  BY <1>1, FS_CardinalityType
<1> QED BY <1>2 DEF PacketsToSend

(* What a flush does, with its choices named: it sends count packets, the  *)
(* first n with the due blocks and the queued commands as f places them,   *)
(* those up to m with state updates as g places them; each acknowledges a  *)
(* number not acknowledged before or the latest one.                       *)
Sends(alsoResend, sent, states, recvd, last,
      blocks, due, sending, n, m, count, f, g, ack) ==
  /\ blocks \in DueBlocks(alsoResend, sent) /\ blocks \subseteq sent
  /\ due \subseteq states /\ sending \subseteq due
  /\ count \in 0 .. SeqMod /\ n \in 0 .. count /\ m \in 0 .. count
  /\ f \in Packings(blocks, n) /\ g \in StateSlots(sending, n, m)
  /\ ack \in [1 .. count -> Unacked(recvd) \cup {last}]
  /\ Transmit(sent, states, due, recvd, f, g, ack, count)
  /\ recvdPacketSeqs' = AcksGiven(recvd, Numbers(ack))

LEMMA FlushSends ==
  ASSUME NEW alsoResend, NEW sent, NEW states, NEW recvd, NEW last,
         IsFiniteSet(states), DOMAIN recvd \subseteq PacketNumbers,
         Flush(alsoResend, sent, states, recvd, last)
  PROVE  \E blocks, due, sending, n, m, count, f, g, ack :
           Sends(alsoResend, sent, states, recvd, last,
                 blocks, due, sending, n, m, count, f, g, ack)
<1>1. PICK blocks \in DueBlocks(alsoResend, sent), due \in DueStates(alsoResend, states) :
      \E n \in 0 .. Cardinality(Outgoing(blocks)), invalid \in SUBSET due :
        LET sending == due \ (invalid \cup GivenUp(due))
            m == n + Cardinality(sending)
            count == PacketsToSend(m, Cardinality(Unacked(recvd)))
        IN
        \E f \in Packings(blocks, n), g \in StateSlots(sending, n, m) :
        \E order \in AckOrders(recvd) :
          /\ Transmit(sent, states, due, recvd, f, g, AckNumbers(order, count, last), count)
          /\ recvdPacketSeqs' = AcksGiven(recvd, Numbers(AckNumbers(order, count, last)))
  BY Zenon DEF Flush
<1>2. PICK n \in 0 .. Cardinality(Outgoing(blocks)), invalid \in SUBSET due :
        LET sending == due \ (invalid \cup GivenUp(due))
            m == n + Cardinality(sending)
            count == PacketsToSend(m, Cardinality(Unacked(recvd)))
        IN
        \E f \in Packings(blocks, n), g \in StateSlots(sending, n, m) :
        \E order \in AckOrders(recvd) :
          /\ Transmit(sent, states, due, recvd, f, g, AckNumbers(order, count, last), count)
          /\ recvdPacketSeqs' = AcksGiven(recvd, Numbers(AckNumbers(order, count, last)))
  BY <1>1, Zenon
<1> DEFINE sending == due \ (invalid \cup GivenUp(due))
           m == n + Cardinality(sending)
           count == PacketsToSend(m, Cardinality(Unacked(recvd)))
<1>3. PICK f \in Packings(blocks, n), g \in StateSlots(sending, n, m),
           order \in AckOrders(recvd) :
          /\ Transmit(sent, states, due, recvd, f, g, AckNumbers(order, count, last), count)
          /\ recvdPacketSeqs' = AcksGiven(recvd, Numbers(AckNumbers(order, count, last)))
  BY <1>2, Zenon
<1> DEFINE ack == AckNumbers(order, count, last)
<1>4. blocks \subseteq sent /\ due \subseteq states /\ sending \subseteq due
  BY SMT DEF DueBlocks, DueStates
<1>5. n \in Nat
  BY SMT
<1>6. IsFiniteSet(sending)
  BY <1>4, FS_Subset
<1>7. /\ m \in Nat /\ count \in Nat
      /\ n <= m /\ m <= count
  BY <1>5, <1>6, FlushCounts
<1>8. count <= SeqMod
  BY <1>3 DEF Transmit, FreshNumbers
<1>9. ack \in [1 .. count -> Unacked(recvd) \cup {last}]
  <2>1. \A j \in DOMAIN order : order[j] \in Unacked(recvd)
    BY <1>3 DEF AckOrders
  <2> QED BY <2>1 DEF AckNumbers
<1> HIDE DEF sending, m, count, ack
<1> QED
  <2>1. count \in 0 .. SeqMod /\ n \in 0 .. count /\ m \in 0 .. count
    BY <1>5, <1>7, <1>8, RCCAssumption
  <2>2. Sends(alsoResend, sent, states, recvd, last,
              blocks, due, sending, n, m, count, f, g, ack)
    BY <1>1, <1>3, <1>4, <1>9, <2>1, Zenon DEF ack, Sends
  <2> QED BY <2>2, Zenon

-----------------------------------------------------------------------------
(* Type correctness.                                                       *)

LEMMA SentInType ==
  ASSUME NEW N \in SUBSET PacketNumbers
  PROVE  /\ \A b \in Blocks : SentIn(b, N) \in Blocks
         /\ \A b \in Blocks : /\ SentIn(b, N).cmds = b.cmds
                              /\ SentIn(b, N).packetsItsIn = b.packetsItsIn \cup N
         /\ \A st \in StateEntries : SentIn(st, N) \in StateEntries
BY DEF SentIn, Blocks, StateEntries

(* A finite set stays finite under the image of a function.                *)
LEMMA ImageFinite ==
  ASSUME NEW S, IsFiniteSet(S), NEW f, DOMAIN f = S
  PROVE  IsFiniteSet({f[x] : x \in S})
<1> DEFINE T == {f[x] : x \in S}
<1>1. [x \in S |-> f[x]] \in Surjection(S, T)
  BY DEF Surjection
<1> QED BY <1>1, FS_Surjection

LEMMA NumberOfType ==
  ASSUME TypeOK, NEW count \in 0 .. SeqMod
  PROVE  /\ \A j \in 1 .. count : NumberOf(j) \in PacketNumbers
         /\ \A i, j \in 1 .. count : NumberOf(i) = NumberOf(j) => i = j
         /\ SequenceAfter(serverSequence, count, SeqMod) \in PacketNumbers
<1>1. serverSequence \in PacketNumbers
  BY DEF TypeOK
<1>2. ASSUME NEW j \in 1 .. count PROVE j - 1 \in 0 .. SeqMod - 1 /\ j - 1 \in 0 .. SeqMod
  BY RCCAssumption
<1>3. \A j \in 1 .. count : NumberOf(j) \in PacketNumbers
  BY <1>1, <1>2, AfterInRange DEF NumberOf
<1>4. ASSUME NEW i \in 1 .. count, NEW j \in 1 .. count, NumberOf(i) = NumberOf(j)
      PROVE  i = j
  <2>1. i - 1 = j - 1
    BY <1>1, <1>2, <1>4, AfterInjective DEF NumberOf
  <2> QED BY <2>1
<1> QED BY <1>1, <1>3, <1>4, AfterInRange

(* Sending keeps the types.                                                *)
LEMMA TransmitType ==
  ASSUME TypeOK,
         NEW sent \in SUBSET sentCommands,
         NEW states \in SUBSET StateEntries, IsFiniteSet(states),
         NEW recvd, NEW due \in SUBSET states, NEW blocks \in SUBSET sent,
         NEW count \in 0 .. SeqMod, NEW n \in 0 .. count, NEW m \in 0 .. count,
         NEW f \in Packings(blocks, n), NEW sending \in SUBSET due,
         NEW g \in StateSlots(sending, n, m),
         NEW ack \in [1 .. count -> PacketNumbers],
         Transmit(sent, states, due, recvd, f, g, ack, count)
  PROVE  /\ serverSequence' \in PacketNumbers
         /\ queuedCommands' = {}
         /\ sentCommands' \in SUBSET Blocks
         /\ queuedStates' \in SUBSET StateEntries
         /\ IsFiniteSet(queuedStates')
         /\ s2c' \in SUBSET ServerPackets
<1> USE DEF Transmit
<1>1. /\ \A j \in 1 .. count : NumberOf(j) \in PacketNumbers
      /\ serverSequence' \in PacketNumbers
      /\ queuedCommands' = {}
  BY NumberOfType
<1>2. /\ \A k \in DOMAIN f : f[k] \in 1 .. count
      /\ DOMAIN f = Outgoing(blocks)
  BY DEF Packings
<1>3. /\ \A st \in DOMAIN g : g[st] \in 1 .. count
      /\ DOMAIN g = sending
  BY DEF StateSlots
<1>4. Outgoing(blocks) \subseteq Commands
  BY DEF Outgoing, TypeOK, Blocks
<1>5. sentCommands' \in SUBSET Blocks
  <2>1. ASSUME NEW b \in sent
        PROVE  SentIn(b, {NumberOf(f[k]) : k \in b.cmds \cap DOMAIN f}) \in Blocks
    <3>1. b \in Blocks
      BY DEF TypeOK
    <3>2. {NumberOf(f[k]) : k \in b.cmds \cap DOMAIN f} \in SUBSET PacketNumbers
      BY <1>1, <1>2
    <3> QED BY <3>1, <3>2, SentInType
  <2>2. ASSUME NEW j \in {f[k] : k \in queuedCommands}
        PROVE  [cmds |-> NewBlock(f, j), packetsItsIn |-> {NumberOf(j)}] \in Blocks
    <3>1. j \in 1 .. count
      BY <1>2 DEF Outgoing
    <3>2. NewBlock(f, j) \subseteq Commands
      BY DEF NewBlock, TypeOK
    <3> QED BY <1>1, <3>1, <3>2 DEF Blocks
  <2> QED BY <2>1, <2>2
<1>6. ASSUME NEW st \in sending
      PROVE  SentIn(st, {NumberOf(g[st])}) \in StateEntries
  <2>1. st \in StateEntries /\ {NumberOf(g[st])} \in SUBSET PacketNumbers
    BY <1>1, <1>3
  <2> QED BY <2>1, SentInType
<1>7. queuedStates' \in SUBSET StateEntries
  BY <1>3, <1>6
<1>8. IsFiniteSet(queuedStates')
  <2> DEFINE S == {x \in DOMAIN g : ~x.noResend}
             h == [st \in S |-> SentIn(st, {NumberOf(g[st])})]
  <2>1. IsFiniteSet(S) /\ IsFiniteSet(states \ due)
    BY <1>3, FS_Subset
  <2>2. IsFiniteSet({h[st] : st \in S})
    <3>1. DOMAIN h = S
      OBVIOUS
    <3> HIDE DEF S, h
    <3> QED BY <2>1, <3>1, ImageFinite
  <2>3. queuedStates' = (states \ due) \cup {h[st] : st \in S}
    OBVIOUS
  <2> HIDE DEF S, h, Transmit
  <2>4. IsFiniteSet((states \ due) \cup {h[st] : st \in S})
    BY <2>1, <2>2, FS_Union
  <2> QED BY <2>3, <2>4
<1>9. s2c' \in SUBSET ServerPackets
  <2> DEFINE packet(j) ==
        [seq |-> NumberOf(j), ack |-> ack[j],
         bits |-> GetAckBits(recvd, ack[j], AckWindow),
         cmds |-> {k \in DOMAIN f : f[k] = j},
         states |-> {st.id : st \in {x \in DOMAIN g : g[x] = j}}]
  <2>1. s2c' = s2c \cup {packet(j) : j \in 1 .. count}
    OBVIOUS
  <2>2. ASSUME NEW j \in 1 .. count PROVE packet(j) \in ServerPackets
    <3>1. GetAckBits(recvd, ack[j], AckWindow) \subseteq 0 .. AckWindow - 1
      BY DEF GetAckBits
    <3>2. {k \in DOMAIN f : f[k] = j} \subseteq Commands
      BY <1>2, <1>4
    <3>3. {st.id : st \in {x \in DOMAIN g : g[x] = j}} \subseteq States
      BY <1>3 DEF StateEntries
    <3> QED BY <1>1, <3>1, <3>2, <3>3 DEF ServerPackets
  <2> QED BY <2>1, <2>2 DEF TypeOK
<1> QED BY <1>1, <1>5, <1>7, <1>8, <1>9

TypeInv == TypeOK /\ IsFiniteSet(queuedStates) /\ IsFiniteSet(c2s)

LEMMA FlushType ==
  ASSUME TypeOK, NEW alsoResend,
         NEW sent \in SUBSET sentCommands,
         NEW states \in SUBSET StateEntries, IsFiniteSet(states),
         NEW recvd, recvd \in [DOMAIN recvd -> BOOLEAN],
         DOMAIN recvd \subseteq PacketNumbers,
         NEW last \in PacketNumbers,
         Flush(alsoResend, sent, states, recvd, last)
  PROVE  /\ serverSequence' \in PacketNumbers
         /\ queuedCommands' = {}
         /\ sentCommands' \in SUBSET Blocks
         /\ queuedStates' \in SUBSET StateEntries
         /\ IsFiniteSet(queuedStates')
         /\ s2c' \in SUBSET ServerPackets
         /\ DOMAIN recvdPacketSeqs' \subseteq PacketNumbers
         /\ recvdPacketSeqs' \in [DOMAIN recvdPacketSeqs' -> BOOLEAN]
<1>1. PICK blocks, due, sending, n, m, count, f, g, ack :
        Sends(alsoResend, sent, states, recvd, last,
              blocks, due, sending, n, m, count, f, g, ack)
  BY FlushSends
<1>2. ack \in [1 .. count -> PacketNumbers]
  BY <1>1 DEF Sends, Unacked
<1>3. /\ DOMAIN recvdPacketSeqs' \subseteq PacketNumbers
      /\ recvdPacketSeqs' \in [DOMAIN recvdPacketSeqs' -> BOOLEAN]
  BY <1>1, <1>2 DEF Sends, AcksGiven, Numbers
<1> QED BY <1>1, <1>2, <1>3, TransmitType DEF Sends

LEMMA TypeInit == Init => TypeInv
<1> SUFFICES ASSUME Init PROVE TypeInv
  OBVIOUS
<1>1. TypeOK
  BY RCCAssumption DEF Init, TypeOK, PacketNumbers, Commands, States,
     ClientCommands, Blocks, StateEntries, ServerPackets, ClientPackets
<1> QED BY <1>1, FS_EmptySet DEF Init, TypeInv

(* What HandlePacket hands to FlushQueue is typed.                         *)
LEMMA RecvdAfterType ==
  ASSUME NEW recvd, recvd \in [DOMAIN recvd -> BOOLEAN],
         DOMAIN recvd \subseteq PacketNumbers,
         NEW last \in PacketNumbers, NEW seq \in PacketNumbers
  PROVE  LET after == RecvdAfter(recvd, last, seq, SeqMod)
         IN  /\ LastAfter(last, seq, SeqMod) \in PacketNumbers
             /\ after \in [DOMAIN after -> BOOLEAN]
             /\ DOMAIN after \subseteq PacketNumbers
BY DEF RecvdAfter, LastAfter

LEMMA MoreStates ==
  ASSUME NEW more \in Nat, NEW first \in Nat, first + more <= MaxStates
  PROVE  LET new == {QueuedState(first + i, FALSE, FALSE) : i \in 0 .. more - 1}
         IN  new \subseteq StateEntries /\ IsFiniteSet(new)
<1> DEFINE h == [i \in 0 .. more - 1 |-> QueuedState(first + i, FALSE, FALSE)]
<1>1. \A i \in 0 .. more - 1 : h[i] \in StateEntries
  BY RCCAssumption DEF QueuedState, StateEntries, States
<1>2. IsFiniteSet(0 .. more - 1) /\ DOMAIN h = 0 .. more - 1
  BY FS_Interval
<1>3. {QueuedState(first + i, FALSE, FALSE) : i \in 0 .. more - 1}
        = {h[i] : i \in 0 .. more - 1}
  OBVIOUS
<1> HIDE DEF h
<1>4. IsFiniteSet({h[i] : i \in 0 .. more - 1})
  BY <1>2, ImageFinite
<1> QED BY <1>1, <1>3, <1>4

LEMMA HandlePacketType ==
  ASSUME TypeInv, NEW q \in c2s, HandlePacket(q)
  PROVE  TypeInv'
<1> DEFINE gone == Acknowledged(queuedStates, q)
           called == {st \in gone : st.callBack}
           last == LastAfter(lastClientSequence, q.seq, SeqMod)
           recvd == RecvdAfter(recvdPacketSeqs, lastClientSequence, q.seq, SeqMod)
           sent == sentCommands \ Acknowledged(sentCommands, q)
<1>1. PICK more \in 0 .. (IF called = {} THEN 0 ELSE MaxStates - statesQueued) :
    /\ callbacks' = [s \in States |->
                       callbacks[s] + Cardinality({st \in called : st.id = s})]
    /\ statesQueued' = statesQueued + more
    /\ lastClientSequence' = last
    /\ clientCommandsReceived' =
         clientCommandsReceived \cup {c % CmdMod : c \in q.cmds}
    /\ executed' = [c \in ClientCommands |->
                      executed[c] + (IF c \in NewCommands(q) THEN 1 ELSE 0)]
    /\ Flush(FALSE, sent,
             (queuedStates \ gone) \cup
               {QueuedState(statesQueued + i, FALSE, FALSE) : i \in 0 .. more - 1},
             recvd, last)
    /\ UNCHANGED <<serverCommandsSent, c2s, cliGot>>
  BY Zenon DEF HandlePacket
<1> DEFINE states == (queuedStates \ gone) \cup
               {QueuedState(statesQueued + i, FALSE, FALSE) : i \in 0 .. more - 1}
<1>2. q \in ClientPackets /\ q.seq \in PacketNumbers
  BY DEF TypeInv, TypeOK, ClientPackets
<1>3. /\ last \in PacketNumbers
      /\ recvd \in [DOMAIN recvd -> BOOLEAN] /\ DOMAIN recvd \subseteq PacketNumbers
  BY <1>2, RecvdAfterType DEF TypeInv, TypeOK
<1>4. more \in Nat /\ statesQueued + more <= MaxStates /\ statesQueued \in Nat
  BY RCCAssumption DEF TypeInv, TypeOK
<1>5. gone \subseteq queuedStates
  BY DEF Acknowledged
<1>6. states \in SUBSET StateEntries /\ IsFiniteSet(states)
  <2>1. IsFiniteSet(queuedStates \ gone)
    BY FS_Subset DEF TypeInv
  <2> QED BY <1>4, <1>5, <2>1, MoreStates, FS_Union DEF TypeInv, TypeOK
<1>7. sent \in SUBSET sentCommands
  OBVIOUS
<1>8. callbacks' \in [States -> Nat]
  <2> SUFFICES ASSUME NEW s \in States
               PROVE  Cardinality({st \in called : st.id = s}) \in Nat
    BY <1>1 DEF TypeInv, TypeOK
  <2>1. IsFiniteSet({st \in called : st.id = s})
    BY <1>5, FS_Subset DEF TypeInv
  <2> QED BY <2>1, FS_CardinalityType
<1>9. executed' \in [ClientCommands -> Nat]
  BY <1>1 DEF TypeInv, TypeOK
<1>10. clientCommandsReceived' \subseteq 0 .. CmdMod - 1
  <2>1. \A c \in q.cmds : c % CmdMod \in 0 .. CmdMod - 1
    BY <1>2, RCCAssumption DEF ClientPackets, ClientCommands
  <2> QED BY <1>1, <2>1 DEF TypeInv, TypeOK
<1>11. statesQueued' \in 0 .. MaxStates
  BY <1>1, <1>4, RCCAssumption
<1>12. Flush(FALSE, sent, states, recvd, last)
  BY <1>1
<1> HIDE DEF sent, states, recvd, last, called, gone
<1>13. /\ serverSequence' \in PacketNumbers
       /\ queuedCommands' = {}
       /\ sentCommands' \in SUBSET Blocks
       /\ queuedStates' \in SUBSET StateEntries
       /\ IsFiniteSet(queuedStates')
       /\ s2c' \in SUBSET ServerPackets
       /\ DOMAIN recvdPacketSeqs' \subseteq PacketNumbers
       /\ recvdPacketSeqs' \in [DOMAIN recvdPacketSeqs' -> BOOLEAN]
  BY <1>3, <1>6, <1>7, <1>12, FlushType DEF TypeInv
<1>14. s2c \subseteq s2c'
  BY <1>12 DEF Flush, Transmit
<1> QED BY <1>1, <1>3, <1>8, <1>9, <1>10, <1>11, <1>13, <1>14 DEF TypeInv, TypeOK

LEMMA ClientSendType ==
  ASSUME TypeInv, ClientSend
  PROVE  TypeInv'
<1> DEFINE issued == CommandsOf(c2s)
           fresh == {c \in ClientCommands : c = Cardinality(issued)}
           pending == issued \ ClientCommandsAcked
<1>1. PICK r \in SeqsOf(cliGot) \cup {0}, cmds \in {pending, pending \cup fresh} :
       c2s' = c2s \cup {[seq |-> ClientSequence, ack |-> r,
                         bits |-> ClientHonestBits(r), cmds |-> cmds]}
  BY Zenon DEF ClientSend
<1>2. ClientSequence \in PacketNumbers
  <2>1. Cardinality(c2s) \in Nat
    BY FS_CardinalityType DEF TypeInv
  <2>2. Cardinality(c2s) + 1 \in 0 .. SeqMod /\ StartClientSequence \in PacketNumbers
    BY <2>1, RCCAssumption DEF ClientSend, PacketNumbers
  <2> QED BY <2>2, AfterInRange DEF ClientSequence
<1>3. r \in PacketNumbers
  BY RCCAssumption DEF SeqsOf, TypeInv, TypeOK, ServerPackets, PacketNumbers
<1>4. cmds \subseteq ClientCommands
  <2>1. \A q \in c2s : q.cmds \subseteq ClientCommands
    BY DEF TypeInv, TypeOK, ClientPackets
  <2>2. issued \subseteq ClientCommands
    BY <2>1 DEF CommandsOf
  <2> QED BY <2>2
<1>5. ClientHonestBits(r) \subseteq 0 .. AckWindow - 1
  BY DEF ClientHonestBits
<1>6. [seq |-> ClientSequence, ack |-> r,
       bits |-> ClientHonestBits(r), cmds |-> cmds] \in ClientPackets
  BY <1>2, <1>3, <1>4, <1>5 DEF ClientPackets
<1>7. UNCHANGED <<server, s2c, cliGot>>
  BY DEF ClientSend
<1>8. IsFiniteSet(c2s')
  BY <1>1, FS_AddElement DEF TypeInv
<1> HIDE DEF issued, fresh, pending
<1> QED BY <1>1, <1>6, <1>7, <1>8 DEF TypeInv, TypeOK, server

LEMMA TypeStep == TypeInv /\ [Next]_vars => TypeInv'
<1> SUFFICES ASSUME TypeInv, [Next]_vars PROVE TypeInv'
  OBVIOUS
<1>1. CASE QueueCommand
  BY <1>1, RCCAssumption DEF TypeInv, TypeOK, QueueCommand, Commands
<1>2. ASSUME NEW immediateOnly \in BOOLEAN, NEW callBack \in BOOLEAN,
             QueueState(immediateOnly, callBack)
      PROVE  TypeInv'
  <2>1. QueuedState(statesQueued, immediateOnly, callBack) \in StateEntries
    BY <1>2, RCCAssumption
       DEF QueueState, QueuedState, StateEntries, States, TypeInv, TypeOK
  <2>2. IsFiniteSet(queuedStates')
    BY <1>2, FS_AddElement DEF QueueState, TypeInv
  <2> QED BY <1>2, <2>1, <2>2, RCCAssumption DEF TypeInv, TypeOK, QueueState
<1>3. CASE CheckAndResend
  <2>1. /\ sentCommands \in SUBSET sentCommands
        /\ queuedStates \in SUBSET StateEntries /\ IsFiniteSet(queuedStates)
        /\ recvdPacketSeqs \in [DOMAIN recvdPacketSeqs -> BOOLEAN]
        /\ DOMAIN recvdPacketSeqs \subseteq PacketNumbers
        /\ lastClientSequence \in PacketNumbers
    BY DEF TypeInv, TypeOK
  <2>2. Flush(TRUE, sentCommands, queuedStates, recvdPacketSeqs, lastClientSequence)
    BY <1>3 DEF CheckAndResend
  <2>3. s2c \subseteq s2c'
    BY <2>2 DEF Flush, Transmit
  <2>4. /\ serverSequence' \in PacketNumbers
        /\ queuedCommands' = {}
        /\ sentCommands' \in SUBSET Blocks
        /\ queuedStates' \in SUBSET StateEntries
        /\ IsFiniteSet(queuedStates')
        /\ s2c' \in SUBSET ServerPackets
        /\ DOMAIN recvdPacketSeqs' \subseteq PacketNumbers
        /\ recvdPacketSeqs' \in [DOMAIN recvdPacketSeqs' -> BOOLEAN]
    BY <2>1, <2>2, FlushType DEF TypeInv
  <2> QED BY <1>3, <2>3, <2>4 DEF TypeInv, TypeOK, CheckAndResend
<1>4. ASSUME NEW q \in c2s, HandlePacket(q) PROVE TypeInv'
  BY <1>4, HandlePacketType
<1>5. ASSUME NEW p \in s2c, ClientReceive(p) PROVE TypeInv'
  BY <1>5 DEF TypeInv, TypeOK, ClientReceive, server
<1>6. CASE ClientSend
  BY <1>6, ClientSendType
<1>7. CASE UNCHANGED vars
  BY <1>7 DEF TypeInv, TypeOK, vars, server
<1> QED BY <1>1, <1>2, <1>3, <1>4, <1>5, <1>6, <1>7 DEF Next

(* Every variable keeps its type: in particular the packet numbers stay in *)
(* the 12 bits of the header, although increaseServerSequence,             *)
(* PacketReceived and AcknowledgePacket compute with them in 16.           *)
THEOREM TypeCorrect == Spec => []TypeOK
<1>1. Spec => []TypeInv
  BY TypeInit, TypeStep, PTL DEF Spec
<1>2. TypeInv => TypeOK
  BY DEF TypeInv
<1> QED BY <1>1, <1>2, PTL

-----------------------------------------------------------------------------
(* No command is lost.                                                     *)

(* Sending keeps a block and its packets together.  The packets sent are   *)
(* new numbers, so the blocks in one of them are exactly the blocks that   *)
(* were put into it; a block is not split, because no command of it is in  *)
(* a second block.                                                         *)
LEMMA TransmitDelivery ==
  ASSUME DeliveryInv,
         NEW sent \in SUBSET sentCommands,
         NEW states, NEW recvd, NEW due, NEW blocks \in SUBSET sent,
         NEW count \in 0 .. SeqMod, NEW n \in 0 .. count, NEW m \in 0 .. count,
         NEW f \in Packings(blocks, n), NEW g, NEW ack,
         Transmit(sent, states, due, recvd, f, g, ack, count)
  PROVE  /\ NumbersUnique' /\ BlockNumbersSent' /\ BlockContents' /\ HeldOnce'
         /\ Held' = queuedCommands \cup UNION {b.cmds : b \in sent}
         /\ \A p \in s2c' : p.cmds \subseteq 0 .. serverCommandsSent - 1
<1> DEFINE packet(j) ==
        [seq |-> NumberOf(j), ack |-> ack[j],
         bits |-> GetAckBits(recvd, ack[j], AckWindow),
         cmds |-> {k \in DOMAIN f : f[k] = j},
         states |-> {st.id : st \in {x \in DOMAIN g : g[x] = j}}]
<1> DEFINE numbers(b) == {NumberOf(f[k]) : k \in b.cmds \cap DOMAIN f}
           again(b) == SentIn(b, numbers(b))
           new(j) == [cmds |-> NewBlock(f, j), packetsItsIn |-> {NumberOf(j)}]
           newSlots == {f[k] : k \in queuedCommands}
<1>1. /\ s2c' = s2c \cup {packet(j) : j \in 1 .. count}
      /\ queuedCommands' = {}
      /\ sentCommands' = {again(b) : b \in sent} \cup {new(j) : j \in newSlots}
      /\ \A j \in 1 .. count : NumberOf(j) \notin SeqsOf(s2c)
  BY DEF Transmit, FreshNumbers
<1>2. /\ \A j \in 1 .. count : NumberOf(j) \in PacketNumbers
      /\ \A i, j \in 1 .. count : NumberOf(i) = NumberOf(j) => i = j
  BY NumberOfType DEF DeliveryInv
<1>3. /\ \A j \in 1 .. count : /\ packet(j).seq = NumberOf(j)
                               /\ packet(j).cmds = {k \in DOMAIN f : f[k] = j}
      /\ \A j : /\ new(j).cmds = NewBlock(f, j)
                /\ new(j).packetsItsIn = {NumberOf(j)}
  OBVIOUS
<1>4. /\ DOMAIN f = Outgoing(blocks) /\ \A k \in DOMAIN f : f[k] \in 1 .. count
      /\ \A b \in blocks : \A k, l \in b.cmds : f[k] = f[l]
  BY DEF Packings
<1>5. /\ queuedCommands \subseteq DOMAIN f /\ newSlots \subseteq 1 .. count
      /\ \A j : NewBlock(f, j) \subseteq queuedCommands
      /\ \A b \in blocks : b.cmds \subseteq DOMAIN f
  BY <1>4 DEF Outgoing, NewBlock
<1>6. \A b \in sent : /\ numbers(b) \subseteq PacketNumbers
                      /\ again(b).cmds = b.cmds
                      /\ again(b).packetsItsIn = b.packetsItsIn \cup numbers(b)
  <2> SUFFICES ASSUME NEW b \in sent
               PROVE  /\ numbers(b) \subseteq PacketNumbers
                      /\ again(b).cmds = b.cmds
                      /\ again(b).packetsItsIn = b.packetsItsIn \cup numbers(b)
    OBVIOUS
  <2>1. numbers(b) \in SUBSET PacketNumbers
    BY <1>2, <1>4
  <2>2. b \in Blocks
    BY DEF DeliveryInv, TypeOK
  <2> QED BY <2>1, <2>2, SentInType
<1> HIDE DEF packet, again, new, newSlots
<1>7. NumbersUnique'
  <2> SUFFICES ASSUME NEW p1 \in s2c', NEW p2 \in s2c', p1.seq = p2.seq
               PROVE  p1 = p2
    BY DEF NumbersUnique
  <2> QED BY <1>1, <1>2, <1>3 DEF DeliveryInv, NumbersUnique, SeqsOf
<1>8. \A j \in 1 .. count : NumberOf(j) \in SeqsOf(s2c')
  BY <1>1, <1>3 DEF SeqsOf
<1>9. SeqsOf(s2c) \subseteq SeqsOf(s2c')
  BY <1>1 DEF SeqsOf
<1>10. BlockNumbersSent'
  <2>1. ASSUME NEW b \in sent PROVE again(b).packetsItsIn \subseteq SeqsOf(s2c)'
    <3>1. b.packetsItsIn \subseteq SeqsOf(s2c)
      BY DEF DeliveryInv, BlockNumbersSent
    <3>2. numbers(b) \subseteq SeqsOf(s2c')
      BY <1>4, <1>8
    <3> QED BY <1>6, <1>9, <3>1, <3>2
  <2>2. ASSUME NEW j \in newSlots PROVE new(j).packetsItsIn \subseteq SeqsOf(s2c)'
    BY <1>3, <1>5, <1>8
  <2> QED BY <1>1, <2>1, <2>2 DEF BlockNumbersSent
<1>11. ASSUME NEW p \in s2c', NEW N, p.seq \in N, NEW j \in 1 .. count,
              p.seq = NumberOf(j)
       PROVE  p.cmds = {k \in DOMAIN f : f[k] = j}
  BY <1>1, <1>2, <1>3, <1>11 DEF SeqsOf
<1>12. BlockContents'
  <2>1. ASSUME NEW b \in sent, NEW p \in s2c', p.seq \in again(b).packetsItsIn
        PROVE  b.cmds \subseteq p.cmds
    <3>1. CASE p \in s2c /\ p.seq \in b.packetsItsIn
      BY <3>1 DEF DeliveryInv, BlockContents
    <3>2. CASE p.seq \in numbers(b)
      <4>1. PICK k \in b.cmds \cap DOMAIN f : p.seq = NumberOf(f[k])
        BY <3>2
      <4>2. b \in blocks
        BY <1>4, <4>1 DEF Outgoing, DeliveryInv, HeldOnce
      <4>3. \A l \in b.cmds : l \in DOMAIN f /\ f[l] = f[k]
        BY <1>4, <1>5, <4>1, <4>2
      <4>4. p.cmds = {l \in DOMAIN f : f[l] = f[k]}
        BY <1>4, <1>11, <3>2, <4>1
      <4> QED BY <4>3, <4>4
    <3>3. CASE p \notin s2c /\ p.seq \in b.packetsItsIn
      <4>1. p.seq \in SeqsOf(s2c)
        BY <3>3 DEF DeliveryInv, BlockNumbersSent
      <4> QED BY <1>1, <1>3, <3>3, <4>1
    <3> QED BY <1>6, <2>1, <3>1, <3>2, <3>3
  <2>2. ASSUME NEW j \in newSlots, NEW p \in s2c', p.seq \in new(j).packetsItsIn
        PROVE  new(j).cmds \subseteq p.cmds
    <3>1. j \in 1 .. count /\ p.seq = NumberOf(j)
      BY <1>3, <1>5, <2>2
    <3>2. p.cmds = {k \in DOMAIN f : f[k] = j}
      BY <1>11, <2>2, <3>1
    <3> QED BY <1>3, <1>5, <3>2 DEF NewBlock
  <2> QED BY <1>1, <1>6, <2>1, <2>2 DEF BlockContents
<1>13. HeldOnce'
  <2>1. ASSUME NEW b1 \in sentCommands', NEW b2 \in sentCommands', b1 # b2
        PROVE  b1.cmds \cap b2.cmds = {}
    <3>1. ASSUME NEW b \in sent, NEW c \in sent, again(b) # again(c)
          PROVE  again(b).cmds \cap again(c).cmds = {}
      <4>1. b # c
        BY <3>1
      <4> QED BY <1>6, <4>1 DEF DeliveryInv, HeldOnce
    <3>2. ASSUME NEW b \in sent, NEW j \in newSlots
          PROVE  again(b).cmds \cap new(j).cmds = {}
      BY <1>3, <1>5, <1>6 DEF DeliveryInv, HeldOnce
    <3>3. ASSUME NEW i \in newSlots, NEW j \in newSlots, new(i) # new(j)
          PROVE  new(i).cmds \cap new(j).cmds = {}
      <4>1. i # j
        BY <3>3
      <4> QED BY <1>3, <4>1 DEF NewBlock
    <3> QED BY <1>1, <2>1, <3>1, <3>2, <3>3
  <2> QED BY <1>1, <2>1 DEF HeldOnce
<1>14. Held' = queuedCommands \cup UNION {b.cmds : b \in sent}
  <2>1. Held' = UNION {b.cmds : b \in sentCommands'}
    BY <1>1 DEF Held
  <2>2. ASSUME NEW k \in queuedCommands
        PROVE  \E b \in sentCommands' : k \in b.cmds
    <3>1. f[k] \in newSlots /\ k \in NewBlock(f, f[k])
      BY DEF newSlots, NewBlock
    <3> QED BY <1>1, <1>3, <3>1
  <2>3. ASSUME NEW b \in sent, NEW k \in b.cmds
        PROVE  \E c \in sentCommands' : k \in c.cmds
    BY <1>1, <1>6
  <2>4. ASSUME NEW c \in sentCommands', NEW k \in c.cmds
        PROVE  k \in queuedCommands \/ \E b \in sent : k \in b.cmds
    BY <1>1, <1>3, <1>5, <1>6
  <2> QED BY <2>1, <2>2, <2>3, <2>4
<1>15. \A p \in s2c' : p.cmds \subseteq 0 .. serverCommandsSent - 1
  <2>1. DOMAIN f \subseteq Held
    BY <1>4 DEF Outgoing, Held
  <2>2. \A j \in 1 .. count : packet(j).cmds \subseteq DOMAIN f
    BY <1>3
  <2> QED BY <1>1, <2>1, <2>2 DEF DeliveryInv, CommandsIssued
<1> QED BY <1>7, <1>10, <1>12, <1>13, <1>14, <1>15

LEMMA FlushDelivery ==
  ASSUME DeliveryInv, NEW alsoResend,
         NEW sent \in SUBSET sentCommands, NEW states, IsFiniteSet(states),
         NEW recvd, DOMAIN recvd \subseteq PacketNumbers, NEW last,
         Flush(alsoResend, sent, states, recvd, last)
  PROVE  /\ NumbersUnique' /\ BlockNumbersSent' /\ BlockContents' /\ HeldOnce'
         /\ Held' = queuedCommands \cup UNION {b.cmds : b \in sent}
         /\ \A p \in s2c' : p.cmds \subseteq 0 .. serverCommandsSent - 1
<1>1. PICK blocks, due, sending, n, m, count, f, g, ack :
        Sends(alsoResend, sent, states, recvd, last,
              blocks, due, sending, n, m, count, f, g, ack)
  BY FlushSends
<1> QED BY <1>1, TransmitDelivery DEF Sends

(* A block that AcknowledgePacket drops has reached the client.            *)
LEMMA AcknowledgedReceived ==
  ASSUME DeliveryInv, NEW q \in c2s, NEW b \in Acknowledged(sentCommands, q)
  PROVE  b \in sentCommands /\ b.cmds \subseteq CommandsOf(cliGot)
<1>1. b \in sentCommands /\ q \in ClientPackets
  BY DEF Acknowledged, DeliveryInv, TypeOK
<1>2. PICK i \in q.bits : Uint16(q.ack - i) \in b.packetsItsIn
  BY DEF Acknowledged, AckSequences
<1> DEFINE s == Uint16(q.ack - i)
<1>3. /\ i \in 0 .. AckWindow - 1 /\ q.ack \in PacketNumbers
      /\ s \in PacketNumbers
  BY <1>1, <1>2 DEF ClientPackets, DeliveryInv, TypeOK, Blocks
<1>4. s = SequenceBefore(q.ack, i, SeqMod)
  BY <1>3, AckedIsMeant
<1>5. s \in SeqsOf(cliGot)
  BY <1>3, <1>4 DEF DeliveryInv, ClientHonest
<1>6. PICK p \in cliGot : p.seq = s
  BY <1>5 DEF SeqsOf
<1>7. p \in s2c
  BY DEF DeliveryInv, TypeOK
<1>8. b.cmds \subseteq p.cmds
  BY <1>1, <1>2, <1>6, <1>7 DEF DeliveryInv, BlockContents
<1> QED BY <1>1, <1>8 DEF CommandsOf

(* HandlePacket ends in a flush of the blocks that are not acknowledged,   *)
(* with the latest number and the map of numbers as PacketReceived left    *)
(* them.                                                                   *)
LEMMA HandlePacketFlushes ==
  ASSUME TypeInv, NEW q \in c2s, HandlePacket(q)
  PROVE  LET last == LastAfter(lastClientSequence, q.seq, SeqMod)
             recvd == RecvdAfter(recvdPacketSeqs, lastClientSequence, q.seq, SeqMod)
         IN  /\ last \in PacketNumbers /\ DOMAIN recvd \subseteq PacketNumbers
             /\ \E states :
                  /\ IsFiniteSet(states)
                  /\ Flush(FALSE, sentCommands \ Acknowledged(sentCommands, q),
                           states, recvd, last)
             /\ lastClientSequence' = last
             /\ UNCHANGED <<serverCommandsSent, c2s, cliGot>>
<1> DEFINE gone == Acknowledged(queuedStates, q)
           called == {st \in gone : st.callBack}
           last == LastAfter(lastClientSequence, q.seq, SeqMod)
           recvd == RecvdAfter(recvdPacketSeqs, lastClientSequence, q.seq, SeqMod)
           sent == sentCommands \ Acknowledged(sentCommands, q)
           new(more) ==
             {QueuedState(statesQueued + i, FALSE, FALSE) : i \in 0 .. more - 1}
           states(more) == (queuedStates \ gone) \cup new(more)
<1>1. PICK more \in 0 .. (IF called = {} THEN 0 ELSE MaxStates - statesQueued) :
        /\ lastClientSequence' = last
        /\ Flush(FALSE, sent, states(more), recvd, last)
        /\ UNCHANGED <<serverCommandsSent, c2s, cliGot>>
  BY Zenon DEF HandlePacket
<1>2. more \in Nat /\ statesQueued + more <= MaxStates /\ statesQueued \in Nat
  BY RCCAssumption DEF TypeInv, TypeOK
<1>3. IsFiniteSet(states(more))
  <2>1. IsFiniteSet(queuedStates \ gone)
    BY FS_Subset DEF TypeInv
  <2>2. IsFiniteSet(new(more))
    BY <1>2, MoreStates
  <2> QED BY <2>1, <2>2, FS_Union
<1>4. last \in PacketNumbers /\ DOMAIN recvd \subseteq PacketNumbers
  <2>1. q.seq \in PacketNumbers
    BY DEF TypeInv, TypeOK, ClientPackets
  <2> QED BY <2>1, RecvdAfterType DEF TypeInv, TypeOK
<1> HIDE DEF states, recvd, last, called, gone, sent
<1> QED BY <1>1, <1>3, <1>4 DEF recvd, last, sent

(* What HandlePacket does to the commands: the blocks acknowledged are     *)
(* forgotten, everything else that was held still is.                      *)
LEMMA HandlePacketDelivery ==
  ASSUME DeliveryInv, NEW q \in c2s, HandlePacket(q)
  PROVE  /\ NumbersUnique' /\ BlockNumbersSent' /\ BlockContents' /\ HeldOnce'
         /\ Held' = queuedCommands \cup
              UNION {b.cmds : b \in sentCommands \ Acknowledged(sentCommands, q)}
         /\ \A p \in s2c' : p.cmds \subseteq 0 .. serverCommandsSent - 1
         /\ UNCHANGED <<serverCommandsSent, c2s, cliGot>>
<1> DEFINE sent == sentCommands \ Acknowledged(sentCommands, q)
<1>1. PICK states, recvd, last :
        /\ IsFiniteSet(states) /\ DOMAIN recvd \subseteq PacketNumbers
        /\ Flush(FALSE, sent, states, recvd, last)
        /\ UNCHANGED <<serverCommandsSent, c2s, cliGot>>
  BY HandlePacketFlushes DEF DeliveryInv, TypeInv
<1>2. sent \in SUBSET sentCommands
  OBVIOUS
<1> HIDE DEF sent
<1>3. /\ NumbersUnique' /\ BlockNumbersSent' /\ BlockContents' /\ HeldOnce'
      /\ Held' = queuedCommands \cup UNION {b.cmds : b \in sent}
      /\ \A p \in s2c' : p.cmds \subseteq 0 .. serverCommandsSent - 1
  BY <1>1, <1>2, FlushDelivery
<1> QED BY <1>1, <1>3 DEF sent

LEMMA DeliveryInit == Init => DeliveryInv
<1> SUFFICES ASSUME Init PROVE DeliveryInv
  OBVIOUS
<1>1. TypeOK /\ IsFiniteSet(queuedStates) /\ IsFiniteSet(c2s)
  BY TypeInit DEF TypeInv
<1>2. Held = {}
  BY DEF Init, Held
<1> QED BY <1>1, <1>2 DEF Init, DeliveryInv, NumbersUnique, BlockNumbersSent,
      BlockContents, ClientHonest, CommandsIssued, HeldOnce, NothingLost

LEMMA DeliveryStep == DeliveryInv /\ [Next]_vars => DeliveryInv'
<1> SUFFICES ASSUME DeliveryInv, [Next]_vars PROVE DeliveryInv'
  OBVIOUS
<1> USE DEF DeliveryInv
<1>1. TypeOK' /\ IsFiniteSet(queuedStates') /\ IsFiniteSet(c2s')
  BY TypeStep DEF TypeInv
<1>2. CASE QueueCommand
  <2>1. /\ Held' = Held \cup {serverCommandsSent}
        /\ serverCommandsSent \in Nat /\ serverCommandsSent' = serverCommandsSent + 1
    BY <1>2, RCCAssumption DEF QueueCommand, Held, TypeOK
  <2>2. CommandsIssued' /\ NothingLost'
    <3>1. 0 .. serverCommandsSent' - 1
            = (0 .. serverCommandsSent - 1) \cup {serverCommandsSent}
      BY <2>1
    <3> QED BY <1>2, <2>1, <3>1
         DEF QueueCommand, CommandsIssued, NothingLost, CommandsOf
  <2>3. HeldOnce'
    BY <1>2, <2>1 DEF QueueCommand, HeldOnce, CommandsIssued, Held
  <2> QED BY <1>1, <1>2, <2>2, <2>3
       DEF QueueCommand, NumbersUnique, BlockNumbersSent, BlockContents, ClientHonest
<1>3. ASSUME NEW immediateOnly, NEW callBack, QueueState(immediateOnly, callBack)
      PROVE  DeliveryInv'
  BY <1>1, <1>3 DEF QueueState, NumbersUnique, BlockNumbersSent, BlockContents,
     ClientHonest, CommandsIssued, HeldOnce, NothingLost, Held
<1>4. CASE CheckAndResend
  <2>1. /\ NumbersUnique' /\ BlockNumbersSent' /\ BlockContents' /\ HeldOnce'
        /\ Held' = queuedCommands \cup UNION {b.cmds : b \in sentCommands}
        /\ \A p \in s2c' : p.cmds \subseteq 0 .. serverCommandsSent - 1
    BY <1>4, FlushDelivery DEF CheckAndResend, TypeOK
  <2>2. Held' = Held
    BY <2>1 DEF Held
  <2> QED BY <1>1, <1>4, <2>1, <2>2
       DEF CheckAndResend, ClientHonest, CommandsIssued, NothingLost
<1>5. ASSUME NEW q \in c2s, HandlePacket(q)
      PROVE  DeliveryInv'
  <2>1. /\ NumbersUnique' /\ BlockNumbersSent' /\ BlockContents' /\ HeldOnce'
        /\ Held' = queuedCommands \cup
             UNION {b.cmds : b \in sentCommands \ Acknowledged(sentCommands, q)}
        /\ \A p \in s2c' : p.cmds \subseteq 0 .. serverCommandsSent - 1
        /\ UNCHANGED <<serverCommandsSent, c2s, cliGot>>
    BY <1>5, HandlePacketDelivery
  <2>2. Held' \subseteq Held
    BY <2>1 DEF Held
  <2>3. Held \subseteq Held' \cup CommandsOf(cliGot)
    BY <2>1, AcknowledgedReceived DEF Held
  <2>4. CommandsIssued' /\ NothingLost'
    BY <2>1, <2>2, <2>3 DEF CommandsIssued, NothingLost, CommandsOf
  <2> QED BY <1>1, <2>1, <2>4 DEF ClientHonest
<1>6. ASSUME NEW p \in s2c, ClientReceive(p)
      PROVE  DeliveryInv'
  <2>1. SeqsOf(cliGot) \subseteq SeqsOf(cliGot')
    BY <1>6 DEF ClientReceive, SeqsOf
  <2>2. CommandsOf(cliGot) \subseteq CommandsOf(cliGot')
    BY <1>6 DEF ClientReceive, CommandsOf
  <2>3. ClientHonest' /\ NothingLost'
    BY <1>6, <2>1, <2>2 DEF ClientReceive, ClientHonest, NothingLost, Held, server
  <2> QED BY <1>1, <1>6, <2>3 DEF ClientReceive, server, NumbersUnique,
       BlockNumbersSent, BlockContents, CommandsIssued, HeldOnce, Held
<1>7. CASE ClientSend
  <2>1. ClientHonest'
    BY <1>7 DEF ClientSend, ClientHonest, ClientHonestBits
  <2> QED BY <1>1, <1>7, <2>1 DEF ClientSend, server, NumbersUnique,
       BlockNumbersSent, BlockContents, CommandsIssued, HeldOnce, Held, NothingLost
<1>8. CASE UNCHANGED vars
  BY <1>1, <1>8 DEF vars, server, NumbersUnique, BlockNumbersSent, BlockContents,
     ClientHonest, CommandsIssued, HeldOnce, Held, NothingLost
<1> QED BY <1>2, <1>3, <1>4, <1>5, <1>6, <1>7, <1>8 DEF Next

(* The invariant of the proofs holds in every reachable state.             *)
THEOREM DeliveryInvariant == Spec => []DeliveryInv
BY DeliveryInit, DeliveryStep, PTL DEF Spec

(* A guaranteed command is never lost: FlushQueue keeps what the client    *)
(* has not received, whatever AcknowledgePacket is told, by packets        *)
(* delayed, repeated or out of order.                                      *)
THEOREM CommandsNeverLost == Spec => []NothingLost
<1>1. DeliveryInv => NothingLost
  BY DEF DeliveryInv
<1> QED BY <1>1, DeliveryInvariant, PTL

(* A command is never in two blocks of m_sentCommands, nor in a block and  *)
(* in m_queuedCommands.                                                    *)
THEOREM CommandsHeldOnce == Spec => []HeldOnce
<1>1. DeliveryInv => HeldOnce
  BY DEF DeliveryInv
<1> QED BY <1>1, DeliveryInvariant, PTL

-----------------------------------------------------------------------------
(* The channel implements the abstract one.                                *)

LEMMA AbstractInit == Init => Abstract!Init
BY DEF Init, Abstract!Init, Held, CommandsOf

LEMMA AbstractStep == DeliveryInv /\ [Next]_vars => [Abstract!Next]_(Abstract!vars)
<1> SUFFICES ASSUME DeliveryInv, [Next]_vars
             PROVE  [Abstract!Next]_(Abstract!vars)
  OBVIOUS
<1> DEFINE delivered == CommandsOf(cliGot)
           released == (0 .. serverCommandsSent - 1) \ Held
<1>1. CASE QueueCommand
  <2>1. /\ Held' = Held \cup {serverCommandsSent}
        /\ serverCommandsSent \in Nat /\ serverCommandsSent' = serverCommandsSent + 1
    BY <1>1, RCCAssumption DEF QueueCommand, Held, DeliveryInv, TypeOK
  <2>2. released' = released
    BY <2>1 DEF DeliveryInv, CommandsIssued
  <2>3. delivered' = delivered
    BY <1>1 DEF QueueCommand, CommandsOf
  <2> QED BY <2>1, <2>2, <2>3 DEF Abstract!Next, Abstract!Issue
<1>2. ASSUME NEW immediateOnly, NEW callBack, QueueState(immediateOnly, callBack)
      PROVE  UNCHANGED <<serverCommandsSent, delivered, released>>
  BY <1>2 DEF QueueState, Held, CommandsOf
<1>3. CASE CheckAndResend
  <2>1. Held' = queuedCommands \cup UNION {b.cmds : b \in sentCommands}
    BY <1>3, FlushDelivery DEF CheckAndResend, DeliveryInv, TypeOK
  <2>2. UNCHANGED <<serverCommandsSent, delivered, released>>
    BY <1>3, <2>1 DEF CheckAndResend, Held, CommandsOf
  <2> QED BY <2>2 DEF Abstract!vars
<1>4. ASSUME NEW q \in c2s, HandlePacket(q)
      PROVE  Abstract!Release
  <2>1. /\ Held' = queuedCommands \cup
             UNION {b.cmds : b \in sentCommands \ Acknowledged(sentCommands, q)}
        /\ UNCHANGED <<serverCommandsSent, c2s, cliGot>>
    BY <1>4, HandlePacketDelivery
  <2>2. Held' \subseteq Held /\ Held \ Held' \subseteq delivered
    BY <2>1, AcknowledgedReceived DEF Held
  <2>3. released' = released \cup (Held \ Held')
    BY <2>1, <2>2 DEF DeliveryInv, CommandsIssued
  <2>4. delivered' = delivered
    BY <2>1 DEF CommandsOf
  <2> QED BY <2>1, <2>2, <2>3, <2>4 DEF Abstract!Release
<1>5. ASSUME NEW p \in s2c, ClientReceive(p)
      PROVE  Abstract!Deliver
  <2>1. delivered' = delivered \cup p.cmds
    BY <1>5 DEF ClientReceive, CommandsOf
  <2>2. p.cmds \subseteq 0 .. serverCommandsSent - 1
    BY DEF DeliveryInv, CommandsIssued
  <2>3. UNCHANGED <<serverCommandsSent, released>>
    BY <1>5 DEF ClientReceive, server, Held
  <2> QED BY <2>1, <2>2, <2>3 DEF Abstract!Deliver
<1>6. CASE ClientSend
  BY <1>6 DEF ClientSend, server, Abstract!vars, Held, CommandsOf
<1>7. CASE UNCHANGED vars
  BY <1>7 DEF vars, server, Abstract!vars, Held, CommandsOf
<1> QED BY <1>1, <1>2, <1>3, <1>4, <1>5, <1>6, <1>7 DEF Next, Abstract!Next, Abstract!vars

(* The guaranteed half of the channel does what the world logic expects of *)
(* it: QueueCommand issues, the client's packets deliver, and              *)
(* AcknowledgePacket forgets only what was delivered.                      *)
THEOREM Refinement == Spec => ImplementsReliableCommands
BY AbstractInit, AbstractStep, DeliveryInvariant, PTL
   DEF Spec, ImplementsReliableCommands, Abstract!Spec

-----------------------------------------------------------------------------
(* Commands of the client.                                                 *)

(* A command that was handled has left its id behind.                      *)
HandledInv ==
  /\ executed \in [ClientCommands -> Nat]
  /\ \A c \in ClientCommands : executed[c] >= 1 => c % CmdMod \in clientCommandsReceived
  /\ HandledAtMostOnce

LEMMA HandledStep == TypeOK /\ HandledInv /\ [Next]_vars => HandledInv'
<1> SUFFICES ASSUME TypeOK, HandledInv, [Next]_vars PROVE HandledInv'
  OBVIOUS
<1>1. ASSUME NEW q \in c2s, HandlePacket(q)
      PROVE  HandledInv'
  <2>1. /\ executed' = [c \in ClientCommands |->
                          executed[c] + (IF c \in NewCommands(q) THEN 1 ELSE 0)]
        /\ clientCommandsReceived' =
             clientCommandsReceived \cup {c % CmdMod : c \in q.cmds}
    BY <1>1, Zenon DEF HandlePacket
  <2>2. ASSUME NEW c \in ClientCommands
        PROVE  /\ executed'[c] \in Nat
               /\ executed'[c] >= 1 => c % CmdMod \in clientCommandsReceived'
               /\ executed'[c] <= 1
    <3>1. CASE c \in NewCommands(q)
      <4>1. executed[c] = 0
        BY <3>1 DEF NewCommands, HandledInv
      <4>2. executed'[c] = 1
        BY <2>1, <3>1, <4>1
      <4>3. c \in q.cmds
        BY <3>1 DEF NewCommands
      <4> QED BY <2>1, <4>2, <4>3
    <3>2. CASE c \notin NewCommands(q)
      <4>1. executed'[c] = executed[c]
        BY <2>1, <3>2 DEF HandledInv
      <4> QED BY <2>1, <4>1 DEF HandledInv, HandledAtMostOnce
    <3> QED BY <3>1, <3>2
  <2>3. DOMAIN executed' = ClientCommands /\ executed' = [c \in DOMAIN executed' |-> executed'[c]]
    BY <2>1
  <2> QED BY <2>2, <2>3 DEF HandledInv, HandledAtMostOnce
<1>2. ASSUME UNCHANGED <<executed, clientCommandsReceived>>
      PROVE  HandledInv'
  BY <1>2 DEF HandledInv, HandledAtMostOnce
<1> QED BY <1>1, <1>2 DEF Next, QueueCommand, QueueState, CheckAndResend,
      ClientReceive, ClientSend, vars, server

(* No command of the client is handled twice, however often the client     *)
(* repeats it and the network delivers it.                                 *)
THEOREM ClientCommandsHandledOnce == Spec => []HandledAtMostOnce
<1>1. Init => HandledInv
  BY DEF Init, HandledInv, HandledAtMostOnce
<1>2. HandledInv => HandledAtMostOnce
  BY DEF HandledInv
<1> QED BY <1>1, <1>2, HandledStep, TypeCorrect, PTL DEF Spec

-----------------------------------------------------------------------------
(* The callBacks of state updates.                                         *)

(* An entry knows only packets that carry its update.                      *)
Carried(entries, packets) ==
  \A st \in entries :
    /\ st.packetsItsIn \subseteq SeqsOf(packets)
    /\ \A p \in packets : p.seq \in st.packetsItsIn => st.id \in p.states

(* No two entries are about the same update.                               *)
OwnIds(entries) == \A x, y \in entries : x.id = y.id => x = y

(* No entry is about an update that was not held.                          *)
Remain(entries, states) == \A st \in entries : \E x \in states : x.id = st.id

(* An update that is still queued has not been called back.                *)
EntryInv ==
  /\ Carried(queuedStates, s2c)
  /\ OwnIds(queuedStates)
  /\ \A st \in queuedStates : st.id < statesQueued /\ callbacks[st.id] = 0
  /\ \A s \in States : s >= statesQueued => callbacks[s] = 0
  /\ CallbackAfterReceipt

LEMMA TransmitEntries ==
  ASSUME DeliveryInv, NEW sent, NEW recvd, NEW ack, NEW f,
         NEW states \in SUBSET StateEntries, Carried(states, s2c), OwnIds(states),
         NEW due \in SUBSET states, NEW sending \in SUBSET due,
         NEW count \in 0 .. SeqMod, NEW n \in 0 .. count, NEW m \in 0 .. count,
         NEW g \in StateSlots(sending, n, m),
         Transmit(sent, states, due, recvd, f, g, ack, count)
  PROVE  /\ Carried(queuedStates', s2c') /\ OwnIds(queuedStates')
         /\ Remain(queuedStates', states)
<1> DEFINE packet(j) ==
        [seq |-> NumberOf(j), ack |-> ack[j],
         bits |-> GetAckBits(recvd, ack[j], AckWindow),
         cmds |-> {k \in DOMAIN f : f[k] = j},
         states |-> {st.id : st \in {x \in DOMAIN g : g[x] = j}}]
           again(x) == SentIn(x, {NumberOf(g[x])})
           resent == {x \in DOMAIN g : ~x.noResend}
<1>1. /\ s2c' = s2c \cup {packet(j) : j \in 1 .. count}
      /\ queuedStates' = (states \ due) \cup {again(x) : x \in resent}
      /\ \A j \in 1 .. count : NumberOf(j) \notin SeqsOf(s2c)
  BY DEF Transmit, FreshNumbers
<1>2. /\ \A j \in 1 .. count : NumberOf(j) \in PacketNumbers
      /\ \A i, j \in 1 .. count : NumberOf(i) = NumberOf(j) => i = j
  BY NumberOfType DEF DeliveryInv
<1>3. \A j : /\ packet(j).seq = NumberOf(j)
             /\ packet(j).states = {st.id : st \in {x \in DOMAIN g : g[x] = j}}
  OBVIOUS
<1>4. /\ DOMAIN g = sending /\ resent \subseteq sending
      /\ \A x \in sending : g[x] \in 1 .. count
  BY DEF StateSlots
<1>5. \A x \in sending : /\ x \in states /\ x \in due
                         /\ again(x).id = x.id
                         /\ again(x).packetsItsIn = x.packetsItsIn \cup {NumberOf(g[x])}
  BY DEF SentIn, StateEntries
<1> HIDE DEF packet, again, resent
<1>6. SeqsOf(s2c) \subseteq SeqsOf(s2c') /\ \A j \in 1 .. count : NumberOf(j) \in SeqsOf(s2c')
  BY <1>1, <1>3 DEF SeqsOf
<1>7. ASSUME NEW x \in states, NEW p \in s2c', p.seq \in x.packetsItsIn
      PROVE  x.id \in p.states
  <2>1. p.seq \in SeqsOf(s2c) BY <1>7 DEF Carried
  <2>2. p \in s2c BY <1>1, <1>3, <2>1
  <2> QED BY <1>7, <2>2 DEF Carried
<1>8. ASSUME NEW x \in sending, NEW p \in s2c', p.seq = NumberOf(g[x])
      PROVE  x.id \in p.states
  <2>1. p = packet(g[x])
    <3>1. p \notin s2c BY <1>1, <1>4, <1>8 DEF SeqsOf
    <3>2. PICK j \in 1 .. count : p = packet(j) BY <1>1, <3>1
    <3>3. j = g[x] BY <1>2, <1>3, <1>4, <1>8, <3>2
    <3> QED BY <3>2, <3>3
  <2>2. x \in {y \in DOMAIN g : g[y] = g[x]} BY <1>4
  <2> QED BY <1>3, <2>1, <2>2
<1>9. Carried(queuedStates', s2c')
  <2>1. ASSUME NEW st \in states
        PROVE  /\ st.packetsItsIn \subseteq SeqsOf(s2c')
               /\ \A p \in s2c' : p.seq \in st.packetsItsIn => st.id \in p.states
    BY <1>6, <1>7 DEF Carried
  <2>2. ASSUME NEW x \in resent
        PROVE  /\ again(x).packetsItsIn \subseteq SeqsOf(s2c')
               /\ \A p \in s2c' : p.seq \in again(x).packetsItsIn => again(x).id \in p.states
    <3>1. x \in sending /\ x \in states BY <1>4, <1>5
    <3>2. again(x).packetsItsIn \subseteq SeqsOf(s2c')
      BY <1>4, <1>5, <1>6, <2>1, <3>1
    <3>3. ASSUME NEW p \in s2c', p.seq \in again(x).packetsItsIn
          PROVE  again(x).id \in p.states
      BY <1>5, <1>7, <1>8, <3>1, <3>3
    <3> QED BY <3>2, <3>3
  <2>3. ASSUME NEW st \in queuedStates'
        PROVE  /\ st.packetsItsIn \subseteq SeqsOf(s2c')
               /\ \A p \in s2c' : p.seq \in st.packetsItsIn => st.id \in p.states
    BY <1>1, <2>1, <2>2
  <2> QED BY <2>3 DEF Carried
<1>10. \A st \in queuedStates' :
         \/ st \in states \ due
         \/ \E x \in sending : st = again(x) /\ st.id = x.id
  BY <1>1, <1>4, <1>5
<1>11. OwnIds(queuedStates')
  <2> SUFFICES ASSUME NEW st \in queuedStates', NEW su \in queuedStates', st.id = su.id
               PROVE  st = su
    BY DEF OwnIds
  <2>1. CASE st \in states \ due /\ su \in states \ due
    BY <2>1 DEF OwnIds
  <2>2. ASSUME NEW x \in sending, x.id = st.id, st = again(x), su \in states \ due
        PROVE  FALSE
    <3>1. x = su BY <1>5, <2>2 DEF OwnIds
    <3> QED BY <1>5, <2>2, <3>1
  <2>3. ASSUME NEW x \in sending, x.id = su.id, su = again(x), st \in states \ due
        PROVE  FALSE
    <3>1. x = st BY <1>5, <2>3 DEF OwnIds
    <3> QED BY <1>5, <2>3, <3>1
  <2>4. ASSUME NEW x \in sending, NEW y \in sending,
               x.id = st.id, st = again(x), y.id = su.id, su = again(y)
        PROVE  st = su
    <3>1. x = y BY <1>5, <2>4 DEF OwnIds
    <3> QED BY <2>4, <3>1
  <2> QED BY <1>10, <2>1, <2>2, <2>3, <2>4
<1>12. Remain(queuedStates', states)
  BY <1>5, <1>10 DEF Remain
<1> QED BY <1>9, <1>11, <1>12

LEMMA FlushEntries ==
  ASSUME DeliveryInv, NEW alsoResend, NEW sent, NEW recvd, NEW last,
         DOMAIN recvd \subseteq PacketNumbers,
         NEW states \in SUBSET StateEntries, IsFiniteSet(states),
         Carried(states, s2c), OwnIds(states),
         Flush(alsoResend, sent, states, recvd, last)
  PROVE  /\ Carried(queuedStates', s2c') /\ OwnIds(queuedStates')
         /\ Remain(queuedStates', states)
<1>1. PICK blocks, due, sending, n, m, count, f, g, ack :
        Sends(alsoResend, sent, states, recvd, last,
              blocks, due, sending, n, m, count, f, g, ack)
  BY FlushSends
<1> QED BY <1>1, TransmitEntries DEF Sends

(* AcknowledgePacket drops an entry only when the client has its update.   *)
LEMMA AcknowledgedUpdate ==
  ASSUME DeliveryInv, Carried(queuedStates, s2c),
         NEW q \in c2s, NEW st \in Acknowledged(queuedStates, q)
  PROVE  st \in queuedStates /\ \E p \in cliGot : st.id \in p.states
<1>1. st \in queuedStates /\ q \in ClientPackets
  BY DEF Acknowledged, DeliveryInv, TypeOK
<1>2. PICK i \in q.bits : Uint16(q.ack - i) \in st.packetsItsIn
  BY DEF Acknowledged, AckSequences
<1> DEFINE s == Uint16(q.ack - i)
<1>3. i \in 0 .. AckWindow - 1 /\ q.ack \in PacketNumbers /\ s \in PacketNumbers
  BY <1>1, <1>2 DEF ClientPackets, DeliveryInv, TypeOK, StateEntries
<1>4. s = SequenceBefore(q.ack, i, SeqMod)
  BY <1>3, AckedIsMeant
<1>5. s \in SeqsOf(cliGot)
  BY <1>3, <1>4 DEF DeliveryInv, ClientHonest
<1>6. PICK p \in cliGot : p.seq = s
  BY <1>5 DEF SeqsOf
<1>7. p \in s2c
  BY DEF DeliveryInv, TypeOK
<1> QED BY <1>1, <1>2, <1>6, <1>7 DEF Carried

(* New updates are not in any packet.                                      *)
LEMMA QueuedEntry ==
  ASSUME NEW id, NEW immediateOnly, NEW callBack
  PROVE  /\ QueuedState(id, immediateOnly, callBack).id = id
         /\ QueuedState(id, immediateOnly, callBack).packetsItsIn = {}
BY DEF QueuedState

(* HandlePacket calls back the entries it drops, each once.                *)
LEMMA HandlePacketEntries ==
  ASSUME DeliveryInv, EntryInv, NEW q \in c2s, HandlePacket(q)
  PROVE  EntryInv'
<1> DEFINE gone == Acknowledged(queuedStates, q)
           called == {st \in gone : st.callBack}
           last == LastAfter(lastClientSequence, q.seq, SeqMod)
           recvd == RecvdAfter(recvdPacketSeqs, lastClientSequence, q.seq, SeqMod)
           sent == sentCommands \ Acknowledged(sentCommands, q)
           new(more) ==
             {QueuedState(statesQueued + i, FALSE, FALSE) : i \in 0 .. more - 1}
           states(more) == (queuedStates \ gone) \cup new(more)
           Of(s) == {st \in called : st.id = s}
<1>1. PICK more \in 0 .. (IF called = {} THEN 0 ELSE MaxStates - statesQueued) :
        /\ callbacks' = [s \in States |-> callbacks[s] + Cardinality(Of(s))]
        /\ statesQueued' = statesQueued + more
        /\ Flush(FALSE, sent, states(more), recvd, last)
        /\ UNCHANGED <<serverCommandsSent, c2s, cliGot>>
  BY Zenon DEF HandlePacket
<1>2. more \in Nat /\ statesQueued + more <= MaxStates /\ statesQueued \in Nat
  BY RCCAssumption DEF DeliveryInv, TypeOK
<1>3. /\ queuedStates \subseteq StateEntries /\ callbacks \in [States -> Nat]
      /\ gone \subseteq queuedStates
  BY DEF DeliveryInv, TypeOK, Acknowledged
<1>4. states(more) \in SUBSET StateEntries /\ IsFiniteSet(states(more))
  <2>1. IsFiniteSet(queuedStates \ gone)
    BY FS_Subset DEF DeliveryInv
  <2>2. new(more) \subseteq StateEntries /\ IsFiniteSet(new(more))
    BY <1>2, MoreStates
  <2> QED BY <1>3, <2>1, <2>2, FS_Union
<1>5. DOMAIN recvd \subseteq PacketNumbers
  <2>1. q.seq \in PacketNumbers
    BY DEF DeliveryInv, TypeOK, ClientPackets
  <2> QED BY <2>1 DEF RecvdAfter, DeliveryInv, TypeOK
<1>6. \A st \in new(more) : /\ st.id \in Nat /\ st.id >= statesQueued
                            /\ st.id < statesQueued + more /\ st.packetsItsIn = {}
  <2> TAKE st \in new(more)
  <2>1. PICK i \in 0 .. more - 1 : st = QueuedState(statesQueued + i, FALSE, FALSE)
    OBVIOUS
  <2>2. st.id = statesQueued + i /\ st.packetsItsIn = {}
    BY <2>1, QueuedEntry
  <2> QED BY <1>2, <2>2
<1>7. \A st, su \in new(more) : st.id = su.id => st = su
  <2> TAKE st, su \in new(more)
  <2>1. PICK i \in 0 .. more - 1 : st = QueuedState(statesQueued + i, FALSE, FALSE)
    OBVIOUS
  <2>2. PICK j \in 0 .. more - 1 : su = QueuedState(statesQueued + j, FALSE, FALSE)
    OBVIOUS
  <2>3. st.id = statesQueued + i /\ su.id = statesQueued + j
    BY <2>1, <2>2, QueuedEntry
  <2>4. ASSUME st.id = su.id PROVE i = j
    BY <1>2, <2>3, <2>4
  <2> QED BY <2>1, <2>2, <2>4
<1>8. \A st \in queuedStates : st.id \in States /\ st.id < statesQueued /\ callbacks[st.id] = 0
  BY <1>3 DEF EntryInv, StateEntries
<1> HIDE DEF new, gone, recvd, last, sent
<1>9. Carried(states(more), s2c)
  BY <1>6 DEF EntryInv, Carried
<1>10. OwnIds(states(more))
  <2> SUFFICES ASSUME NEW st \in states(more), NEW su \in states(more), st.id = su.id
               PROVE  st = su
    BY DEF OwnIds
  <2>1. CASE st \in queuedStates /\ su \in queuedStates
    BY <2>1 DEF EntryInv, OwnIds
  <2>2. CASE st \in new(more) /\ su \in new(more)
    BY <1>7, <2>2
  <2>3. st \in queuedStates => su \notin new(more)
    BY <1>2, <1>6, <1>8 DEF States
  <2>4. su \in queuedStates => st \notin new(more)
    BY <1>2, <1>6, <1>8 DEF States
  <2> QED BY <2>1, <2>2, <2>3, <2>4
<1>11. /\ Carried(queuedStates', s2c') /\ OwnIds(queuedStates')
       /\ Remain(queuedStates', states(more))
  <2> HIDE DEF states
  <2>1. Flush(FALSE, sent, states(more), recvd, last)
    BY <1>1
  <2> QED BY <1>4, <1>5, <1>9, <1>10, <2>1, FlushEntries
<1>12. ASSUME NEW s \in States
       PROVE  \/ Of(s) = {} /\ callbacks'[s] = callbacks[s]
              \/ /\ callbacks[s] = 0 /\ callbacks'[s] = 1
                 /\ \E p \in cliGot : s \in p.states
                 /\ s < statesQueued
                 /\ \A x \in states(more) : x.id # s
  <2>1. CASE Of(s) = {}
    <3>1. Cardinality(Of(s)) = 0 BY <2>1, FS_EmptySet
    <3> QED BY <1>1, <1>3, <2>1, <3>1
  <2>2. CASE Of(s) # {}
    <3>1. PICK st \in gone : st \in Of(s) /\ st.id = s BY <2>2
    <3>2. Of(s) = {st} BY <1>3, <3>1 DEF EntryInv, OwnIds
    <3>3. Cardinality(Of(s)) = 1 BY <3>2, FS_Singleton
    <3>4. callbacks[s] = 0 /\ s < statesQueued BY <1>3, <1>8, <3>1
    <3>5. callbacks'[s] = 1 BY <1>1, <3>3, <3>4
    <3>6. \E p \in cliGot : s \in p.states
      BY <3>1, AcknowledgedUpdate DEF EntryInv, gone
    <3>7. ASSUME NEW x \in states(more), x.id = s PROVE FALSE
      <4>1. x \notin new(more) BY <1>2, <1>6, <3>4, <3>7 DEF States
      <4>2. x = st BY <1>3, <3>1, <3>7, <4>1 DEF EntryInv, OwnIds
      <4> QED BY <3>1, <4>1, <4>2
    <3> QED BY <3>4, <3>5, <3>6, <3>7
  <2> QED BY <2>1, <2>2
<1>13. \A st \in queuedStates' : st.id < statesQueued' /\ callbacks'[st.id] = 0
  <2> SUFFICES ASSUME NEW st \in queuedStates'
               PROVE  st.id < statesQueued' /\ callbacks'[st.id] = 0
    OBVIOUS
  <2>1. PICK x \in states(more) : x.id = st.id BY <1>11 DEF Remain
  <2>2. x.id \in States BY <1>4 DEF StateEntries
  <2>3. callbacks'[x.id] = callbacks[x.id] BY <1>12, <2>2
  <2>4. CASE x \in queuedStates
    BY <1>1, <1>2, <1>8, <2>1, <2>2, <2>3, <2>4 DEF States
  <2>5. CASE x \in new(more)
    BY <1>1, <1>2, <1>6, <2>1, <2>2, <2>3, <2>5 DEF EntryInv
  <2> QED BY <2>4, <2>5
<1>14. \A s \in States : s >= statesQueued' => callbacks'[s] = 0
  BY <1>1, <1>2, <1>12 DEF EntryInv, States
<1>15. CallbackAfterReceipt'
  <2>1. \A s \in States : /\ callbacks'[s] <= 1
                          /\ callbacks'[s] = 1 => \E p \in cliGot : s \in p.states
    BY <1>12 DEF EntryInv, CallbackAfterReceipt
  <2> QED BY <1>1, <2>1 DEF CallbackAfterReceipt
<1> QED BY <1>11, <1>13, <1>14, <1>15 DEF EntryInv

LEMMA EntryStep == DeliveryInv /\ EntryInv /\ [Next]_vars => EntryInv'
<1> SUFFICES ASSUME DeliveryInv, EntryInv, [Next]_vars PROVE EntryInv'
  OBVIOUS
<1>1. /\ queuedStates \subseteq StateEntries /\ IsFiniteSet(queuedStates)
      /\ callbacks \in [States -> Nat] /\ statesQueued \in Nat
      /\ DOMAIN recvdPacketSeqs \subseteq PacketNumbers
  BY RCCAssumption DEF DeliveryInv, TypeOK
<1>2. ASSUME NEW immediateOnly, NEW callBack, QueueState(immediateOnly, callBack)
      PROVE  EntryInv'
  <2> DEFINE new == QueuedState(statesQueued, immediateOnly, callBack)
  <2>1. new.id = statesQueued /\ new.packetsItsIn = {} BY QueuedEntry
  <2> HIDE DEF new
  <2>2. /\ queuedStates' = queuedStates \cup {new} /\ statesQueued' = statesQueued + 1
        /\ statesQueued \in States
        /\ UNCHANGED <<callbacks, s2c, cliGot>>
    BY <1>1, <1>2, RCCAssumption DEF QueueState, States, new
  <2>3. \A st \in queuedStates : st.id \in States /\ st.id < statesQueued
    BY <1>1 DEF EntryInv, StateEntries
  <2>4. Carried(queuedStates', s2c')
    BY <2>1, <2>2 DEF EntryInv, Carried
  <2>5. OwnIds(queuedStates')
    BY <1>1, <2>1, <2>2, <2>3 DEF EntryInv, OwnIds, States
  <2>6. \A st \in queuedStates' : st.id < statesQueued' /\ callbacks'[st.id] = 0
    BY <1>1, <2>1, <2>2, <2>3 DEF EntryInv, States
  <2>7. \A s \in States : s >= statesQueued' => callbacks'[s] = 0
    BY <1>1, <2>2 DEF EntryInv, States
  <2> QED BY <2>2, <2>4, <2>5, <2>6, <2>7 DEF EntryInv, CallbackAfterReceipt
<1>3. CASE CheckAndResend
  <2>1. /\ Flush(TRUE, sentCommands, queuedStates, recvdPacketSeqs, lastClientSequence)
        /\ UNCHANGED <<statesQueued, callbacks, cliGot>>
    BY <1>3 DEF CheckAndResend
  <2>2. /\ Carried(queuedStates', s2c') /\ OwnIds(queuedStates')
        /\ Remain(queuedStates', queuedStates)
    <3>1. Carried(queuedStates, s2c) /\ OwnIds(queuedStates) BY DEF EntryInv
    <3>2. queuedStates \in SUBSET StateEntries BY <1>1
    <3>3. Flush(TRUE, sentCommands, queuedStates, recvdPacketSeqs, lastClientSequence)
      BY <2>1
    <3> QED BY <1>1, <3>1, <3>2, <3>3, FlushEntries
  <2> QED BY <2>1, <2>2 DEF EntryInv, Remain, CallbackAfterReceipt
<1>4. ASSUME NEW q \in c2s, HandlePacket(q) PROVE EntryInv'
  BY <1>4, HandlePacketEntries
<1>5. ASSUME NEW p \in s2c, ClientReceive(p) PROVE EntryInv'
  BY <1>5 DEF ClientReceive, server, EntryInv, Carried, CallbackAfterReceipt
<1>6. CASE UNCHANGED <<queuedStates, statesQueued, callbacks, s2c, cliGot>>
  BY <1>6 DEF EntryInv, Carried, CallbackAfterReceipt
<1> QED BY <1>2, <1>3, <1>4, <1>5, <1>6 DEF Next, QueueCommand, ClientSend, vars, server

(* PopulateWorld and the other callBacks run at most once, and only for an *)
(* update that the client has received, however its packet was repeated,   *)
(* delayed or acknowledged.                                                *)
THEOREM CallbacksAfterReceipt == Spec => []CallbackAfterReceipt
<1>1. Init => EntryInv
  BY DEF Init, EntryInv, Carried, OwnIds, CallbackAfterReceipt
<1>2. EntryInv => CallbackAfterReceipt
  BY DEF EntryInv
<1> QED BY <1>1, <1>2, EntryStep, DeliveryInvariant, PTL DEF Spec

-----------------------------------------------------------------------------
(* The order of guaranteed commands.                                       *)

(* What is known of the packet in place j of a flush.                      *)
InPlace(p, j, recvd, f, ack) ==
  /\ p.seq = NumberOf(j) /\ p.ack = ack[j]
  /\ p.bits = GetAckBits(recvd, ack[j], AckWindow)
  /\ p.cmds = {k \in DOMAIN f : f[k] = j}

LEMMA NewPackets ==
  ASSUME NEW sent, NEW states, NEW due, NEW recvd, NEW f, NEW g, NEW ack,
         NEW count, Transmit(sent, states, due, recvd, f, g, ack, count)
  PROVE  /\ \A p \in s2c' \ s2c : \E j \in 1 .. count : InPlace(p, j, recvd, f, ack)
         /\ \A j \in 1 .. count : \E p \in s2c' \ s2c : InPlace(p, j, recvd, f, ack)
<1> DEFINE packet(j) ==
        [seq |-> NumberOf(j), ack |-> ack[j],
         bits |-> GetAckBits(recvd, ack[j], AckWindow),
         cmds |-> {k \in DOMAIN f : f[k] = j},
         states |-> {st.id : st \in {x \in DOMAIN g : g[x] = j}}]
<1>1. /\ s2c' = s2c \cup {packet(j) : j \in 1 .. count}
      /\ \A j \in 1 .. count : NumberOf(j) \notin SeqsOf(s2c)
  BY DEF Transmit, FreshNumbers
<1>2. \A j : InPlace(packet(j), j, recvd, f, ack)
  BY DEF InPlace
<1>3. \A j : packet(j).seq = NumberOf(j)
  OBVIOUS
<1> HIDE DEF packet
<1>4. \A j \in 1 .. count : packet(j) \notin s2c
  BY <1>1, <1>3 DEF SeqsOf
<1> QED BY <1>1, <1>2, <1>4

(* A packet's number tells its place in the flush.                         *)
LEMMA PlaceOfPacket ==
  ASSUME TypeOK, NEW count \in 0 .. SeqMod, NEW j \in 1 .. count,
         NEW p, p.seq = NumberOf(j)
  PROVE  PlaceInFlush(p) = j - 1
<1>1. serverSequence \in PacketNumbers /\ j - 1 \in 0 .. SeqMod - 1
  BY RCCAssumption DEF TypeOK
<1>2. \A i \in 0 .. SeqMod - 1 : SequenceAfter(serverSequence, i, SeqMod) = p.seq => i = j - 1
  BY <1>1, AfterInjective DEF NumberOf
<1> QED BY <1>1, <1>2 DEF PlaceInFlush, NumberOf

(* Blocks are never empty, and a block holds commands queued before those  *)
(* that wait.                                                              *)
BlocksAreOlder ==
  \A b \in sentCommands : b.cmds # {} /\ \A k \in b.cmds, l \in queuedCommands : k < l

(* What a flush does to the blocks: each kept one still has its commands,  *)
(* the new ones take theirs from the queue.                                *)
LEMMA BlocksAfter ==
  ASSUME DeliveryInv, NEW sent \in SUBSET sentCommands,
         NEW states, NEW due, NEW recvd, NEW f, NEW g, NEW ack, NEW count,
         Transmit(sent, states, due, recvd, f, g, ack, count)
  PROVE  /\ queuedCommands' = {}
         /\ \A c \in sentCommands' :
              \/ \E b \in sent : c.cmds = b.cmds
              \/ c.cmds # {} /\ c.cmds \subseteq queuedCommands
<1> DEFINE again(b) == SentIn(b, {NumberOf(f[k]) : k \in b.cmds \cap DOMAIN f})
           new(j) == [cmds |-> NewBlock(f, j), packetsItsIn |-> {NumberOf(j)}]
<1>1. /\ queuedCommands' = {}
      /\ sentCommands' = {again(b) : b \in sent} \cup {new(j) : j \in {f[k] : k \in queuedCommands}}
  BY DEF Transmit
<1>2. \A b \in sent : again(b).cmds = b.cmds
  <2> SUFFICES ASSUME NEW b \in sent, NEW N PROVE SentIn(b, N).cmds = b.cmds
    OBVIOUS
  <2>1. b \in Blocks
    BY DEF DeliveryInv, TypeOK
  <2> QED BY <2>1 DEF SentIn, Blocks
<1>3. \A k \in queuedCommands : new(f[k]).cmds # {} /\ new(f[k]).cmds \subseteq queuedCommands
  BY DEF NewBlock
<1> HIDE DEF again, new
<1> QED BY <1>1, <1>2, <1>3

LEMMA FlushInOrder ==
  ASSUME DeliveryInv, BlocksAreOlder, NEW alsoResend,
         NEW sent \in SUBSET sentCommands, NEW states, IsFiniteSet(states),
         NEW recvd, DOMAIN recvd \subseteq PacketNumbers, NEW last,
         Flush(alsoResend, sent, states, recvd, last)
  PROVE  BlocksAreOlder' /\ OldBeforeNew
<1>1. PICK blocks, due, sending, n, m, count, f, g, ack :
        Sends(alsoResend, sent, states, recvd, last,
              blocks, due, sending, n, m, count, f, g, ack)
  BY FlushSends
<1>2. /\ blocks \in DueBlocks(alsoResend, sent) /\ blocks \subseteq sent
      /\ count \in 0 .. SeqMod /\ n \in 0 .. count /\ f \in Packings(blocks, n)
      /\ Transmit(sent, states, due, recvd, f, g, ack, count)
  BY <1>1 DEF Sends
<1>3. /\ queuedCommands' = {}
      /\ \A c \in sentCommands' :
              \/ \E b \in sent : c.cmds = b.cmds
              \/ c.cmds # {} /\ c.cmds \subseteq queuedCommands
  BY <1>2, BlocksAfter
<1>4. BlocksAreOlder'
  BY <1>3 DEF BlocksAreOlder
<1>5. ASSUME NEW p \in s2c' \ s2c, NEW k \in p.cmds \cap queuedCommands,
             NEW b \in sentCommands, NEW kept \in sentCommands', kept.cmds = b.cmds
      PROVE  \E earlier \in s2c' \ s2c :
               /\ b.cmds \subseteq earlier.cmds
               /\ PlaceInFlush(earlier) <= PlaceInFlush(p)
  <2>1. blocks = sent
    BY <1>2, <1>5 DEF DueBlocks
  <2>2. b \in blocks
    <3>1. b.cmds # {} /\ b.cmds \cap queuedCommands = {}
      BY DEF BlocksAreOlder, DeliveryInv, HeldOnce
    <3>2. PICK c \in sent : kept.cmds = c.cmds
      BY <1>3, <1>5, <3>1
    <3>3. b = c
      BY <1>5, <3>1, <3>2 DEF DeliveryInv, HeldOnce
    <3> QED BY <2>1, <3>2, <3>3
  <2>3. PICK l \in b.cmds : l < k
    BY DEF BlocksAreOlder
  <2>4. /\ DOMAIN f = queuedCommands \cup UNION {c.cmds : c \in blocks}
        /\ \A x \in DOMAIN f : f[x] \in 1 .. count
        /\ \A x, y \in DOMAIN f : x < y => f[x] <= f[y]
        /\ \A c \in blocks : \A x, y \in c.cmds : f[x] = f[y]
    BY <1>2 DEF Packings, Outgoing
  <2>5. k \in DOMAIN f /\ b.cmds \subseteq DOMAIN f
    BY <2>2, <2>4
  <2>6. PICK j \in 1 .. count : InPlace(p, j, recvd, f, ack)
    BY <1>2, NewPackets
  <2>7. f[k] = j
    BY <2>6 DEF InPlace
  <2>8. f[l] \in 1 .. count /\ f[l] <= j
    BY <2>3, <2>4, <2>5, <2>7
  <2>9. PICK earlier \in s2c' \ s2c : InPlace(earlier, f[l], recvd, f, ack)
    BY <1>2, <2>8, NewPackets
  <2>10. b.cmds \subseteq earlier.cmds
    BY <2>2, <2>4, <2>5, <2>9 DEF InPlace
  <2>11. PlaceInFlush(earlier) = f[l] - 1 /\ PlaceInFlush(p) = j - 1
    BY <1>2, <2>6, <2>8, <2>9, PlaceOfPacket DEF InPlace, DeliveryInv
  <2> QED BY <2>8, <2>10, <2>11
<1>6. OldBeforeNew
  BY <1>5 DEF OldBeforeNew
<1> QED BY <1>4, <1>6

LEMMA OrderStep ==
  DeliveryInv /\ BlocksAreOlder /\ [Next]_vars => BlocksAreOlder' /\ [OldBeforeNew]_vars
<1> SUFFICES ASSUME DeliveryInv, BlocksAreOlder, [Next]_vars
             PROVE  BlocksAreOlder' /\ [OldBeforeNew]_vars
  OBVIOUS
<1>1. CASE QueueCommand
  <2>1. /\ queuedCommands' = queuedCommands \cup {serverCommandsSent}
        /\ UNCHANGED <<sentCommands, s2c>>
    BY <1>1 DEF QueueCommand
  <2>2. \A b \in sentCommands : \A k \in b.cmds : k < serverCommandsSent
    BY RCCAssumption DEF DeliveryInv, TypeOK, CommandsIssued, Held
  <2> QED BY <2>1, <2>2 DEF BlocksAreOlder, OldBeforeNew
<1>2. CASE CheckAndResend
  BY <1>2, FlushInOrder DEF CheckAndResend, DeliveryInv, TypeOK
<1>3. ASSUME NEW q \in c2s, HandlePacket(q)
      PROVE  BlocksAreOlder' /\ OldBeforeNew
  <2>1. PICK states, recvd, last :
          /\ IsFiniteSet(states) /\ DOMAIN recvd \subseteq PacketNumbers
          /\ Flush(FALSE, sentCommands \ Acknowledged(sentCommands, q), states, recvd, last)
    BY <1>3, HandlePacketFlushes DEF DeliveryInv, TypeInv
  <2> QED BY <2>1, FlushInOrder
<1>4. CASE UNCHANGED <<queuedCommands, sentCommands, s2c>>
  BY <1>4 DEF BlocksAreOlder, OldBeforeNew
<1> QED BY <1>1, <1>2, <1>3, <1>4
     DEF Next, QueueState, ClientReceive, ClientSend, vars, server

(* "always resend previous guaranteed msgs before sending new ones": no    *)
(* packet of FlushQueue carries a command for the first time unless every  *)
(* block still unacknowledged went out before it, or with it.              *)
THEOREM OlderBlocksFirst == Spec => ResendBeforeNew
<1>1. Init => BlocksAreOlder
  BY DEF Init, BlocksAreOlder
<1> QED BY <1>1, OrderStep, DeliveryInvariant, PTL DEF Spec, ResendBeforeNew

-----------------------------------------------------------------------------
(* What the server acknowledges has been handled.                          *)

(* The numbers of the client packets that HandlePacket is done with, as    *)
(* far as their commands go.                                               *)
Settled ==
  {s \in SeqsOf(c2s) :
     \A q \in c2s : q.seq = s => \A c \in q.cmds : executed[c] >= 1}

(* The last numbers before the observation starts.  A server packet may    *)
(* still acknowledge them; the client uses none of them again within       *)
(* SeqMod - AckWindow packets.                                             *)
Earlier == {s \in 1 .. StartClientSequence : StartClientSequence - s < AckWindow}

(* The keys of m_recvdPacketSeqs: those in S, and, as long as the number   *)
(* has not wrapped around, those of the packets received before the        *)
(* observation, which are all acknowledged already.                        *)
KeysFrom(recvd, last, S) ==
  /\ last \in DOMAIN recvd \cup {0}
  /\ \/ DOMAIN recvd \subseteq S
     \/ /\ last >= StartClientSequence
        /\ DOMAIN recvd \subseteq S \cup 1 .. StartClientSequence
        /\ 1 .. StartClientSequence \subseteq DOMAIN recvd
        /\ \A s \in 1 .. StartClientSequence : recvd[s]

(* The client's packets are numbered from StartClientSequence on.          *)
ClientNumbers ==
  /\ Cardinality(c2s) <= MaxClientPackets
  /\ \A q \in c2s : \E j \in 1 .. Cardinality(c2s) :
       q.seq = SequenceAfter(StartClientSequence, j, SeqMod)
  /\ \A q1, q2 \in c2s : q1.seq = q2.seq => q1 = q2

(* The ids in m_clientCommandsReceived are those of commands handled, and  *)
(* a server packet acknowledges only packets whose commands are handled.   *)
ReceiptInv ==
  /\ ClientNumbers
  /\ \A c \in ClientCommands : c % CmdMod \in clientCommandsReceived => executed[c] >= 1
  /\ KeysFrom(recvdPacketSeqs, lastClientSequence, Settled)
  /\ \A p \in s2c : AckedBy(p) \subseteq Settled \cup Earlier

(* GetAckBits covers only keys of the map, and counting back from a number *)
(* that is newer than the observation it does not leave Earlier.           *)
LEMMA AckedAreKeys ==
  ASSUME NEW S, NEW recvd, DOMAIN recvd \subseteq PacketNumbers,
         NEW last \in PacketNumbers, KeysFrom(recvd, last, S),
         NEW p, NEW j, NEW f, NEW ack, InPlace(p, j, recvd, f, ack),
         ack[j] \in Unacked(recvd) \cup {last}
  PROVE  AckedBy(p) \subseteq S \cup Earlier
<1> SUFFICES ASSUME NEW i \in p.bits
             PROVE  SequenceBefore(p.ack, i, SeqMod) \in S \cup Earlier
  BY DEF AckedBy
<1> DEFINE a == ack[j]
           s == Uint16(a - i)
<1>1. p.ack = a /\ i \in 0 .. AckWindow - 1 /\ s \in DOMAIN recvd
  BY DEF InPlace, GetAckBits
<1>2. a \in PacketNumbers /\ s \in PacketNumbers
  BY <1>1 DEF Unacked
<1> HIDE DEF s
<1>3. s = SequenceBefore(a, i, SeqMod) /\ s = a - i /\ i <= a
  BY <1>1, <1>2, AckedIsMeant DEF s
<1>4. CASE DOMAIN recvd \subseteq S
  BY <1>1, <1>3, <1>4
<1>5. CASE /\ last >= StartClientSequence
           /\ DOMAIN recvd \subseteq S \cup 1 .. StartClientSequence
           /\ \A x \in 1 .. StartClientSequence : recvd[x]
  <2>1. CASE s \in S
    BY <1>1, <1>3, <2>1
  <2>2. CASE s \in 1 .. StartClientSequence
    <3>1. a \notin 1 .. StartClientSequence \/ a = last
      BY <1>5 DEF Unacked
    <3>2. a > 0
      BY <1>1, <1>2, <1>3, <2>2, RCCAssumption DEF PacketNumbers
    <3>3. a >= StartClientSequence
      BY <1>2, <1>5, <3>1, <3>2, RCCAssumption DEF PacketNumbers
    <3>4. StartClientSequence - s < AckWindow
      BY <1>1, <1>2, <1>3, <2>2, <3>3, RCCAssumption DEF PacketNumbers
    <3> QED BY <1>1, <1>3, <2>2, <3>4 DEF Earlier
  <2> QED BY <1>1, <1>5, <2>1, <2>2
<1> QED BY <1>4, <1>5 DEF KeysFrom

(* A flush acknowledges only what its map knows, and adds nothing to it.   *)
LEMMA FlushAcks ==
  ASSUME NEW alsoResend, NEW sent, NEW states, IsFiniteSet(states),
         NEW recvd, DOMAIN recvd \subseteq PacketNumbers,
         NEW last \in PacketNumbers, NEW S, KeysFrom(recvd, last, S),
         Flush(alsoResend, sent, states, recvd, last)
  PROVE  /\ \A p \in s2c' \ s2c : AckedBy(p) \subseteq S \cup Earlier
         /\ KeysFrom(recvdPacketSeqs', last, S)
<1>1. PICK blocks, due, sending, n, m, count, f, g, ack :
        Sends(alsoResend, sent, states, recvd, last,
              blocks, due, sending, n, m, count, f, g, ack)
  BY FlushSends
<1>2. /\ ack \in [1 .. count -> Unacked(recvd) \cup {last}]
      /\ Transmit(sent, states, due, recvd, f, g, ack, count)
      /\ recvdPacketSeqs' = AcksGiven(recvd, Numbers(ack))
  BY <1>1 DEF Sends
<1>3. ASSUME NEW p \in s2c' \ s2c PROVE AckedBy(p) \subseteq S \cup Earlier
  <2>1. PICK j \in 1 .. count : InPlace(p, j, recvd, f, ack)
    BY <1>2, NewPackets
  <2>2. ack[j] \in Unacked(recvd) \cup {last}
    BY <1>2
  <2> QED BY <2>1, <2>2, AckedAreKeys
<1>4. Numbers(ack) \subseteq DOMAIN recvd \cup {0}
  BY <1>2 DEF Numbers, Unacked, KeysFrom
<1>5. /\ DOMAIN recvdPacketSeqs' = DOMAIN recvd
      /\ \A s \in DOMAIN recvd : recvd[s] => recvdPacketSeqs'[s]
  BY <1>2, <1>4 DEF AcksGiven
<1> QED BY <1>3, <1>5 DEF KeysFrom

(* PacketReceived enters the number of the packet it is given.  Before the *)
(* first wraparound the latest number only grows; a wraparound clears the  *)
(* map.                                                                    *)
LEMMA KeysAfter ==
  ASSUME NEW S, NEW recvd, NEW last \in PacketNumbers, KeysFrom(recvd, last, S),
         NEW seq \in PacketNumbers, NEW T, S \subseteq T, seq \in T
  PROVE  KeysFrom(RecvdAfter(recvd, last, seq, SeqMod), LastAfter(last, seq, SeqMod), T)
<1> DEFINE kept == IF Wraparound(last, seq, SeqMod) THEN {} ELSE DOMAIN recvd
           after == RecvdAfter(recvd, last, seq, SeqMod)
           latest == LastAfter(last, seq, SeqMod)
<1>1. /\ DOMAIN after = kept \cup {seq}
      /\ \A s \in kept : after[s] = recvd[s]
  BY DEF RecvdAfter
<1> HIDE DEF after
<1>2. latest = seq \/ (latest = last /\ ~Wraparound(last, seq, SeqMod))
  BY DEF LastAfter, Wraparound
<1>3. latest \in DOMAIN after \cup {0}
  BY <1>1, <1>2 DEF KeysFrom
<1>4. ASSUME DOMAIN recvd \subseteq S \/ Wraparound(last, seq, SeqMod)
      PROVE  KeysFrom(after, latest, T)
  BY <1>1, <1>3, <1>4 DEF KeysFrom
<1>5. ASSUME ~Wraparound(last, seq, SeqMod),
             last >= StartClientSequence,
             DOMAIN recvd \subseteq S \cup 1 .. StartClientSequence,
             1 .. StartClientSequence \subseteq DOMAIN recvd,
             \A s \in 1 .. StartClientSequence : recvd[s]
      PROVE  KeysFrom(after, latest, T)
  <2>1. latest >= last
    BY <1>5, RCCAssumption DEF Wraparound, LastAfter, IsSequenceMoreRecent, PacketNumbers
  <2>2. latest >= StartClientSequence
    BY <1>2, <1>5, <2>1, RCCAssumption DEF PacketNumbers
  <2> QED BY <1>1, <1>3, <1>5, <2>2 DEF KeysFrom
<1> QED BY <1>4, <1>5 DEF KeysFrom, after

(* A packet of the client is numbered as the ones before it, with a number *)
(* no earlier one has.                                                     *)
LEMMA NextClientNumber ==
  ASSUME TypeInv, ClientNumbers, ClientSend
  PROVE  /\ ClientNumbers'
         /\ \A q \in c2s' \ c2s : q.seq \notin SeqsOf(c2s)
<1> DEFINE count == Cardinality(c2s)
           Number(j) == SequenceAfter(StartClientSequence, j, SeqMod)
<1>1. PICK q : c2s' = c2s \cup {q} /\ q.seq = Number(count + 1)
  <2> DEFINE packet(r, cmds) == [seq |-> ClientSequence, ack |-> r,
                                 bits |-> ClientHonestBits(r), cmds |-> cmds]
  <2>1. PICK r, cmds : c2s' = c2s \cup {packet(r, cmds)}
    BY Zenon DEF ClientSend
  <2>2. packet(r, cmds).seq = Number(count + 1)
    BY DEF ClientSequence
  <2> HIDE DEF packet
  <2> QED BY <2>1, <2>2
<1>2. count \in Nat /\ count < MaxClientPackets /\ MaxClientPackets \in Nat
  BY FS_CardinalityType, RCCAssumption DEF TypeInv, ClientSend
<1>3. \A i, j \in 1 .. count + 1 : Number(i) = Number(j) => i = j
  <2> SUFFICES ASSUME NEW i \in 1 .. count + 1, NEW j \in 1 .. count + 1,
                      Number(i) = Number(j)
               PROVE  i = j
    OBVIOUS
  <2>1. /\ StartClientSequence \in PacketNumbers
        /\ i \in 0 .. SeqMod - 1 /\ j \in 0 .. SeqMod - 1
    BY <1>2, RCCAssumption DEF PacketNumbers
  <2> QED BY <2>1, AfterInjective
<1> HIDE DEF Number
<1>4. \A p \in c2s : \E j \in 1 .. count : p.seq = Number(j)
  BY DEF ClientNumbers, Number
<1>5. \A p \in c2s : p.seq # q.seq
  BY <1>1, <1>2, <1>3, <1>4
<1>6. q \notin c2s
  BY <1>5
<1>7. Cardinality(c2s') = count + 1
  BY <1>1, <1>6, FS_AddElement DEF TypeInv
<1>8. \A p \in c2s' : \E j \in 1 .. count + 1 : p.seq = Number(j)
  BY <1>1, <1>2, <1>4
<1> HIDE DEF count
<1>9. ClientNumbers'
  <2>1. \A q1, q2 \in c2s' : q1.seq = q2.seq => q1 = q2
    BY <1>1, <1>5 DEF ClientNumbers
  <2>2. Cardinality(c2s') <= MaxClientPackets
    BY <1>2, <1>7
  <2> QED BY <1>7, <1>8, <2>1, <2>2 DEF ClientNumbers, Number
<1> QED BY <1>1, <1>5, <1>9 DEF SeqsOf

(* None of the client's numbers is one of those before the observation     *)
(* that may still be acknowledged.                                         *)
LEMMA NotEarlier ==
  ASSUME TypeInv, ClientNumbers, MaxClientPackets + AckWindow <= SeqMod,
         NEW q \in c2s
  PROVE  q.seq \notin Earlier
<1>1. PICK j \in 1 .. Cardinality(c2s) : q.seq = SequenceAfter(StartClientSequence, j, SeqMod)
  BY DEF ClientNumbers
<1>2. Cardinality(c2s) \in Nat /\ Cardinality(c2s) <= MaxClientPackets
  BY FS_CardinalityType DEF TypeInv, ClientNumbers
<1>3. j \in Nat /\ 1 <= j /\ j + AckWindow <= SeqMod
  BY <1>2, RCCAssumption
<1> QED BY <1>1, <1>3, RCCAssumption DEF SequenceAfter, Earlier

(* HandlePacket leaves every command of its packet handled: a command that *)
(* is ignored has been handled before, if no two commands have one id.     *)
LEMMA HandlePacketSettles ==
  ASSUME TypeInv, ReceiptInv, MaxClientCommands <= CmdMod,
         NEW q \in c2s, HandlePacket(q)
  PROVE  /\ \A c \in ClientCommands : c % CmdMod \in clientCommandsReceived' => executed'[c] >= 1
         /\ Settled \subseteq Settled' /\ q.seq \in Settled'
<1>1. /\ executed' = [c \in ClientCommands |->
                        executed[c] + (IF c \in NewCommands(q) THEN 1 ELSE 0)]
      /\ clientCommandsReceived' = clientCommandsReceived \cup {c % CmdMod : c \in q.cmds}
      /\ c2s' = c2s
  BY Zenon DEF HandlePacket
<1>2. executed \in [ClientCommands -> Nat] /\ \A p \in c2s : p.cmds \subseteq ClientCommands
  BY DEF TypeInv, TypeOK, ClientPackets
<1>3. \A c \in ClientCommands : c % CmdMod = c
  BY RCCAssumption DEF ClientCommands
<1>4. \A c \in ClientCommands : executed'[c] \in Nat /\ executed'[c] >= executed[c]
  BY <1>1, <1>2
<1>5. \A c \in q.cmds : executed'[c] >= 1
  <2> SUFFICES ASSUME NEW c \in q.cmds PROVE executed'[c] >= 1
    OBVIOUS
  <2>1. CASE c \in NewCommands(q)
    BY <1>1, <1>2, <2>1
  <2>2. CASE c \notin NewCommands(q)
    <3>1. executed[c] >= 1
      BY <1>2, <2>2 DEF NewCommands, ReceiptInv
    <3> QED BY <1>2, <1>4, <3>1
  <2> QED BY <2>1, <2>2
<1>6. ASSUME NEW c \in ClientCommands, c % CmdMod \in clientCommandsReceived'
      PROVE  executed'[c] >= 1
  <2>1. CASE c % CmdMod \in clientCommandsReceived
    BY <1>2, <1>4, <2>1 DEF ReceiptInv
  <2>2. CASE c \in q.cmds
    BY <1>5, <2>2
  <2> QED BY <1>1, <1>2, <1>3, <1>6, <2>1, <2>2
<1>7. Settled \subseteq Settled'
  BY <1>1, <1>2, <1>4 DEF Settled
<1>8. q.seq \in Settled'
  <2>1. \A p \in c2s : p.seq = q.seq => p = q
    BY DEF ReceiptInv, ClientNumbers
  <2> QED BY <1>1, <1>5, <2>1 DEF Settled, SeqsOf
<1> QED BY <1>6, <1>7, <1>8

LEMMA ReceiptStep ==
  ASSUME MaxClientCommands <= CmdMod
  PROVE  TypeInv /\ ReceiptInv /\ [Next]_vars => ReceiptInv'
<1> SUFFICES ASSUME TypeInv, ReceiptInv, [Next]_vars PROVE ReceiptInv'
  OBVIOUS
<1>1. /\ lastClientSequence \in PacketNumbers
      /\ DOMAIN recvdPacketSeqs \subseteq PacketNumbers
      /\ IsFiniteSet(queuedStates)
  BY DEF TypeInv, TypeOK
<1>2. CASE CheckAndResend
  <2>1. /\ Flush(TRUE, sentCommands, queuedStates, recvdPacketSeqs, lastClientSequence)
        /\ UNCHANGED <<lastClientSequence, clientCommandsReceived, executed, c2s>>
    BY <1>2 DEF CheckAndResend
  <2>2. /\ \A p \in s2c' \ s2c : AckedBy(p) \subseteq Settled \cup Earlier
        /\ KeysFrom(recvdPacketSeqs', lastClientSequence, Settled)
    BY <1>1, <2>1, FlushAcks DEF ReceiptInv
  <2>3. Settled' = Settled
    BY <2>1 DEF Settled
  <2> QED BY <2>1, <2>2, <2>3 DEF ReceiptInv, ClientNumbers
<1>3. ASSUME NEW q \in c2s, HandlePacket(q) PROVE ReceiptInv'
  <2> DEFINE last == LastAfter(lastClientSequence, q.seq, SeqMod)
             recvd == RecvdAfter(recvdPacketSeqs, lastClientSequence, q.seq, SeqMod)
  <2>1. PICK states :
          /\ last \in PacketNumbers /\ DOMAIN recvd \subseteq PacketNumbers
          /\ IsFiniteSet(states)
          /\ Flush(FALSE, sentCommands \ Acknowledged(sentCommands, q), states, recvd, last)
          /\ lastClientSequence' = last /\ UNCHANGED c2s
    BY <1>3, HandlePacketFlushes
  <2>2. /\ \A c \in ClientCommands : c % CmdMod \in clientCommandsReceived' => executed'[c] >= 1
        /\ Settled \subseteq Settled' /\ q.seq \in Settled'
    BY <1>3, HandlePacketSettles
  <2>3. q.seq \in PacketNumbers
    BY DEF TypeInv, TypeOK, ClientPackets
  <2>4. KeysFrom(recvd, last, Settled')
    BY <1>1, <2>2, <2>3, KeysAfter DEF ReceiptInv
  <2> HIDE DEF last, recvd
  <2>5. /\ \A p \in s2c' \ s2c : AckedBy(p) \subseteq Settled' \cup Earlier
        /\ KeysFrom(recvdPacketSeqs', last, Settled')
    BY <2>1, <2>4, FlushAcks
  <2>6. \A p \in s2c : AckedBy(p) \subseteq Settled' \cup Earlier
    BY <2>2 DEF ReceiptInv
  <2> QED BY <2>1, <2>2, <2>5, <2>6 DEF ReceiptInv, ClientNumbers
<1>4. CASE ClientSend
  <2>1. ClientNumbers' /\ \A q \in c2s' \ c2s : q.seq \notin SeqsOf(c2s)
    BY <1>4, NextClientNumber DEF ReceiptInv
  <2>2. /\ c2s \subseteq c2s'
        /\ UNCHANGED <<lastClientSequence, recvdPacketSeqs,
                       clientCommandsReceived, executed, s2c>>
    BY <1>4 DEF ClientSend, server
  <2>3. Settled \subseteq Settled'
    BY <2>1, <2>2 DEF Settled, SeqsOf
  <2> QED BY <2>1, <2>2, <2>3 DEF ReceiptInv, KeysFrom
<1>5. CASE UNCHANGED <<lastClientSequence, recvdPacketSeqs, clientCommandsReceived,
                       executed, s2c, c2s>>
  BY <1>5 DEF ReceiptInv, ClientNumbers, Settled
<1> QED BY <1>2, <1>3, <1>4, <1>5
     DEF Next, QueueCommand, QueueState, ClientReceive, vars, server

(* A command of the client is handled exactly once, as soon as it has been *)
(* told that the packet arrived: what HandleOrdered ignores was handled    *)
(* before, and PacketReceived, GetAnAck and GetAckBits acknowledge no      *)
(* number of a packet that did not come.  This is so while no command id   *)
(* and no packet number the server can still acknowledge comes up again.   *)
THEOREM CommandsExactlyOnce ==
  ASSUME MaxClientCommands <= CmdMod, MaxClientPackets + AckWindow <= SeqMod
  PROVE  Spec => []ExactlyOnce
<1>1. Init => ReceiptInv
  <2> SUFFICES ASSUME Init PROVE ReceiptInv
    OBVIOUS
  <2>1. ClientNumbers
    BY FS_EmptySet, RCCAssumption DEF Init, ClientNumbers
  <2>2. KeysFrom(recvdPacketSeqs, lastClientSequence, Settled)
    BY RCCAssumption DEF Init, KeysFrom
  <2> QED BY <2>1, <2>2 DEF Init, ReceiptInv
<1>2. TypeInv /\ ReceiptInv => IgnoredAlreadyHandled
  <2> SUFFICES ASSUME TypeInv, ReceiptInv,
                      NEW p \in cliGot, NEW q \in c2s, q.seq \in AckedBy(p),
                      NEW c \in q.cmds
               PROVE  executed[c] >= 1
    BY DEF IgnoredAlreadyHandled, ClientCommandsAcked, ClientAcked, CommandsOf
  <2>1. p \in s2c
    BY DEF TypeInv, TypeOK
  <2>2. q.seq \notin Earlier
    BY NotEarlier DEF ReceiptInv
  <2>3. q.seq \in Settled
    BY <2>1, <2>2 DEF ReceiptInv
  <2> QED BY <2>3 DEF Settled
<1>3. Spec => []ReceiptInv
  BY <1>1, ReceiptStep, TypeInit, TypeStep, PTL DEF Spec
<1>4. Spec => []TypeInv
  BY TypeInit, TypeStep, PTL DEF Spec
<1> QED BY <1>2, <1>3, <1>4, ClientCommandsHandledOnce, PTL DEF ExactlyOnce

-----------------------------------------------------------------------------
(* The updates half of the channel implements its abstract specification.  *)

LEMMA WaitingOf ==
  ASSUME NEW entries
  PROVE  /\ \A st \in entries :
              \E e \in Waiting(entries) : e.id = st.id /\ e.callBack = st.callBack
         /\ \A e \in Waiting(entries) :
              \E st \in entries : e.id = st.id /\ e.callBack = st.callBack
<1>1. ASSUME NEW st \in entries
      PROVE  \E e \in Waiting(entries) : e.id = st.id /\ e.callBack = st.callBack
  <2>1. [id |-> st.id, callBack |-> st.callBack] \in Waiting(entries)
    BY DEF Waiting
  <2> QED BY <2>1
<1>2. ASSUME NEW e \in Waiting(entries)
      PROVE  \E st \in entries : e.id = st.id /\ e.callBack = st.callBack
  <2>1. PICK st \in entries : e = [id |-> st.id, callBack |-> st.callBack]
    BY DEF Waiting
  <2> QED BY <2>1
<1> QED BY <1>1, <1>2

(* A flush sends what it was given and keeps no more than that.            *)
LEMMA FlushUpdates ==
  ASSUME NEW alsoResend, NEW sent, NEW recvd, NEW last,
         DOMAIN recvd \subseteq PacketNumbers,
         NEW states \in SUBSET StateEntries, IsFiniteSet(states),
         Flush(alsoResend, sent, states, recvd, last)
  PROVE  Updates!Send(Waiting(states))
<1>1. PICK blocks, due, sending, n, m, count, f, g, ack :
        Sends(alsoResend, sent, states, recvd, last,
              blocks, due, sending, n, m, count, f, g, ack)
  BY FlushSends
<1>2. /\ due \subseteq states /\ sending \subseteq due /\ DOMAIN g = sending
      /\ Transmit(sent, states, due, recvd, f, g, ack, count)
  BY <1>1 DEF Sends, StateSlots
<1> DEFINE packet(j) ==
        [seq |-> NumberOf(j), ack |-> ack[j],
         bits |-> GetAckBits(recvd, ack[j], AckWindow),
         cmds |-> {k \in DOMAIN f : f[k] = j},
         states |-> {st.id : st \in {x \in DOMAIN g : g[x] = j}}]
           again(x) == SentIn(x, {NumberOf(g[x])})
<1>3. /\ s2c' = s2c \cup {packet(j) : j \in 1 .. count}
      /\ queuedStates' = (states \ due) \cup {again(x) : x \in {y \in DOMAIN g : ~y.noResend}}
  BY <1>2 DEF Transmit
<1>4. \A j : packet(j).states = {st.id : st \in {x \in DOMAIN g : g[x] = j}}
  OBVIOUS
<1>5. \A x \in states : again(x).id = x.id /\ again(x).callBack = x.callBack
  <2> SUFFICES ASSUME NEW x \in states
               PROVE  again(x).id = x.id /\ again(x).callBack = x.callBack
    OBVIOUS
  <2> QED BY x \in StateEntries DEF SentIn, StateEntries
<1> HIDE DEF packet, again
<1>6. Waiting(queuedStates') \subseteq Waiting(states)
  BY <1>2, <1>3, <1>5 DEF Waiting
<1>7. /\ StatesOf(s2c) \subseteq StatesOf(s2c')
      /\ StatesOf(s2c') \subseteq StatesOf(s2c) \cup {st.id : st \in states}
  BY <1>2, <1>3, <1>4 DEF StatesOf
<1> DEFINE going == {e \in Waiting(states) : e.id \in StatesOf(s2c')}
<1>8. {st.id : st \in states} = {e.id : e \in Waiting(states)}
  BY WaitingOf
<1>9. StatesOf(s2c') = StatesOf(s2c) \cup {e.id : e \in going}
  BY <1>7, <1>8
<1>10. Waiting(queuedStates)' = Waiting(queuedStates')
  BY DEF Waiting
<1>11. going \in SUBSET Waiting(states) /\ StatesOf(s2c)' = StatesOf(s2c')
  BY DEF StatesOf
<1> HIDE DEF going
<1> QED BY <1>6, <1>9, <1>10, <1>11 DEF Updates!Send

(* HandlePacket drops the updates acknowledged, which the client has, and  *)
(* runs the callBack of each that has one.                                 *)
LEMMA HandlePacketAcknowledges ==
  ASSUME DeliveryInv, EntryInv, NEW q \in c2s, HandlePacket(q)
  PROVE  Updates!Acknowledge
<1> DEFINE gone == Acknowledged(queuedStates, q)
           called == {st \in gone : st.callBack}
           last == LastAfter(lastClientSequence, q.seq, SeqMod)
           recvd == RecvdAfter(recvdPacketSeqs, lastClientSequence, q.seq, SeqMod)
           sent == sentCommands \ Acknowledged(sentCommands, q)
           new(more) ==
             {QueuedState(statesQueued + i, FALSE, FALSE) : i \in 0 .. more - 1}
           states(more) == (queuedStates \ gone) \cup new(more)
           Of(s) == {st \in called : st.id = s}
<1>1. PICK more \in 0 .. (IF called = {} THEN 0 ELSE MaxStates - statesQueued) :
        /\ callbacks' = [s \in States |-> callbacks[s] + Cardinality(Of(s))]
        /\ statesQueued' = statesQueued + more
        /\ Flush(FALSE, sent, states(more), recvd, last)
        /\ UNCHANGED <<serverCommandsSent, c2s, cliGot>>
  BY Zenon DEF HandlePacket
<1>2. /\ more \in Nat /\ statesQueued + more <= MaxStates /\ statesQueued \in Nat
      /\ more > 0 => called # {}
  BY RCCAssumption DEF DeliveryInv, TypeOK
<1>3. queuedStates \subseteq StateEntries /\ gone \subseteq queuedStates
  BY DEF DeliveryInv, TypeOK, Acknowledged
<1>4. states(more) \in SUBSET StateEntries /\ IsFiniteSet(states(more))
  <2>1. IsFiniteSet(queuedStates \ gone)
    BY FS_Subset DEF DeliveryInv
  <2>2. new(more) \subseteq StateEntries /\ IsFiniteSet(new(more))
    BY <1>2, MoreStates
  <2> QED BY <1>3, <2>1, <2>2, FS_Union
<1>5. DOMAIN recvd \subseteq PacketNumbers
  <2>1. q.seq \in PacketNumbers
    BY DEF DeliveryInv, TypeOK, ClientPackets
  <2> QED BY <2>1 DEF RecvdAfter, DeliveryInv, TypeOK
<1> DEFINE calling == {e \in Waiting(gone) : e.callBack}
           later == {Updates!Entry(id, FALSE) : id \in statesQueued .. statesQueued' - 1}
<1>6. Waiting(new(more)) = later
  <2>1. \A id : QueuedState(id, FALSE, FALSE).id = id /\ ~QueuedState(id, FALSE, FALSE).callBack
    BY DEF QueuedState
  <2>2. \A i \in 0 .. more - 1 : statesQueued + i \in statesQueued .. statesQueued' - 1
    BY <1>1, <1>2
  <2>3. \A id \in statesQueued .. statesQueued' - 1 :
          id - statesQueued \in 0 .. more - 1 /\ statesQueued + (id - statesQueued) = id
    BY <1>1, <1>2
  <2>4. \A id : [id |-> QueuedState(id, FALSE, FALSE).id,
                 callBack |-> QueuedState(id, FALSE, FALSE).callBack] = Updates!Entry(id, FALSE)
    BY DEF QueuedState, Updates!Entry
  <2>5. Waiting(new(more)) \subseteq later
    BY <2>2, <2>4 DEF Waiting
  <2>6. later \subseteq Waiting(new(more))
    <3> SUFFICES ASSUME NEW id \in statesQueued .. statesQueued' - 1
                 PROVE  Updates!Entry(id, FALSE) \in Waiting(new(more))
      OBVIOUS
    <3>1. QueuedState(statesQueued + (id - statesQueued), FALSE, FALSE) \in new(more)
      BY <2>3
    <3>2. QueuedState(id, FALSE, FALSE) \in new(more)
      BY <2>3, <3>1
    <3> QED BY <2>4, <3>2 DEF Waiting
  <2> QED BY <2>5, <2>6
<1>7. Waiting(queuedStates) \ Waiting(gone) = Waiting(queuedStates \ gone)
  BY <1>3 DEF Waiting, EntryInv, OwnIds
<1>8. Waiting(states(more)) = (Waiting(queuedStates) \ Waiting(gone)) \cup later
  BY <1>6, <1>7 DEF Waiting
<1> HIDE DEF new, recvd, last, sent
<1>9. Updates!Send((Waiting(queuedStates) \ Waiting(gone)) \cup later)
  <2> HIDE DEF states, later, gone
  <2>1. Flush(FALSE, sent, states(more), recvd, last)
    BY <1>1
  <2>2. Updates!Send(Waiting(states(more)))
    BY <1>4, <1>5, <2>1, FlushUpdates
  <2> QED BY <1>8, <2>2
<1>10. \A s \in States : Cardinality(Of(s)) = IF \E e \in calling : e.id = s THEN 1 ELSE 0
  <2> SUFFICES ASSUME NEW s \in States
               PROVE  Cardinality(Of(s)) = IF \E e \in calling : e.id = s THEN 1 ELSE 0
    OBVIOUS
  <2>1. (\E e \in calling : e.id = s) <=> Of(s) # {}
    <3> HIDE DEF gone
    <3> QED BY WaitingOf
  <2>2. CASE Of(s) = {}
    BY <2>1, <2>2, FS_EmptySet
  <2>3. CASE Of(s) # {}
    <3>1. PICK st \in gone : st \in Of(s)
      BY <2>3
    <3>2. Of(s) = {st}
      BY <1>3, <3>1 DEF EntryInv, OwnIds
    <3>3. Cardinality(Of(s)) = 1
      BY <3>2, FS_Singleton
    <3> QED BY <2>1, <2>3, <3>3
  <2> QED BY <2>2, <2>3
<1>11. callbacks' = [s \in States |-> callbacks[s] + (IF \E e \in calling : e.id = s THEN 1 ELSE 0)]
  BY <1>1, <1>10
<1>12. statesQueued' = statesQueued \/ (statesQueued' > statesQueued /\ calling # {})
  <2>1. called # {} => calling # {}
    <3> HIDE DEF gone
    <3> QED BY WaitingOf
  <2> QED BY <1>1, <1>2, <2>1
<1>13. {e.id : e \in Waiting(gone)} \subseteq StatesOf(cliGot)
  <2>1. \A st \in gone : \E p \in cliGot : st.id \in p.states
    BY AcknowledgedUpdate DEF EntryInv
  <2> QED BY <2>1 DEF Waiting, StatesOf
<1>14. StatesOf(cliGot)' = StatesOf(cliGot)
  BY <1>1 DEF StatesOf
<1>15. Waiting(gone) \in SUBSET Waiting(queuedStates)
  BY <1>3 DEF Waiting
<1> HIDE DEF gone, called
<1> QED BY <1>9, <1>11, <1>12, <1>13, <1>14, <1>15, Zenon DEF Updates!Acknowledge

LEMMA UpdatesStep ==
  DeliveryInv /\ EntryInv /\ [Next]_vars => [Updates!Next]_(Updates!vars)
<1> SUFFICES ASSUME DeliveryInv, EntryInv, [Next]_vars
             PROVE  [Updates!Next]_(Updates!vars)
  OBVIOUS
<1>1. ASSUME NEW immediateOnly \in BOOLEAN, NEW callBack \in BOOLEAN,
             QueueState(immediateOnly, callBack)
      PROVE  Updates!Queue
  <2> DEFINE new == QueuedState(statesQueued, immediateOnly, callBack)
  <2>1. new.id = statesQueued /\ new.callBack = callBack
    BY DEF QueuedState
  <2>2. /\ queuedStates' = queuedStates \cup {new} /\ statesQueued' = statesQueued + 1
        /\ UNCHANGED <<callbacks, s2c, cliGot>>
    BY <1>1 DEF QueueState
  <2> HIDE DEF new
  <2>3. Waiting(queuedStates)' = Waiting(queuedStates) \cup {Updates!Entry(statesQueued, callBack)}
    BY <2>1, <2>2 DEF Waiting, Updates!Entry
  <2> QED BY <2>2, <2>3 DEF Updates!Queue, StatesOf
<1>2. CASE CheckAndResend
  <2>1. Updates!Send(Waiting(queuedStates))
    BY <1>2, FlushUpdates DEF CheckAndResend, DeliveryInv, TypeOK
  <2> QED BY <1>2, <2>1 DEF CheckAndResend, Updates!Flush, Updates!Next, StatesOf
<1>3. ASSUME NEW q \in c2s, HandlePacket(q) PROVE Updates!Acknowledge
  BY <1>3, HandlePacketAcknowledges
<1>4. ASSUME NEW p \in s2c, ClientReceive(p) PROVE Updates!Deliver
  <2>1. StatesOf(cliGot)' = StatesOf(cliGot) \cup p.states /\ p.states \in SUBSET StatesOf(s2c)
    BY <1>4 DEF ClientReceive, StatesOf
  <2>2. UNCHANGED <<statesQueued, Waiting(queuedStates), StatesOf(s2c), callbacks>>
    BY <1>4 DEF ClientReceive, server, StatesOf, Waiting
  <2> QED BY <2>1, <2>2 DEF Updates!Deliver
<1>5. CASE UNCHANGED <<statesQueued, queuedStates, s2c, cliGot, callbacks>>
  BY <1>5 DEF Updates!vars, Waiting, StatesOf
<1> QED BY <1>1, <1>2, <1>3, <1>4, <1>5
     DEF Next, QueueCommand, ClientSend, vars, server, Updates!Next

(* The half of the channel that QueueState feeds does what the world logic *)
(* expects of it: FlushQueue sends only what is queued, AcknowledgePacket  *)
(* erases and calls back only what the client has, each update once.       *)
THEOREM UpdatesRefinement == Spec => ImplementsStateUpdates
<1>1. Init => Updates!Init
  BY DEF Init, Updates!Init, Waiting, StatesOf
<1>2. Init => EntryInv
  BY DEF Init, EntryInv, Carried, OwnIds, CallbackAfterReceipt
<1> QED BY <1>1, <1>2, UpdatesStep, EntryStep, DeliveryInvariant, PTL
        DEF Spec, ImplementsStateUpdates, Updates!Spec
=============================================================================
