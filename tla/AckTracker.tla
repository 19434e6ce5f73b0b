------------------------------ MODULE AckTracker ------------------------------
(***************************************************************************)
(* m_recvdPacketSeqs over a long session, in which the packet numbers of   *)
(* the client run through their range several times (GameClient.h:         *)
(* GetAnAck, GetAckBits; GameClient.cpp: PacketReceived).  RCC covers what *)
(* is in the packets, but not a number used twice; here a packet is only   *)
(* its absolute number n, its header says n % SeqMod, and the questions    *)
(* are whether the server still knows the latest packet, and whether what  *)
(* its headers acknowledge is what it received.                            *)
(***************************************************************************)
EXTENDS PacketSequences, FiniteSets

CONSTANTS
  SeqMod,     \* size of the range of packet numbers (4096)
  AckWindow,  \* MAX_ACKED_PACKETS (7)
  MaxDelay,   \* network: a packet is overtaken by at most so many later ones
  MaxGap,     \* network: at most so many packets in a row get lost
  MaxSent     \* bound: packets the client sends

ASSUME AckTrackerAssumption ==
  /\ SeqMod \in Nat \ {0}
  /\ AckWindow \in 1 .. SeqMod \div 2 + 1
  /\ SeqMod + AckWindow <= 65536
  /\ MaxDelay \in Nat /\ MaxGap \in Nat /\ MaxSent \in Nat
  /\ MaxDelay <= (SeqMod - 1) \div 2
  /\ MaxGap + 1 <= (SeqMod - 1) \div 2

VARIABLES
  sent,               \* packets the client has sent: 1 .. sent
  got,                \* those the server received, of the last SeqMod sent
  lastClientSequence, \* m_lastClientSequence
  recvdPacketSeqs,    \* m_recvdPacketSeqs
  acked,              \* what the headers of the last flush acknowledge
  late                \* numbers that came in after the map was cleared of them

vars == <<sent, got, lastClientSequence, recvdPacketSeqs, acked, late>>

Recent(top) == {n \in 1 .. top : n > top - SeqMod}

Newest == IF got = {} THEN 0 ELSE CHOOSE n \in got : \A o \in got : o <= n

Init ==
  /\ sent = 0 /\ got = {}
  /\ lastClientSequence = 0
  /\ recvdPacketSeqs = [s \in {} |-> TRUE]
  /\ acked = {} /\ late = {}

ClientSend ==
  /\ sent < MaxSent
  /\ sent - Newest <= MaxGap
  /\ sent' = sent + 1
  /\ got' = got \cap Recent(sent')
  /\ acked' = {}
  /\ UNCHANGED <<lastClientSequence, recvdPacketSeqs, late>>

(* The headers of a flush: with each number given by GetAnAck go the bits  *)
(* of GetAckBits; the client takes a number for the latest packet that it  *)
(* sent under it.                                                          *)
Meant(number) == {n \in Recent(sent) : n % SeqMod = number % SeqMod}

Acknowledge(given, recvd) ==
  LET after == AcksGiven(recvd, given)
  IN  /\ recvdPacketSeqs' = after
      /\ acked' = UNION {UNION {Meant(r - i) : i \in GetAckBits(after, r, AckWindow)} :
                           r \in given}

(* The packets of a cycle of numbers before the one of the latest packet.  *)
OfEarlierCycles == {n \in Recent(sent) : n \div SeqMod < Newest \div SeqMod}

(* HandlePacket: PacketReceived, then FlushQueue, which acknowledges what  *)
(* is unacknowledged and, if it has data to send besides, the latest       *)
(* number once more.                                                       *)
HandlePacket(n) ==
  LET seq == n % SeqMod
      recvd == RecvdAfter(recvdPacketSeqs, lastClientSequence, seq, SeqMod)
  IN
  /\ got' = got \cup {n}
  /\ lastClientSequence' = LastAfter(lastClientSequence, seq, SeqMod)
  /\ \E more \in {{}, {lastClientSequence'}} :
       Acknowledge(Unacked(recvd) \cup more, recvd)
  /\ late' = IF Wraparound(lastClientSequence, seq, SeqMod) THEN {}
             ELSE late \cup {k % SeqMod : k \in {n} \cap OfEarlierCycles}
  /\ UNCHANGED sent

(* A packet arrives at once, late, again, or (no action) never.            *)
Arrival == \E n \in Recent(sent) : sent - n <= MaxDelay /\ HandlePacket(n)

(* CheckAndResend has something to send although nothing arrived.          *)
CheckAndResend ==
  /\ Acknowledge({lastClientSequence}, recvdPacketSeqs)
  /\ UNCHANGED <<sent, got, lastClientSequence, late>>

Next == ClientSend \/ Arrival \/ CheckAndResend

Spec == Init /\ [][Next]_vars

-----------------------------------------------------------------------------
(* m_lastClientSequence is the number of the latest packet received, over  *)
(* wraparounds, losses and packets that arrive late or twice.              *)
LastIsNewest == lastClientSequence = Newest % SeqMod

(* "sequences of packets received": what a header acknowledges has been    *)
(* received, also when its number was used before.  The exception are the  *)
(* numbers that come in from the other side of a wraparound: they stay in  *)
(* the map for the whole cycle, and what has such a number next is         *)
(* acknowledged even if it is lost.                                        *)
HonestAcks == \A n \in acked : n \in got \/ n % SeqMod \in late

(* "insert as not acked": a packet that arrives for the first time is      *)
(* acknowledged before HandlePacket returns, also when its number was used *)
(* before, with the same exception.                                        *)
FirstArrivalAcked ==
  [][\A n \in got' \ got : n \in acked' \/ n % SeqMod \in late]_vars
=============================================================================
