--------------------------- MODULE PacketSequences ---------------------------
(***************************************************************************)
(* The arithmetic of the packet numbers that the client and the game       *)
(* server put in every encrypted UDP packet (GameClient.h, GameClient.cpp).*)
(*                                                                         *)
(* A packet number is 12 bits wide on the wire and is kept in a uint16: it *)
(* runs through 0 .. max-1 with max = 4096 and then starts again at 0.     *)
(* The subtractions of the code are done in 16 bits and are NOT reduced    *)
(* modulo 4096.                                                            *)
(*                                                                         *)
(* m_recvdPacketSeqs, the map from the numbers of the packets received to  *)
(* "has this one been acknowledged", is a function whose domain is the set *)
(* of its keys.                                                            *)
(***************************************************************************)
EXTENDS Integers

Uint16(x) == x % 65536

(* Mutant of IsSequenceMoreRecent: the wraparound is not considered.       *)
IsSequenceMoreRecentPlain(bigger, smaller, max) == bigger > smaller

(* Is packet number "bigger" later than "smaller", allowing for the wrap?  *)
IsSequenceMoreRecent(bigger, smaller, max) ==
  \/ bigger > smaller /\ bigger - smaller <= max \div 2
  \/ smaller > bigger /\ smaller - bigger > max \div 2

(* The number that follows s, and the one d packets after it (d <= max).   *)
IncreaseSequence(s, max) == IF s + 1 = max THEN 0 ELSE s + 1
SequenceAfter(s, d, max) == IF s + d < max THEN s + d ELSE s + d - max

(* The number i packets before s on the circle (i <= max).                 *)
SequenceBefore(s, i, max) == IF i <= s THEN s - i ELSE s - i + max

(* Mutant of AckSequences: the number in the header counts as acknowledged *)
(* although its bit is clear.                                              *)
AckSequencesHeader(seq, bits) == {Uint16(seq - i) : i \in bits \cup {0}}

(* The packets a header (seq, bits) acknowledges, as the server reads it:  *)
(* bit i stands for the uint16 seq - i.                                    *)
AckSequences(seq, bits) == {Uint16(seq - i) : i \in bits}

(* The bits the server sends with the acknowledgement of packet seq, one   *)
(* for every i < window such that seq - i is a key of the map.             *)
GetAckBits(recvd, seq, window) ==
  {i \in 0 .. window - 1 : Uint16(seq - i) \in DOMAIN recvd}

(* PacketReceived: the latest number moves forward only; when it moves     *)
(* from the upper half of the range to the lower half, the map is cleared; *)
(* a number that is new to the map enters it as not yet acknowledged.      *)
LastAfter(last, seq, max) ==
  IF IsSequenceMoreRecent(seq, last, max) THEN seq ELSE last

(* Mutant of Wraparound: the map is never cleared.                         *)
WraparoundNever(last, seq, max) == FALSE

Wraparound(last, seq, max) ==
  /\ IsSequenceMoreRecent(seq, last, max)
  /\ last > max \div 2
  /\ seq < max \div 2

RecvdAfter(recvd, last, seq, max) ==
  LET kept == IF Wraparound(last, seq, max) THEN {} ELSE DOMAIN recvd
  IN  [s \in kept \cup {seq} |-> IF s \in kept THEN recvd[s] ELSE FALSE]

(* The numbers of the map that GetAnAck has not handed out yet, and the    *)
(* map after the numbers given went out in headers: each is marked, and    *)
(* the latest number, which GetAnAck falls back on, is entered if it is    *)
(* not zero.                                                               *)
Unacked(recvd) == {s \in DOMAIN recvd : ~recvd[s]}

AcksGiven(recvd, given) ==
  [s \in DOMAIN recvd \cup (given \ {0}) |->
     (s \in DOMAIN recvd /\ recvd[s]) \/ s \in given]
=============================================================================
