-------------------------- MODULE AckTracker_proofs --------------------------
(***************************************************************************)
(* Proofs about the numbers of the packets received, for every range of    *)
(* numbers and every window that fit into 16 bits, and a session of any    *)
(* length.                                                                 *)
(***************************************************************************)
EXTENDS AckTracker, TLAPS

(* The newest packet received: while it is less than half a range behind   *)
(* the packets sent, its number tells it from all others still under way.  *)
WindowInv ==
  /\ sent \in Nat /\ got \subseteq Recent(sent)
  /\ Newest \in Nat /\ Newest <= sent /\ sent - Newest <= MaxGap + 1
  /\ \A n \in got : n <= Newest
  /\ Newest \in got \/ (got = {} /\ Newest = 0)

(* Between two calls, everything in the map has been acknowledged.         *)
AllMarked ==
  /\ DOMAIN recvdPacketSeqs \subseteq 0 .. SeqMod - 1
  /\ \A s \in DOMAIN recvdPacketSeqs : recvdPacketSeqs[s] = TRUE

Cycle(n)   == n \div SeqMod
Residue(n) == n % SeqMod

(* What is in the map, but for the numbers that came in late, are numbers  *)
(* of the cycle of the newest packet, and packets that were received.      *)
KeysOfCycle ==
  \A k \in DOMAIN recvdPacketSeqs \ late :
    /\ k <= lastClientSequence
    /\ \A n \in Recent(sent) : Cycle(n) = Cycle(Newest) /\ Residue(n) = k => n \in got

TrackInv == WindowInv /\ LastIsNewest /\ AllMarked /\ KeysOfCycle

-----------------------------------------------------------------------------
(* Arithmetic.                                                             *)

LEMMA DivMod ==
  ASSUME NEW M \in Nat \ {0}, NEW a \in Nat
  PROVE  /\ a % M \in 0 .. M - 1 /\ a \div M \in Nat
         /\ a = M * (a \div M) + (a % M)
OBVIOUS

LEMMA Times ==
  ASSUME NEW M \in Nat \ {0}, NEW k \in Int, M * k > 0 - M, M * k < 2 * M
  PROVE  k \in {0, 1}
<1>1. CASE k >= 2
  <2>1. M * k >= M * 2 BY <1>1
  <2> QED BY <2>1
<1>2. CASE k <= -1
  <2>1. M * k <= M * (-1) BY <1>2
  <2> QED BY <2>1
<1> QED BY <1>1, <1>2

(* Two packets less than a range apart are in the same cycle of numbers or *)
(* in two that follow each other.                                          *)
LEMMA CycleStep ==
  ASSUME NEW M \in Nat \ {0}, NEW a \in Nat, NEW b \in Nat, a <= b, b - a < M
  PROVE  \/ b \div M = a \div M /\ (b % M) - (a % M) = b - a
         \/ b \div M = (a \div M) + 1 /\ (b % M) - (a % M) = (b - a) - M
<1> DEFINE k == (b \div M) - (a \div M)
<1>1. /\ a % M \in 0 .. M - 1 /\ a \div M \in Nat /\ a = M * (a \div M) + (a % M)
      /\ b % M \in 0 .. M - 1 /\ b \div M \in Nat /\ b = M * (b \div M) + (b % M)
  BY DivMod
<1>2. k \in Int /\ M * k = (b - a) - ((b % M) - (a % M))
  <2>1. M * k = M * (b \div M) - M * (a \div M) BY <1>1
  <2> QED BY <1>1, <2>1
<1>3. k \in {0, 1}
  <2>1. M * k > 0 - M /\ M * k < 2 * M BY <1>1, <1>2
  <2> HIDE DEF k
  <2> QED BY <1>2, <2>1, Times
<1>4. CASE k = 0
  <2>1. b \div M = a \div M BY <1>1, <1>4
  <2> QED BY <1>1, <2>1
<1>5. CASE k = 1
  <2>1. b \div M = (a \div M) + 1 BY <1>1, <1>5
  <2>2. M * k = M BY <1>5
  <2> QED BY <1>1, <1>2, <2>1, <2>2
<1> QED BY <1>3, <1>4, <1>5

(* The same for the range of the module.                                   *)
LEMMA Residues ==
  /\ \A a \in Nat : Residue(a) \in 0 .. SeqMod - 1 /\ Cycle(a) \in Nat
  /\ \A a, b \in Nat : a <= b /\ b - a < SeqMod =>
       \/ Cycle(b) = Cycle(a) /\ Residue(b) - Residue(a) = b - a
       \/ Cycle(b) = Cycle(a) + 1 /\ Residue(b) - Residue(a) = (b - a) - SeqMod
<1>1. SeqMod \in Nat \ {0} BY AckTrackerAssumption
<1>2. ASSUME NEW a \in Nat
      PROVE  Residue(a) \in 0 .. SeqMod - 1 /\ Cycle(a) \in Nat
  BY <1>1, DivMod DEF Residue, Cycle
<1>3. ASSUME NEW a \in Nat, NEW b \in Nat, a <= b, b - a < SeqMod
      PROVE  \/ Cycle(b) = Cycle(a) /\ Residue(b) - Residue(a) = b - a
             \/ Cycle(b) = Cycle(a) + 1 /\ Residue(b) - Residue(a) = (b - a) - SeqMod
  <2>1. \/ b \div SeqMod = a \div SeqMod /\ (b % SeqMod) - (a % SeqMod) = b - a
        \/ /\ b \div SeqMod = (a \div SeqMod) + 1
           /\ (b % SeqMod) - (a % SeqMod) = (b - a) - SeqMod
    BY <1>1, <1>3, CycleStep
  <2> QED BY <2>1, Zenon DEF Residue, Cycle
<1> QED BY <1>2, <1>3

(* A packet is known by its number and the cycle it is in.                 *)
LEMMA SamePacket ==
  \A a, b \in Nat : Cycle(a) = Cycle(b) /\ Residue(a) = Residue(b) => a = b
<1> SUFFICES ASSUME NEW a \in Nat, NEW b \in Nat, Cycle(a) = Cycle(b), Residue(a) = Residue(b)
             PROVE  a = b
  OBVIOUS
<1>1. SeqMod \in Nat \ {0} BY AckTrackerAssumption
<1>2. a = SeqMod * Cycle(a) + Residue(a) BY <1>1, DivMod DEF Cycle, Residue
<1>3. b = SeqMod * Cycle(b) + Residue(b) BY <1>1, DivMod DEF Cycle, Residue
<1> QED BY <1>2, <1>3

LEMMA WindowFits ==
  /\ SeqMod \in Nat \ {0} /\ MaxDelay \in Nat /\ MaxGap \in Nat /\ AckWindow \in Nat \ {0}
  /\ MaxDelay <= (SeqMod - 1) \div 2 /\ MaxGap + 1 <= (SeqMod - 1) \div 2
  /\ MaxDelay < SeqMod /\ MaxGap + 1 < SeqMod /\ SeqMod + AckWindow <= 65536
BY AckTrackerAssumption

(* isSequenceMoreRecent compares packets by their numbers, and the map is  *)
(* cleared exactly when a packet of the next cycle arrives.                *)
LEMMA MoreRecent ==
  \A a, b \in Nat : a < b /\ b - a <= (SeqMod - 1) \div 2 =>
    /\ IsSequenceMoreRecent(Residue(b), Residue(a), SeqMod)
    /\ Wraparound(Residue(a), Residue(b), SeqMod) <=> Cycle(b) # Cycle(a)
<1> SUFFICES ASSUME NEW a \in Nat, NEW b \in Nat, a < b, b - a <= (SeqMod - 1) \div 2
             PROVE  /\ IsSequenceMoreRecent(Residue(b), Residue(a), SeqMod)
                    /\ Wraparound(Residue(a), Residue(b), SeqMod) <=> Cycle(b) # Cycle(a)
  OBVIOUS
<1>1. /\ Residue(a) \in 0 .. SeqMod - 1 /\ Residue(b) \in 0 .. SeqMod - 1
      /\ Cycle(a) \in Nat /\ Cycle(b) \in Nat
  BY Residues
<1>2. SeqMod \in Nat \ {0} /\ b - a < SeqMod BY WindowFits
<1>3. \/ Cycle(b) = Cycle(a) /\ Residue(b) - Residue(a) = b - a
      \/ Cycle(b) = Cycle(a) + 1 /\ Residue(b) - Residue(a) = (b - a) - SeqMod
  BY <1>2, Residues
<1> QED BY <1>1, <1>3, <1>2 DEF IsSequenceMoreRecent, Wraparound

LEMMA NotMoreRecent ==
  \A a, b \in Nat : b <= a /\ a - b <= (SeqMod - 1) \div 2 =>
    /\ ~IsSequenceMoreRecent(Residue(b), Residue(a), SeqMod)
    /\ ~Wraparound(Residue(a), Residue(b), SeqMod)
<1> SUFFICES ASSUME NEW a \in Nat, NEW b \in Nat, b <= a, a - b <= (SeqMod - 1) \div 2
             PROVE  /\ ~IsSequenceMoreRecent(Residue(b), Residue(a), SeqMod)
                    /\ ~Wraparound(Residue(a), Residue(b), SeqMod)
  OBVIOUS
<1>1. /\ Residue(a) \in 0 .. SeqMod - 1 /\ Residue(b) \in 0 .. SeqMod - 1
      /\ SeqMod \in Nat \ {0} /\ a - b < SeqMod
  BY Residues, WindowFits
<1>2. Residue(a) - Residue(b) = a - b \/ Residue(a) - Residue(b) = (a - b) - SeqMod
  BY <1>1, Residues
<1> QED BY <1>1, <1>2 DEF IsSequenceMoreRecent, Wraparound

(* A packet whose number a header acknowledges, and whose number is not    *)
(* beyond that of the newest packet, is in the cycle of the newest packet. *)
LEMMA Meaning ==
  ASSUME NEW S \in Nat, NEW N \in Nat, N <= S, S - N <= MaxGap + 1,
         NEW n \in Nat, n <= S, n > S - SeqMod, Residue(n) <= Residue(N),
         NEW m \in Nat, m = N \/ (m <= N /\ S - m <= MaxDelay),
         NEW i \in 0 .. AckWindow - 1, Residue(n) = Residue(m) - i
  PROVE  Cycle(n) = Cycle(N)
<1>1. /\ SeqMod \in Nat \ {0} /\ MaxDelay \in Nat /\ MaxGap \in Nat /\ AckWindow \in Nat
      /\ AckWindow <= (SeqMod \div 2) + 1
      /\ MaxDelay <= (SeqMod - 1) \div 2 /\ MaxGap + 1 <= (SeqMod - 1) \div 2
  BY AckTrackerAssumption
<1>2. /\ Residue(n) \in 0 .. SeqMod - 1 /\ Residue(N) \in 0 .. SeqMod - 1
      /\ Residue(m) \in 0 .. SeqMod - 1
  BY Residues
<1>3. CASE n <= N
  <2>1. N - n < SeqMod BY <1>1, <1>3
  <2>2. \/ Cycle(N) = Cycle(n) \/ Residue(N) - Residue(n) = (N - n) - SeqMod
    BY <1>3, <2>1, Residues
  <2>3. Residue(N) - Residue(n) # (N - n) - SeqMod BY <1>1, <1>2, <2>1
  <2> QED BY <2>2, <2>3
<1>4. CASE N < n
  <2>1. n - N <= (SeqMod - 1) \div 2 BY <1>1, <1>4
  <2>2. m < n /\ n - m <= (SeqMod - 1) \div 2 /\ n - m < SeqMod BY <1>1, <1>4, <2>1
  <2>3. Residue(n) - Residue(m) = n - m \/ Residue(n) - Residue(m) = (n - m) - SeqMod
    BY <2>2, Residues
  <2>4. i = SeqMod - (n - m) BY <1>1, <1>2, <2>2, <2>3
  <2> QED BY <1>1, <2>2, <2>4
<1> QED BY <1>3, <1>4

-----------------------------------------------------------------------------
(* The steps.                                                              *)

LEMMA LatestIs ==
  ASSUME NEW G, G \subseteq Nat, NEW m \in G, \A o \in G : o <= m
  PROVE  (CHOOSE n \in G : \A o \in G : o <= n) = m
<1> DEFINE c == CHOOSE n \in G : \A o \in G : o <= n
<1>1. \E x \in G : \A o \in G : o <= x OBVIOUS
<1>2. c \in G /\ \A o \in G : o <= c BY <1>1, Zenon
<1> HIDE DEF c
<1>3. c = m BY <1>2
<1> QED BY <1>3 DEF c

LEMMA InitTrack == Init => TrackInv
<1> SUFFICES ASSUME Init PROVE TrackInv OBVIOUS
<1>1. Newest = 0 BY DEF Init, Newest
<1>2. LastIsNewest
  <2>1. 0 % SeqMod = 0 BY WindowFits
  <2> QED BY <1>1, <2>1 DEF Init, LastIsNewest
<1> QED BY <1>1, <1>2, WindowFits DEF Init, TrackInv, WindowInv, AllMarked, KeysOfCycle, Recent

(* A packet that has just been sent has a number of the next cycle, or one *)
(* beyond all those of the map.                                            *)
LEMMA SendKeeps ==
  ASSUME TrackInv, ClientSend
  PROVE  TrackInv'
<1>1. /\ sent \in Nat /\ sent' = sent + 1 /\ sent - Newest <= MaxGap
      /\ got' = got \cap Recent(sent')
      /\ UNCHANGED <<lastClientSequence, recvdPacketSeqs, late>>
      /\ Newest \in Nat /\ Newest <= sent /\ \A n \in got : n <= Newest
  BY DEF TrackInv, WindowInv, ClientSend
<1>2. Newest' = Newest /\ (Newest \in got' \/ (got' = {} /\ Newest = 0))
  <2>1. CASE Newest \in got
    <3>1. Newest \in Recent(sent')
      BY <1>1, <2>1, WindowFits DEF TrackInv, WindowInv, Recent
    <3>2. Newest \in got' BY <1>1, <2>1, <3>1
    <3>3. got' \subseteq Nat /\ \A o \in got' : o <= Newest BY <1>1 DEF Recent
    <3>4. (CHOOSE n \in got' : \A o \in got' : o <= n) = Newest
      BY <3>2, <3>3, LatestIs
    <3>5. Newest' = Newest BY <3>2, <3>4 DEF Newest
    <3> QED BY <3>2, <3>5
  <2>2. CASE got = {} /\ Newest = 0
    BY <1>1, <2>2 DEF Newest
  <2> QED BY <2>1, <2>2 DEF TrackInv, WindowInv
<1>3. WindowInv'
  BY <1>1, <1>2, WindowFits DEF WindowInv, Recent
<1>4. LastIsNewest' /\ AllMarked'
  BY <1>1, <1>2 DEF TrackInv, LastIsNewest, AllMarked
<1>5. ASSUME NEW k \in DOMAIN recvdPacketSeqs \ late
      PROVE  /\ k <= lastClientSequence
             /\ \A n \in Recent(sent') : Cycle(n) = Cycle(Newest) /\ Residue(n) = k => n \in got'
  <2>1. /\ k \in 0 .. SeqMod - 1 /\ k <= lastClientSequence
        /\ \A n \in Recent(sent) : Cycle(n) = Cycle(Newest) /\ Residue(n) = k => n \in got
    BY DEF TrackInv, KeysOfCycle, AllMarked
  <2>2. lastClientSequence = Residue(Newest) BY DEF TrackInv, LastIsNewest, Residue
  <2>3. ASSUME NEW n \in Recent(sent'), Cycle(n) = Cycle(Newest), Residue(n) = k
        PROVE  n \in got'
    <3>1. n \in Nat /\ n \in 1 .. sent + 1 /\ n > sent + 1 - SeqMod
      BY <1>1, <2>3, WindowFits DEF Recent
    <3>2. CASE n = sent + 1
      <4>1. n - Newest < SeqMod /\ Newest < n BY <1>1, <3>2, WindowFits
      <4>2. Cycle(Newest) \in Nat /\ Residue(Newest) \in Nat BY <1>1, Residues
      <4>3. Residue(n) - Residue(Newest) = n - Newest
        BY <1>1, <2>3, <3>1, <4>1, <4>2, Residues
      <4>4. k > lastClientSequence BY <1>1, <2>2, <2>3, <4>1, <4>2, <4>3, <2>1, <3>1
      <4> QED BY <2>1, <2>2, <4>2, <4>4
    <3>3. CASE n # sent + 1
      <4>1. n \in Recent(sent) BY <1>1, <3>1, <3>3, WindowFits DEF Recent
      <4> QED BY <1>1, <2>1, <2>3, <4>1
    <3> QED BY <3>2, <3>3
  <2> QED BY <2>1, <2>3
<1>6. KeysOfCycle'
  BY <1>1, <1>2, <1>5 DEF KeysOfCycle, Cycle
<1> QED BY <1>3, <1>4, <1>6 DEF TrackInv

(* What a flush leaves in the map and in the headers, given that it hands  *)
(* out all that is not acknowledged yet.                                   *)
GivenBy(given, recvd) ==
  /\ DOMAIN recvd \subseteq 0 .. SeqMod - 1 /\ given \subseteq 0 .. SeqMod - 1
  /\ \A s \in DOMAIN recvd : recvd[s] \in BOOLEAN
  /\ Unacked(recvd) \subseteq given

LEMMA AllGiven ==
  ASSUME NEW given, NEW recvd, GivenBy(given, recvd), Acknowledge(given, recvd)
  PROVE  /\ AllMarked'
         /\ DOMAIN recvdPacketSeqs' = DOMAIN recvd \cup (given \ {0})
BY DEF GivenBy, Acknowledge, AcksGiven, Unacked, AllMarked

LEMMA AckedKeys ==
  ASSUME NEW given, NEW recvd, GivenBy(given, recvd), Acknowledge(given, recvd),
         NEW n \in acked', sent \in Nat
  PROVE  /\ n \in Recent(sent)
         /\ \E r \in given, i \in 0 .. AckWindow - 1 :
              r - i \in DOMAIN recvdPacketSeqs' /\ Residue(n) = r - i
<1>0. PICK r \in given : \E i \in GetAckBits(recvdPacketSeqs', r, AckWindow) : n \in Meant(r - i)
  BY DEF Acknowledge
<1>1. PICK i \in GetAckBits(recvdPacketSeqs', r, AckWindow) : n \in Meant(r - i)
  BY <1>0
<1>2. /\ i \in 0 .. AckWindow - 1 /\ Uint16(r - i) \in DOMAIN recvdPacketSeqs'
      /\ n \in Recent(sent) /\ n % SeqMod = (r - i) % SeqMod
  BY <1>1 DEF GetAckBits, Meant
<1>3. r \in 0 .. SeqMod - 1 /\ Uint16(r - i) \in 0 .. SeqMod - 1
  BY <1>2, AllGiven DEF AllMarked, GivenBy
<1>4. r - i \in 0 .. SeqMod - 1 /\ Uint16(r - i) = r - i
  BY <1>2, <1>3, WindowFits DEF Uint16
<1>5. (r - i) % SeqMod = r - i BY <1>4, WindowFits
<1> QED BY <1>2, <1>4, <1>5 DEF Residue

(* What an arrival does to the numbers.                                    *)
LEMMA ArrivalNumbers ==
  ASSUME TrackInv, NEW n \in Recent(sent), sent - n <= MaxDelay,
         got' = got \cup {n}, sent' = sent,
         lastClientSequence' = LastAfter(lastClientSequence, Residue(n), SeqMod)
  PROVE  /\ WindowInv' /\ LastIsNewest'
         /\ Newest' = IF n > Newest THEN n ELSE Newest
         /\ Wraparound(lastClientSequence, Residue(n), SeqMod)
              <=> n > Newest /\ Cycle(n) # Cycle(Newest)
<1>1. /\ sent \in Nat /\ Newest \in Nat /\ Newest <= sent /\ sent - Newest <= MaxGap + 1
      /\ got \subseteq Recent(sent) /\ \A o \in got : o <= Newest
      /\ Newest \in got \/ (got = {} /\ Newest = 0)
      /\ lastClientSequence = Residue(Newest)
  BY DEF TrackInv, WindowInv, LastIsNewest, Residue
<1>2. n \in Nat /\ n >= 1 /\ n <= sent /\ n > sent - SeqMod
  BY <1>1, WindowFits DEF Recent
<1>3. got' \subseteq Nat BY <1>1 DEF Recent
<1>4. CASE n > Newest
  <2>1. n \in got' /\ \A o \in got' : o <= n BY <1>1, <1>2, <1>3, <1>4
  <2>2. (CHOOSE x \in got' : \A o \in got' : o <= x) = n BY <2>1, <1>3, LatestIs
  <2>3. Newest' = n BY <2>1, <2>2 DEF Newest
  <2>4. n - Newest <= (SeqMod - 1) \div 2 BY <1>1, <1>2, WindowFits
  <2>5. /\ IsSequenceMoreRecent(Residue(n), lastClientSequence, SeqMod)
        /\ Wraparound(lastClientSequence, Residue(n), SeqMod) <=> Cycle(n) # Cycle(Newest)
    BY <1>1, <1>2, <1>4, <2>4, MoreRecent
  <2>6. LastIsNewest' BY <2>3, <2>5 DEF LastIsNewest, LastAfter, Residue
  <2>7. WindowInv'
    BY <1>1, <1>2, <1>4, <2>1, <2>3, WindowFits DEF WindowInv, Recent
  <2> QED BY <1>4, <2>3, <2>5, <2>6, <2>7
<1>5. CASE ~(n > Newest)
  <2>1. Newest \in got BY <1>1, <1>2, <1>5
  <2>2. Newest \in got' /\ \A o \in got' : o <= Newest BY <1>1, <1>2, <1>5, <2>1
  <2>3. (CHOOSE x \in got' : \A o \in got' : o <= x) = Newest BY <2>2, <1>3, LatestIs
  <2>4. Newest' = Newest BY <2>2, <2>3 DEF Newest
  <2>5. n <= Newest /\ Newest - n <= (SeqMod - 1) \div 2 BY <1>1, <1>2, <1>5, WindowFits
  <2>6. /\ ~IsSequenceMoreRecent(Residue(n), lastClientSequence, SeqMod)
        /\ ~Wraparound(lastClientSequence, Residue(n), SeqMod)
    BY <1>1, <1>2, <2>5, NotMoreRecent
  <2>7. LastIsNewest' BY <1>1, <2>4, <2>6 DEF LastIsNewest, LastAfter, Residue
  <2>8. WindowInv' BY <1>1, <2>2, <2>4 DEF WindowInv
  <2> QED BY <1>5, <2>4, <2>6, <2>7, <2>8
<1> QED BY <1>4, <1>5

(* What an arrival does to the map before the flush.                       *)
Recvd(n) == RecvdAfter(recvdPacketSeqs, lastClientSequence, Residue(n), SeqMod)

Wraps(n) == Wraparound(lastClientSequence, Residue(n), SeqMod)

LEMMA ArrivalMap ==
  ASSUME TrackInv, NEW n \in Recent(sent)
  PROVE  /\ DOMAIN Recvd(n) = (IF Wraps(n) THEN {} ELSE DOMAIN recvdPacketSeqs) \cup {Residue(n)}
         /\ \A s \in DOMAIN Recvd(n) : Recvd(n)[s] \in BOOLEAN
         /\ Unacked(Recvd(n)) \subseteq {Residue(n)}
         /\ Residue(n) \in Unacked(Recvd(n)) \/ (~Wraps(n) /\ Residue(n) \in DOMAIN recvdPacketSeqs)
         /\ DOMAIN Recvd(n) \subseteq 0 .. SeqMod - 1
<1>1. Residue(n) \in 0 .. SeqMod - 1 BY Residues DEF Recent
<1>2. AllMarked BY DEF TrackInv
<1> QED BY <1>1, <1>2 DEF Recvd, RecvdAfter, Wraps, Unacked, AllMarked

(* The arrival of one packet: the steps of HandlePacket, taken apart.      *)
Arrived(n) ==
  /\ got' = got \cup {n} /\ sent' = sent
  /\ lastClientSequence' = LastAfter(lastClientSequence, Residue(n), SeqMod)
  /\ \E more \in {{}, {lastClientSequence'}} :
       Acknowledge(Unacked(Recvd(n)) \cup more, Recvd(n))
  /\ Wraps(n) => late' = {}
  /\ ~Wraps(n) => /\ late \subseteq late'
                  /\ Cycle(n) < Cycle(Newest) => Residue(n) \in late'

LEMMA ArrivedBy ==
  ASSUME NEW n \in Recent(sent), HandlePacket(n)
  PROVE  Arrived(n)
BY DEF HandlePacket, Arrived, Recvd, Residue, Wraps, OfEarlierCycles, Cycle

LEMMA ArrivedKeys ==
  ASSUME TrackInv, NEW n \in Recent(sent), sent - n <= MaxDelay, Arrived(n)
  PROVE  /\ AllMarked' /\ DOMAIN Recvd(n) \subseteq DOMAIN recvdPacketSeqs'
         /\ DOMAIN recvdPacketSeqs' \subseteq DOMAIN Recvd(n) \cup {lastClientSequence'}
         /\ Unacked(Recvd(n)) \cup {lastClientSequence'} \subseteq 0 .. SeqMod - 1
         /\ \A x \in acked' :
              /\ x \in Recent(sent)
              /\ \E r \in {Residue(n), lastClientSequence'}, i \in 0 .. AckWindow - 1 :
                   r - i \in DOMAIN recvdPacketSeqs' /\ Residue(x) = r - i
         /\ n \in got \/ n \in acked' \/ (~Wraps(n) /\ Residue(n) \in DOMAIN recvdPacketSeqs)
<1>1. PICK more \in {{}, {lastClientSequence'}} :
        Acknowledge(Unacked(Recvd(n)) \cup more, Recvd(n))
  BY DEF Arrived
<1> DEFINE given == Unacked(Recvd(n)) \cup more
<1>2. lastClientSequence' \in 0 .. SeqMod - 1
  <2>1. WindowInv' /\ LastIsNewest' BY ArrivalNumbers DEF Arrived
  <2>2. Newest' \in Nat BY <2>1 DEF WindowInv
  <2>3. lastClientSequence' = Residue(Newest') BY <2>1 DEF LastIsNewest, Residue
  <2> HIDE DEF given
  <2> QED BY <2>2, <2>3, Residues
<1>3. Residue(n) \in 0 .. SeqMod - 1 BY Residues DEF Recent
<1>4. GivenBy(given, Recvd(n)) BY <1>2, <1>3, ArrivalMap DEF GivenBy
<1>5. Acknowledge(given, Recvd(n)) BY <1>1
<1>6. sent \in Nat BY DEF TrackInv, WindowInv
<1>7. given \subseteq {Residue(n), lastClientSequence'} BY ArrivalMap
<1>8. AllMarked' /\ DOMAIN recvdPacketSeqs' = DOMAIN Recvd(n) \cup (given \ {0})
  <2> HIDE DEF given
  <2> QED BY <1>4, <1>5, AllGiven
<1>9. ASSUME NEW x \in acked'
      PROVE  /\ x \in Recent(sent)
             /\ \E r \in {Residue(n), lastClientSequence'}, i \in 0 .. AckWindow - 1 :
                  r - i \in DOMAIN recvdPacketSeqs' /\ Residue(x) = r - i
  <2> HIDE DEF given
  <2>1. /\ x \in Recent(sent)
        /\ \E r \in given, i \in 0 .. AckWindow - 1 :
             r - i \in DOMAIN recvdPacketSeqs' /\ Residue(x) = r - i
    BY <1>4, <1>5, <1>6, AckedKeys
  <2> QED BY <1>7, <2>1
<1>10. Residue(n) \in Unacked(Recvd(n)) => n \in acked'
  <2> SUFFICES ASSUME Residue(n) \in Unacked(Recvd(n)) PROVE n \in acked' OBVIOUS
  <2>1. Residue(n) \in given OBVIOUS
  <2>2. Residue(n) \in DOMAIN recvdPacketSeqs' BY <1>8 DEF Unacked
  <2>3. Uint16(Residue(n) - 0) = Residue(n) BY <1>3, WindowFits DEF Uint16
  <2>4. 0 \in GetAckBits(recvdPacketSeqs', Residue(n), AckWindow)
    BY <2>2, <2>3, WindowFits DEF GetAckBits
  <2>5. n \in Meant(Residue(n) - 0)
    <3>1. (Residue(n) - 0) % SeqMod = Residue(n) BY <1>3, WindowFits
    <3> QED BY <3>1 DEF Meant, Residue
  <2> HIDE DEF given
  <2>6. acked' = UNION {UNION {Meant(r - i) : i \in GetAckBits(recvdPacketSeqs', r, AckWindow)} :
                          r \in given}
    BY <1>5 DEF Acknowledge
  <2> QED BY <2>1, <2>4, <2>5, <2>6
<1> QED BY <1>2, <1>3, <1>7, <1>8, <1>9, <1>10, ArrivalMap

LEMMA ArrivalKeeps ==
  ASSUME TrackInv, NEW n \in Recent(sent), sent - n <= MaxDelay, Arrived(n)
  PROVE  /\ TrackInv' /\ HonestAcks'
         /\ n \in got \/ n \in acked' \/ Residue(n) \in late
<1> DEFINE last == lastClientSequence'
           N    == Newest'
           keys == DOMAIN recvdPacketSeqs'
<1>0. SeqMod \in Nat BY WindowFits
<1>1. /\ WindowInv' /\ LastIsNewest' /\ N = IF n > Newest THEN n ELSE Newest
      /\ Wraps(n) <=> n > Newest /\ Cycle(n) # Cycle(Newest)
      /\ got' = got \cup {n} /\ sent' = sent
  BY ArrivalNumbers, Zenon DEF Arrived, Wraps
<1>2. /\ sent \in Nat /\ Newest \in Nat /\ Newest <= sent /\ sent - Newest <= MaxGap + 1
      /\ N \in Nat /\ N <= sent /\ sent - N <= MaxGap + 1 /\ N \in got' /\ last = Residue(N)
  BY <1>1 DEF TrackInv, WindowInv, LastIsNewest, Residue
<1>3. /\ n \in Nat /\ n <= sent /\ n > sent - SeqMod /\ n <= N
      /\ Residue(n) \in 0 .. SeqMod - 1 /\ Residue(N) \in 0 .. SeqMod - 1
  BY <1>1, <1>2, Residues, WindowFits DEF Recent
<1>4. N - n < SeqMod
  <2>1. N \in Nat /\ sent \in Nat /\ N <= sent BY <1>2
  <2>2. n \in Nat /\ n > sent - SeqMod BY <1>3
  <2> HIDE DEF N
  <2> QED BY <1>0, <2>1, <2>2
<1>5. /\ AllMarked' /\ keys \subseteq DOMAIN Recvd(n) \cup {last}
      /\ \A x \in acked' :
           /\ x \in Recent(sent)
           /\ \E r \in {Residue(n), last}, i \in 0 .. AckWindow - 1 :
                r - i \in keys /\ Residue(x) = r - i
      /\ n \in got \/ n \in acked' \/ (~Wraps(n) /\ Residue(n) \in DOMAIN recvdPacketSeqs)
  BY ArrivedKeys
<1>6. keys \subseteq (IF Wraps(n) THEN {} ELSE DOMAIN recvdPacketSeqs) \cup {Residue(n), last}
  BY <1>5, ArrivalMap
<1>7. Residue(n) \in late' \/ (Residue(n) <= last /\ Cycle(n) = Cycle(N))
  <2>1. CASE Cycle(n) = Cycle(N)
    <3>1. Residue(N) - Residue(n) = N - n
      <4>1. Cycle(n) \in Nat BY <1>3, Residues
      <4> QED BY <1>2, <1>3, <1>4, <2>1, <4>1, Residues
    <3> QED BY <1>2, <1>3, <2>1, <3>1
  <2>2. CASE Cycle(n) # Cycle(N)
    <3>1. N = Newest /\ ~Wraps(n) BY <1>1, <2>2
    <3>2. Cycle(n) < Cycle(N)
      <4>1. Cycle(n) \in Nat BY <1>3, Residues
      <4>2. Cycle(N) = Cycle(n) + 1 BY <1>2, <1>3, <1>4, <2>2, Residues
      <4> QED BY <4>1, <4>2
    <3> QED BY <3>1, <3>2 DEF Arrived
  <2> QED BY <2>1, <2>2
<1>8. \A x \in Recent(sent) : Cycle(x) = Cycle(N) /\ Residue(x) = Residue(n) /\ Cycle(n) = Cycle(N)
        => x \in got'
  <2> SUFFICES ASSUME NEW x \in Recent(sent), Cycle(x) = Cycle(n), Residue(x) = Residue(n)
               PROVE  x \in got'
    OBVIOUS
  <2>1. x \in Nat /\ x <= sent /\ x > sent - SeqMod BY <1>2, WindowFits DEF Recent
  <2>2. x = n BY <1>2, <1>3, <2>1, SamePacket
  <2> QED BY <1>1, <2>2
<1>9. \A x \in Recent(sent) : Cycle(x) = Cycle(N) /\ Residue(x) = last => x \in got'
  <2> SUFFICES ASSUME NEW x \in Recent(sent), Cycle(x) = Cycle(N), Residue(x) = Residue(N)
               PROVE  x \in got'
    BY <1>2
  <2>1. x \in Nat /\ x <= sent /\ x > sent - SeqMod BY <1>2, WindowFits DEF Recent
  <2>2. x = N BY <1>2, <1>3, <2>1, SamePacket, WindowFits
  <2> QED BY <1>2, <2>2
<1>10. ASSUME NEW k \in keys \ late'
      PROVE  /\ k <= last
             /\ \A x \in Recent(sent) : Cycle(x) = Cycle(N) /\ Residue(x) = k => x \in got'
  <2>1. CASE k = Residue(n) BY <1>7, <1>8, <2>1
  <2>2. CASE k = last BY <1>2, <1>3, <1>9, <2>2
  <2>3. CASE k \notin {Residue(n), last}
    <3>1. ~Wraps(n) /\ k \in DOMAIN recvdPacketSeqs \ late
      BY <1>6, <2>3 DEF Arrived
    <3>2. /\ k <= lastClientSequence
          /\ \A x \in Recent(sent) : Cycle(x) = Cycle(Newest) /\ Residue(x) = k => x \in got
      BY <3>1 DEF TrackInv, KeysOfCycle
    <3>3. lastClientSequence = Residue(Newest) BY DEF TrackInv, LastIsNewest, Residue
    <3>4. Cycle(N) = Cycle(Newest) BY <1>1, <3>1
    <3>5. Residue(Newest) <= Residue(N)
      <4>1. N \in Nat /\ Newest \in Nat /\ Newest <= N BY <1>1, <1>2
      <4>2. N - Newest < SeqMod
        <5>1. MaxGap + 1 < SeqMod /\ MaxGap \in Nat /\ SeqMod \in Nat BY WindowFits
        <5>2. sent \in Nat /\ N <= sent /\ sent - Newest <= MaxGap + 1 BY <1>2
        <5> HIDE DEF N
        <5> QED BY <4>1, <5>1, <5>2
      <4>3. Cycle(N) \in Nat /\ Residue(Newest) \in Nat /\ Residue(N) \in Nat
        BY <4>1, Residues
      <4>4. Residue(N) - Residue(Newest) = N - Newest
        BY <3>4, <4>1, <4>2, <4>3, Residues
      <4> HIDE DEF N
      <4> QED BY <4>1, <4>3, <4>4
    <3>6. k \in 0 .. SeqMod - 1
      <4>1. DOMAIN recvdPacketSeqs \subseteq 0 .. SeqMod - 1 BY DEF TrackInv, AllMarked
      <4> QED BY <3>1, <4>1
    <3>7. Residue(Newest) \in Nat BY <1>2, Residues
    <3>8. k <= last BY <1>2, <1>3, <3>2, <3>3, <3>5, <3>6, <3>7
    <3> QED BY <1>1, <3>2, <3>4, <3>8
  <2> QED BY <2>1, <2>2, <2>3
<1>11. KeysOfCycle'
  <2> HIDE DEF keys
  <2> QED BY <1>1, <1>10 DEF KeysOfCycle, keys, Cycle
<1>12. HonestAcks'
  <2> SUFFICES ASSUME NEW x \in acked' PROVE x \in got' \/ Residue(x) \in late'
    BY DEF HonestAcks, Residue
  <2>1. PICK r \in {Residue(n), last}, i \in 0 .. AckWindow - 1 :
          r - i \in keys /\ Residue(x) = r - i
    BY <1>5
  <2>2. x \in Recent(sent) BY <1>5
  <2>3. x \in Nat /\ x <= sent /\ x > sent - SeqMod BY <1>2, <2>2, WindowFits DEF Recent
  <2>4. CASE Residue(x) \in keys \ late'
    <3>1. Residue(x) <= Residue(N) BY <1>2, <1>10, <2>4
    <3>2. \E m \in {n, N} : Residue(x) = Residue(m) - i BY <1>2, <2>1
    <3>3. Cycle(x) = Cycle(N)
      BY <1>2, <1>3, <2>3, <3>1, <3>2, Meaning
    <3> QED BY <1>10, <2>2, <2>4, <3>3
  <2> QED BY <2>1, <2>4
<1>13. n \in got \/ n \in acked' \/ Residue(n) \in late
  <2> SUFFICES ASSUME ~Wraps(n), Residue(n) \in DOMAIN recvdPacketSeqs \ late
               PROVE  n \in got
    BY <1>5
  <2>1. /\ Residue(n) <= lastClientSequence
        /\ \A x \in Recent(sent) : Cycle(x) = Cycle(Newest) /\ Residue(x) = Residue(n) => x \in got
    BY DEF TrackInv, KeysOfCycle
  <2>2. Cycle(n) = Cycle(Newest)
    <3>1. CASE n <= Newest
      <4>1. Newest - n < SeqMod BY <1>0, <1>2, <1>3, <3>1
      <4>2. Residue(n) <= Residue(Newest) BY <2>1 DEF TrackInv, LastIsNewest, Residue
      <4>3. Residue(Newest) \in 0 .. SeqMod - 1 BY <1>2, Residues
      <4> QED BY <1>0, <1>2, <1>3, <3>1, <4>1, <4>2, <4>3, Residues
    <3> QED BY <1>1, <1>2, <1>3, <3>1
  <2> QED BY <2>1, <2>2
<1> QED BY <1>1, <1>5, <1>11, <1>12, <1>13 DEF TrackInv

(* CheckAndResend acknowledges the newest packet once more.                *)
LEMMA ResendKeeps ==
  ASSUME TrackInv, CheckAndResend
  PROVE  TrackInv' /\ HonestAcks'
<1> DEFINE keys == DOMAIN recvdPacketSeqs'
<1>0. SeqMod \in Nat BY WindowFits
<1>1. /\ UNCHANGED <<sent, got, lastClientSequence, late>> /\ Newest' = Newest
      /\ Acknowledge({lastClientSequence}, recvdPacketSeqs)
  BY DEF CheckAndResend, Newest
<1>2. /\ sent \in Nat /\ Newest \in Nat /\ Newest <= sent /\ sent - Newest <= MaxGap + 1
      /\ lastClientSequence = Residue(Newest) /\ Residue(Newest) \in 0 .. SeqMod - 1
  BY Residues DEF TrackInv, WindowInv, LastIsNewest, Residue
<1>3. WindowInv' /\ LastIsNewest' BY <1>1 DEF TrackInv, WindowInv, LastIsNewest
<1>4. GivenBy({lastClientSequence}, recvdPacketSeqs)
  BY <1>2 DEF TrackInv, AllMarked, GivenBy, Unacked
<1>5. AllMarked' /\ keys = DOMAIN recvdPacketSeqs \cup ({lastClientSequence} \ {0})
  BY <1>1, <1>4, AllGiven
<1>6. ASSUME NEW k \in keys \ late
      PROVE  /\ k <= lastClientSequence
             /\ \A x \in Recent(sent) : Cycle(x) = Cycle(Newest) /\ Residue(x) = k => x \in got
  <2>1. CASE k \in DOMAIN recvdPacketSeqs BY <1>6, <2>1 DEF TrackInv, KeysOfCycle
  <2>2. CASE k = lastClientSequence /\ k # 0
    <3>1. Newest \in got
      <4>1. Residue(0) = 0 BY WindowFits DEF Residue
      <4> QED BY <1>2, <2>2, <4>1 DEF TrackInv, WindowInv
    <3>2. ASSUME NEW x \in Recent(sent), Cycle(x) = Cycle(Newest), Residue(x) = k
          PROVE  x \in got
      <4>1. x \in Nat BY <1>2 DEF Recent
      <4> QED BY <1>2, <2>2, <3>1, <3>2, <4>1, SamePacket
    <3> QED BY <1>2, <2>2, <3>2
  <2> QED BY <1>5, <2>1, <2>2
<1>7. KeysOfCycle'
  <2> HIDE DEF keys
  <2> QED BY <1>1, <1>6 DEF KeysOfCycle, keys, Cycle
<1>8. HonestAcks'
  <2> SUFFICES ASSUME NEW x \in acked' PROVE x \in got' \/ Residue(x) \in late'
    BY DEF HonestAcks, Residue
  <2>1. /\ x \in Recent(sent)
        /\ \E r \in {lastClientSequence}, i \in 0 .. AckWindow - 1 :
             r - i \in keys /\ Residue(x) = r - i
    BY <1>1, <1>2, <1>4, AckedKeys
  <2>2. PICK i \in 0 .. AckWindow - 1 :
          Residue(x) \in keys /\ Residue(x) = Residue(Newest) - i
    BY <1>2, <2>1
  <2>3. x \in Nat /\ x <= sent /\ x > sent - SeqMod BY <1>0, <1>2, <2>1 DEF Recent
  <2>4. CASE Residue(x) \notin late
    <3>1. Residue(x) <= Residue(Newest) BY <1>2, <1>6, <2>2, <2>4
    <3>2. Cycle(x) = Cycle(Newest) BY <1>2, <2>2, <2>3, <3>1, Meaning
    <3> QED BY <1>1, <1>6, <2>1, <2>2, <2>4, <3>2
  <2> QED BY <1>1, <2>4
<1> QED BY <1>3, <1>5, <1>7, <1>8 DEF TrackInv

-----------------------------------------------------------------------------
IInv == TrackInv /\ HonestAcks

LEMMA Step ==
  ASSUME IInv, [Next]_vars
  PROVE  /\ IInv'
         /\ \A n \in got' \ got : n \in acked' \/ n % SeqMod \in late
<1> USE DEF IInv
<1>1. CASE ClientSend
  <2>1. got' \subseteq got /\ acked' = {} BY <1>1 DEF ClientSend
  <2>2. HonestAcks' BY <2>1 DEF HonestAcks
  <2> QED BY <1>1, <2>1, <2>2, SendKeeps
<1>2. ASSUME NEW n \in Recent(sent), sent - n <= MaxDelay, HandlePacket(n)
      PROVE  /\ IInv' /\ \A x \in got' \ got : x \in acked' \/ x % SeqMod \in late
  <2>1. Arrived(n) BY <1>2, ArrivedBy
  <2>2. /\ TrackInv' /\ HonestAcks'
        /\ n \in got \/ n \in acked' \/ Residue(n) \in late
    BY <1>2, <2>1, ArrivalKeeps
  <2>3. got' = got \cup {n} BY <2>1 DEF Arrived
  <2> QED BY <2>2, <2>3 DEF Residue
<1>3. CASE CheckAndResend
  <2>1. got' = got BY <1>3 DEF CheckAndResend
  <2> QED BY <1>3, <2>1, ResendKeeps
<1>4. CASE UNCHANGED vars
  <2>1. /\ sent' = sent /\ got' = got /\ lastClientSequence' = lastClientSequence
        /\ recvdPacketSeqs' = recvdPacketSeqs /\ acked' = acked /\ late' = late
        /\ Newest' = Newest
    BY <1>4 DEF vars, Newest
  <2> QED BY <2>1 DEF TrackInv, WindowInv, LastIsNewest, AllMarked, KeysOfCycle, HonestAcks,
                      Cycle
<1> QED BY <1>1, <1>2, <1>3, <1>4 DEF Next, Arrival

THEOREM Invariant == Spec => []IInv
<1>1. Init => IInv BY InitTrack DEF IInv, Init, HonestAcks
<1>2. IInv /\ [Next]_vars => IInv' BY Step
<1> QED BY <1>1, <1>2, PTL DEF Spec

(* m_lastClientSequence is always the number of the latest packet, for     *)
(* every range of numbers, and however long the session is.                *)
THEOREM NewestIsKnown == Spec => []LastIsNewest
<1>1. IInv => LastIsNewest BY DEF IInv, TrackInv
<1> QED BY <1>1, Invariant, PTL

(* The headers acknowledge only what was received, or has the number of a  *)
(* packet that came in late over a wraparound.                             *)
THEOREM AcksAreHonest == Spec => []HonestAcks
<1>1. IInv => HonestAcks BY DEF IInv
<1> QED BY <1>1, Invariant, PTL

(* A packet that arrives for the first time is acknowledged at once, with  *)
(* the same exception.                                                     *)
THEOREM FirstArrivalIsAcked == Spec => FirstArrivalAcked
<1>1. IInv /\ [Next]_vars => [\A n \in got' \ got : n \in acked' \/ n % SeqMod \in late]_vars
  BY Step
<1> QED BY <1>1, Invariant, PTL DEF Spec, FirstArrivalAcked
=============================================================================
