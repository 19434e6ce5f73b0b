---------------------------- MODULE Session_proofs ----------------------------
(***************************************************************************)
(* Theorems about Session.  PlayerOwned alone is not inductive: a second   *)
(* first packet of a client would orphan its object.  That there is none   *)
(* follows from FirstOnce, which says that a valid client without a        *)
(* session has an object only while its first packet is being handled.     *)
(***************************************************************************)
EXTENDS Session, TLAPS

(* What is gone has left nothing behind.                                   *)
GoneInv == \A a \in Addresses : ~clients[a].exists => clients[a] = NoClient

(* Object ids are given out in turn.                                       *)
FreshInv == \A g \in GoIds : g > players => owner[g] = NoAddress

(* The client whose first packet is being handled is valid and has no      *)
(* session yet.                                                            *)
HandledInv ==
  game.step # "none" =>
    /\ game.addr \in Addresses
    /\ clients[game.addr].exists /\ clients[game.addr].valid
    /\ clients[game.addr].goId # 0
    /\ ~clients[game.addr].encryptionInitialized

FirstOnce ==
  \A a \in Addresses :
    clients[a].valid /\ ~clients[a].encryptionInitialized /\ clients[a].goId # 0
      => game.step # "none" /\ game.addr = a

(* A margin connection is ready for UDP, or about to be, only with a       *)
(* session.                                                                *)
ReadyInv ==
  \A h \in Handles :
    /\ margin[h].sessionId \in 0 .. sessions
    /\ margin[h].readyForUdp \/ margin[h].load = "reply" => margin[h].sessionId # 0

(* Between the lookup of the session and the question whether the margin   *)
(* connection is ready, that may draw a session, or go and be replaced.    *)
LookedUp ==
  game.step = "ready" =>
    LET c == clients[game.addr] IN
    /\ c.sessionId \in 0 .. c.known /\ c.known <= sessions
    /\ \A h \in game.found :
         \/ margin[h].sessionId \in {0, c.sessionId}
         \/ margin[h].sessionId > c.known

IInv ==
  /\ TypeOK /\ GoneInv /\ FreshInv /\ HandledInv /\ FirstOnce /\ ReadyInv /\ LookedUp
  /\ PlayerOwned /\ OwnSession

(* What OwnSession says of one client.                                     *)
Own(c) ==
  /\ c.told \in 1 .. sessions
  /\ c.sessionId = c.told \/ (c.sessionId <= c.known /\ c.known < c.told)

-----------------------------------------------------------------------------
LEMMA InitInv == Init => IInv
<1> SUFFICES ASSUME Init PROVE IInv
  OBVIOUS
<1>1. NoClient \in Clients /\ NoClient.goId = 0
      /\ ~NoClient.encryptionInitialized /\ ~NoClient.valid
  BY SessionAssumption DEF NoClient, Clients, CharacterIds
<1>2. NoSocket \in Sockets /\ ~NoSocket.readyForUdp /\ NoSocket.load = "no"
      /\ NoSocket.sessionId = 0
  BY SessionAssumption DEF NoSocket, Sockets, CharacterIds
<1>3. TypeOK
  <2>1. margin \in [Handles -> Sockets] /\ clients \in [Addresses -> Clients]
    BY <1>1, <1>2 DEF Init
  <2>2. owner \in [GoIds -> Addresses \cup {NoAddress}] /\ crashed \in BOOLEAN
    BY DEF Init
  <2>3. sessions \in 0 .. MaxSessions /\ players \in 0 .. MaxPlayers
    BY SessionAssumption DEF Init
  <2>4. game \in [addr : Addresses \cup {NoAddress}, step : {"none", "find", "session", "ready"},
                  found : SUBSET Handles]
    BY DEF Init, Waiting
  <2> QED BY <2>1, <2>2, <2>3, <2>4 DEF TypeOK
<1>4. GoneInv /\ FirstOnce /\ OwnSession /\ ReadyInv /\ HandledInv /\ LookedUp
  BY <1>1, <1>2 DEF Init, GoneInv, FirstOnce, OwnSession, ReadyInv, HandledInv, LookedUp, Waiting
<1>5. FreshInv /\ PlayerOwned
  BY <1>1 DEF Init, FreshInv, PlayerOwned
<1> QED BY <1>3, <1>4, <1>5 DEF IInv

(* A step of the margin server alone, on one socket: the game sees none of *)
(* it, no session is taken back, and a new one is newer than all before.   *)
LEMMA OneSocket ==
  ASSUME IInv, UNCHANGED gameVars, NEW h \in Handles, NEW s \in Sockets,
         margin' = [margin EXCEPT ![h] = s],
         sessions' \in 0 .. MaxSessions, sessions <= sessions', s.sessionId \in 0 .. sessions',
         s.sessionId \in {0, margin[h].sessionId} \/ s.sessionId > sessions,
         s.readyForUdp \/ s.load = "reply" => s.sessionId # 0
  PROVE  IInv'
<1>1. sessions \in Nat /\ sessions' \in Nat
  BY SessionAssumption DEF IInv, TypeOK
<1>2. \A n : n \in 0 .. sessions => n \in 0 .. sessions'
  BY <1>1
<1>3. margin'[h] = s /\ \A i \in Handles : i # h => margin'[i] = margin[i]
  BY DEF IInv, TypeOK
<1>4. TypeOK'
  BY DEF IInv, TypeOK, gameVars
<1>5. ReadyInv'
  BY <1>2, <1>3 DEF IInv, ReadyInv
<1>6. OwnSession'
  BY <1>1 DEF IInv, OwnSession, gameVars
<1>7. LookedUp'
  <2> SUFFICES ASSUME game.step = "ready" PROVE LookedUp'
    BY DEF LookedUp, gameVars
  <2> DEFINE c == clients[game.addr]
  <2>1. c \in Clients /\ game.found \subseteq Handles
    BY DEF IInv, TypeOK, HandledInv
  <2>2. c.known \in Nat /\ c.known <= sessions /\ c.sessionId \in 0 .. c.known
    BY <2>1, SessionAssumption DEF IInv, LookedUp, Clients
  <2>3. ASSUME NEW i \in game.found
        PROVE  margin'[i].sessionId \in {0, c.sessionId} \/ margin'[i].sessionId > c.known
    <3>1. margin[i].sessionId \in {0, c.sessionId} \/ margin[i].sessionId > c.known
      BY DEF IInv, LookedUp
    <3>2. CASE i # h
      BY <1>3, <2>1, <3>1, <3>2
    <3>3. CASE i = h
      <4>1. CASE s.sessionId \in {0, margin[h].sessionId}
        BY <1>3, <3>1, <3>3, <4>1
      <4>2. CASE s.sessionId > sessions
        BY <1>1, <1>3, <2>2, <3>3, <4>2
      <4> QED BY <4>1, <4>2
    <3> QED BY <3>2, <3>3
  <2>4. c.known <= sessions'
    BY <1>1, <2>2
  <2> QED BY <2>2, <2>3, <2>4 DEF LookedUp, gameVars
<1>8. GoneInv' /\ FreshInv' /\ HandledInv' /\ FirstOnce' /\ PlayerOwned'
  BY DEF IInv, GoneInv, FreshInv, HandledInv, FirstOnce, PlayerOwned, gameVars
<1> QED BY <1>4, <1>5, <1>6, <1>7, <1>8 DEF IInv

LEMMA MarginStepInv ==
  ASSUME IInv, NEW h \in Handles, MarginStep(h)
  PROVE  IInv'
<1> DEFINE m == margin[h]
<1>1. /\ m \in Sockets /\ margin \in [Handles -> Sockets]
      /\ sessions \in 0 .. MaxSessions /\ sessions \in Nat /\ sessions <= sessions
      /\ m.sessionId \in 0 .. sessions
      /\ m.readyForUdp \/ m.load = "reply" => m.sessionId # 0
  BY SessionAssumption DEF IInv, TypeOK, ReadyInv
<1>2. NoSocket \in Sockets /\ ~NoSocket.readyForUdp /\ NoSocket.load = "no"
      /\ NoSocket.sessionId = 0 /\ 0 \in 0 .. sessions
  BY <1>1, SessionAssumption DEF NoSocket, Sockets, CharacterIds
(* Most steps keep the session of the socket and its readiness.            *)
<1>3. ASSUME NEW s \in Sockets, margin' = [margin EXCEPT ![h] = s],
             s.readyForUdp = m.readyForUdp, s.sessionId = m.sessionId, s.load # "reply",
             UNCHANGED <<sessions, gameVars>>
      PROVE  IInv'
  BY <1>1, <1>3, OneSocket
<1>4. CASE Accept(h)
  <2> DEFINE s == [NoSocket EXCEPT !.open = TRUE, !.exists = TRUE]
  <2>1. s \in Sockets /\ ~s.readyForUdp /\ s.load = "no" /\ s.sessionId = 0
    BY <1>2 DEF Sockets
  <2>2. margin' = [margin EXCEPT ![h] = s] /\ UNCHANGED <<sessions, gameVars>>
    BY <1>4 DEF Accept
  <2> HIDE DEF s
  <2> QED BY <1>1, <1>2, <2>1, <2>2, OneSocket
<1>5. CASE ConnectChallengeResponse(h)
  <2> DEFINE s == [m EXCEPT !.sessionId = sessions + 1, !.load = "reply"]
  <2>1. sessions + 1 \in 0 .. MaxSessions /\ sessions' = sessions + 1 /\ UNCHANGED gameVars
    BY <1>1, <1>5, SessionAssumption DEF ConnectChallengeResponse
  <2>2. s \in Sockets /\ s.sessionId = sessions + 1
    BY <1>1, <2>1 DEF Sockets
  <2>3. margin' = [margin EXCEPT ![h] = s]
    BY <1>1, <1>5 DEF ConnectChallengeResponse
  <2>4. s.sessionId \in 0 .. sessions' /\ s.sessionId # 0 /\ s.sessionId > sessions
        /\ sessions <= sessions' /\ sessions' \in 0 .. MaxSessions
    BY <1>1, <2>1, <2>2
  <2> HIDE DEF s
  <2> QED BY <2>1, <2>2, <2>3, <2>4, OneSocket
<1>13. CASE ConnectReplySent(h)
  <2> DEFINE s == [m EXCEPT !.readyForUdp = TRUE, !.load = "no"]
  <2>1. s \in Sockets /\ s.sessionId = m.sessionId /\ m.sessionId # 0
    BY <1>1, <1>13 DEF Sockets, ConnectReplySent
  <2>2. margin' = [margin EXCEPT ![h] = s] /\ UNCHANGED <<sessions, gameVars>>
    BY <1>1, <1>13 DEF ConnectReplySent
  <2> HIDE DEF s
  <2> QED BY <1>1, <2>1, <2>2, OneSocket
<1>6. ASSUME Refuse(h), UNCHANGED <<sessions, gameVars>> PROVE IInv'
  <2> DEFINE s == [m EXCEPT !.open = FALSE, !.load = "no"]
  <2>1. s \in Sockets /\ s.readyForUdp = m.readyForUdp /\ s.sessionId = m.sessionId
        /\ s.load # "reply"
    BY <1>1 DEF Sockets
  <2>2. margin' = [margin EXCEPT ![h] = s]
    BY <1>1, <1>6 DEF Refuse
  <2> HIDE DEF s
  <2> QED BY <1>3, <1>6, <2>1, <2>2
<1>7. ASSUME NEW l \in {"no", "query", "check"}, margin' = [margin EXCEPT ![h].load = l],
             UNCHANGED <<sessions, gameVars>>
      PROVE  IInv'
  <2> DEFINE s == [m EXCEPT !.load = l]
  <2>1. s \in Sockets /\ s.readyForUdp = m.readyForUdp /\ s.sessionId = m.sessionId
        /\ s.load # "reply"
    BY <1>1 DEF Sockets
  <2>2. margin' = [margin EXCEPT ![h] = s]
    BY <1>1, <1>7
  <2> HIDE DEF s
  <2> QED BY <1>3, <1>7, <2>1, <2>2
<1>8. CASE CharacterQueried(h)
  BY <1>6, <1>7, <1>8 DEF CharacterQueried
<1>9. CASE DuplicateChecked(h)
  BY <1>6, <1>7, <1>9 DEF DuplicateChecked
<1>10. CASE Disconnect(h)
  <2> DEFINE s == [m EXCEPT !.open = FALSE]
  <2>1. s \in Sockets /\ s.readyForUdp = m.readyForUdp /\ s.sessionId = m.sessionId
        /\ s.load # "reply"
    BY <1>1, <1>10 DEF Sockets, Disconnect, Reading, MarginIdle
  <2>2. margin' = [margin EXCEPT ![h] = s] /\ UNCHANGED <<sessions, gameVars>>
    BY <1>1, <1>10 DEF Disconnect
  <2> HIDE DEF s
  <2> QED BY <1>3, <2>1, <2>2
<1>11. CASE Delete(h)
  BY <1>1, <1>2, <1>11, OneSocket DEF Delete
<1>12. ASSUME NEW c \in CharacterIds, LoadCharacterRequest(h, c)
       PROVE  IInv'
  <2> DEFINE s == [m EXCEPT !.charId = c, !.load = "query"]
  <2>1. s \in Sockets /\ s.readyForUdp = m.readyForUdp /\ s.sessionId = m.sessionId
        /\ s.load # "reply"
    BY <1>1 DEF Sockets
  <2>2. margin' = [margin EXCEPT ![h] = s] /\ UNCHANGED <<sessions, gameVars>>
    BY <1>1, <1>12 DEF LoadCharacterRequest
  <2> HIDE DEF s
  <2> QED BY <1>3, <2>1, <2>2
<1> QED BY <1>4, <1>5, <1>8, <1>9, <1>10, <1>11, <1>12, <1>13 DEF MarginStep

-----------------------------------------------------------------------------
(* Closing sockets changes nothing else about them.                        *)
LEMMA Disconnected ==
  ASSUME IInv, NEW socks, ForceDisconnect(socks), UNCHANGED sessions
  PROVE  margin' \in [Handles -> Sockets] /\ ReadyInv'
<1> DEFINE s(h) == [margin[h] EXCEPT !.open = @ /\ h \notin socks]
<1>1. ASSUME NEW h \in Handles
      PROVE  s(h) \in Sockets /\ s(h).readyForUdp = margin[h].readyForUdp
             /\ s(h).sessionId = margin[h].sessionId /\ s(h).load = margin[h].load
  <2>1. margin[h] \in Sockets
    BY DEF IInv, TypeOK
  <2>2. (margin[h].open /\ h \notin socks) \in BOOLEAN
    OBVIOUS
  <2> QED BY <2>1, <2>2 DEF Sockets
<1>2. margin' = [h \in Handles |-> s(h)]
  BY DEF ForceDisconnect
<1> HIDE DEF s
<1> QED BY <1>1, <1>2 DEF IInv, ReadyInv

LEMMA DeleteClientsInv ==
  ASSUME IInv, NEW dead \in SUBSET Addresses, DeleteClients(dead), game.step = "none"
  PROVE  IInv'
<1>1. margin' \in [Handles -> Sockets] /\ ReadyInv'
  BY Disconnected DEF DeleteClients
<1>2. NoClient \in Clients /\ NoClient.goId = 0
      /\ ~NoClient.encryptionInitialized /\ ~NoClient.valid
  BY SessionAssumption DEF NoClient, Clients, CharacterIds
<1>3. TypeOK'
  BY <1>1, <1>2 DEF DeleteClients, IInv, TypeOK
<1>4. GoneInv' /\ HandledInv' /\ FirstOnce' /\ OwnSession' /\ LookedUp'
  BY <1>2 DEF DeleteClients, IInv, TypeOK, GoneInv, HandledInv, FirstOnce, OwnSession, LookedUp
<1>5. FreshInv'
  BY DEF DeleteClients, IInv, TypeOK, FreshInv
<1>6. ASSUME NEW a \in Addresses, clients'[a].goId # 0
      PROVE  owner'[clients'[a].goId] = a
  <2>1. a \notin dead /\ clients'[a] = clients[a]
    BY <1>2, <1>6 DEF DeleteClients
  <2>2. clients[a].goId \in GoIds /\ owner[clients[a].goId] = a
    BY <1>6, <2>1, SessionAssumption DEF IInv, TypeOK, PlayerOwned, Clients, GoIds
  <2>3. ~ \E b \in dead : clients[b].goId = clients[a].goId
    BY <2>1, <2>2, SessionAssumption DEF IInv, PlayerOwned, GoIds
  <2> QED BY <2>1, <2>2, <2>3 DEF DeleteClients
<1>7. ASSUME NEW g \in GoIds, owner'[g] # NoAddress
      PROVE  clients'[owner'[g]].exists /\ clients'[owner'[g]].goId = g
  <2>1. owner'[g] = owner[g] /\ ~ \E a \in dead : clients[a].goId = g
    BY <1>7 DEF DeleteClients
  <2>2. owner[g] \in Addresses /\ clients[owner[g]].exists /\ clients[owner[g]].goId = g
    BY <1>7, <2>1 DEF IInv, TypeOK, PlayerOwned
  <2>3. clients'[owner[g]] = clients[owner[g]]
    BY <2>1, <2>2 DEF DeleteClients
  <2> QED BY <2>1, <2>2, <2>3
<1>8. PlayerOwned'
  BY <1>6, <1>7 DEF PlayerOwned
<1> QED BY <1>1, <1>3, <1>4, <1>5, <1>8 DEF IInv

LEMMA PruneInv ==
  ASSUME IInv, PruneDeadClients
  PROVE  IInv'
BY DeleteClientsInv DEF PruneDeadClients, Dead

LEMMA RemoveInv ==
  ASSUME IInv, NEW a \in Addresses, RemoveDeadClient(a)
  PROVE  IInv'
BY DeleteClientsInv DEF RemoveDeadClient

-----------------------------------------------------------------------------
(* A step that changes one client, but neither its object nor whether it   *)
(* is there, its flags in a way that leaves FirstOnce and HandledInv true. *)
LEMMA OneClient ==
  ASSUME IInv, NEW a \in Addresses, NEW c \in Clients,
         clients' = [clients EXCEPT ![a] = c],
         c.exists, c.goId = clients[a].goId,
         c.encryptionInitialized => Own(c),
         margin' \in [Handles -> Sockets], ReadyInv', UNCHANGED <<sessions, owner, players>>
  PROVE  GoneInv' /\ FreshInv' /\ PlayerOwned' /\ OwnSession'
         /\ clients' \in [Addresses -> Clients]
<1>1. clients' \in [Addresses -> Clients] /\ clients'[a] = c
      /\ \A b \in Addresses : b # a => clients'[b] = clients[b]
  BY DEF IInv, TypeOK
<1>2. GoneInv' /\ FreshInv' /\ OwnSession'
  BY <1>1 DEF IInv, GoneInv, FreshInv, OwnSession, Own
<1>3. \A b \in Addresses : clients'[b].goId = clients[b].goId
  BY <1>1
<1>4. \A b \in Addresses : clients[b].exists => clients'[b].exists
  BY <1>1
<1>5. PlayerOwned'
  BY <1>3, <1>4 DEF IInv, TypeOK, PlayerOwned
<1> QED BY <1>1, <1>2, <1>5

LEMMA SilenceInv ==
  ASSUME IInv, NEW a \in Addresses, Silence(a)
  PROVE  IInv'
<1> DEFINE c == [clients[a] EXCEPT !.idle = TRUE]
<1>1. c \in Clients /\ c.exists /\ c.goId = clients[a].goId /\ c.valid = clients[a].valid
      /\ c.encryptionInitialized = clients[a].encryptionInitialized
      /\ c.sessionId = clients[a].sessionId /\ c.known = clients[a].known
      /\ c.told = clients[a].told
  BY DEF Silence, IInv, TypeOK, Clients
<1>2. clients' = [clients EXCEPT ![a] = c] /\ game.addr # a
      /\ UNCHANGED <<margin, sessions, owner, players, game, crashed>>
  BY DEF Silence
<1> HIDE DEF c
<1>3. margin' \in [Handles -> Sockets] /\ ReadyInv'
  BY <1>2 DEF IInv, TypeOK, ReadyInv
<1>4. GoneInv' /\ FreshInv' /\ PlayerOwned' /\ OwnSession' /\ clients' \in [Addresses -> Clients]
  <2>1. c.encryptionInitialized => Own(c)
    BY <1>1 DEF IInv, OwnSession, Own
  <2> QED BY <1>1, <1>2, <1>3, <2>1, OneClient
<1>5. HandledInv' /\ FirstOnce' /\ LookedUp'
  BY <1>1, <1>2 DEF IInv, TypeOK, HandledInv, FirstOnce, LookedUp
<1>6. TypeOK'
  BY <1>2, <1>4 DEF IInv, TypeOK
<1> QED BY <1>3, <1>4, <1>5, <1>6 DEF IInv

(* The client a packet is handled by: what was there but for its clock, or *)
(* one without an object.                                                  *)
LEMMA HandledByProps ==
  ASSUME IInv, NEW a \in Addresses, NEW c \in HandledBy(a)
  PROVE  /\ c \in Clients /\ c.exists /\ c.valid /\ c.goId = clients[a].goId
         /\ c.encryptionInitialized => Own(c)
         /\ c.encryptionInitialized = clients[a].encryptionInitialized
         /\ c.goId # 0 => clients[a].valid
<1>1. CASE clients[a].exists
  BY <1>1 DEF HandledBy, IInv, TypeOK, Clients, OwnSession, Own
<1>2. CASE ~clients[a].exists
  <2>1. clients[a] = NoClient
    BY <1>2 DEF IInv, GoneInv
  <2>2. PICK s \in Garbage : c = NewClient(s)
    BY <1>2 DEF HandledBy
  <2>3. NoClient \in Clients /\ NoClient.goId = 0 /\ NoClient.encryptionInitialized = FALSE
    BY SessionAssumption DEF NoClient, Clients, CharacterIds
  <2>4. c \in Clients /\ c.exists /\ c.valid /\ c.goId = 0 /\ c.encryptionInitialized = FALSE
    BY <2>2, <2>3 DEF NewClient, Clients
  <2> QED BY <2>1, <2>3, <2>4
<1> QED BY <1>1, <1>2

LEMMA OtherPacketInv ==
  ASSUME IInv, NEW a \in Addresses, OtherPacket(a)
  PROVE  IInv'
<1>1. PICK c \in HandledBy(a), leaves \in BOOLEAN :
        /\ leaves => c.encryptionInitialized
        /\ clients' = [clients EXCEPT ![a] = [c EXCEPT !.valid = ~leaves]]
  BY DEF OtherPacket
<1> DEFINE d == [c EXCEPT !.valid = ~leaves]
<1>2. /\ c \in Clients /\ c.exists /\ c.valid /\ c.goId = clients[a].goId
      /\ c.encryptionInitialized => Own(c)
      /\ c.encryptionInitialized = clients[a].encryptionInitialized
      /\ c.goId # 0 => clients[a].valid
  BY HandledByProps
<1>3. d \in Clients /\ d.exists /\ d.goId = clients[a].goId
      /\ (d.encryptionInitialized => Own(d))
      /\ d.encryptionInitialized = clients[a].encryptionInitialized
      /\ (d.goId # 0 => clients[a].valid)
  BY <1>2 DEF Clients, Own
<1>4. clients' = [clients EXCEPT ![a] = d]
  BY <1>1
<1> HIDE DEF d
<1>5. game.step = "none" /\ UNCHANGED <<margin, sessions, owner, players, game, crashed>>
  BY DEF OtherPacket
<1>6. margin' \in [Handles -> Sockets] /\ ReadyInv'
  BY <1>5 DEF IInv, TypeOK, ReadyInv
<1>7. GoneInv' /\ FreshInv' /\ PlayerOwned' /\ OwnSession' /\ clients' \in [Addresses -> Clients]
  BY <1>3, <1>4, <1>5, <1>6, OneClient
<1>8. HandledInv' /\ FirstOnce' /\ LookedUp'
  BY <1>3, <1>4, <1>5 DEF IInv, TypeOK, HandledInv, FirstOnce, LookedUp
<1>9. TypeOK'
  BY <1>5, <1>7 DEF IInv, TypeOK
<1> QED BY <1>6, <1>7, <1>8, <1>9 DEF IInv

LEMMA FirstPacketInv ==
  ASSUME IInv, NEW a \in Addresses, NEW uid \in CharacterIds, NEW proof \in 0 .. sessions,
         FirstPacket(a, uid, proof)
  PROVE  IInv'
<1>1. PICK c \in HandledBy(a) :
       /\ ~c.encryptionInitialized
       /\ IF uid \in Characters
            THEN /\ players' = players + 1
                 /\ owner' = [owner EXCEPT ![players + 1] = a]
                 /\ clients' = [clients EXCEPT ![a] =
                      [c EXCEPT !.characterUID = uid, !.proof = proof, !.goId = players + 1]]
                 /\ game' = [addr |-> a, step |-> "find", found |-> {}]
            ELSE /\ clients' = [clients EXCEPT ![a] =
                      [c EXCEPT !.characterUID = uid, !.proof = proof, !.valid = FALSE]]
                 /\ UNCHANGED <<players, owner, game>>
  BY DEF FirstPacket
<1>2. /\ c \in Clients /\ c.exists /\ c.valid /\ c.goId = clients[a].goId
      /\ c.encryptionInitialized = clients[a].encryptionInitialized
      /\ c.goId # 0 => clients[a].valid
  BY HandledByProps
<1>3. game.step = "none" /\ players < MaxPlayers /\ UNCHANGED <<margin, sessions, crashed>>
  BY DEF FirstPacket
<1>4. c.goId = 0
  BY <1>1, <1>2, <1>3 DEF IInv, FirstOnce
<1>5. proof \in 0 .. MaxSessions
  BY SessionAssumption DEF IInv, TypeOK
<1>6. margin' \in [Handles -> Sockets] /\ ReadyInv'
  BY <1>3 DEF IInv, TypeOK, ReadyInv
<1>7. CASE uid \notin Characters
  <2> DEFINE d == [c EXCEPT !.characterUID = uid, !.proof = proof, !.valid = FALSE]
  <2>1. d \in Clients /\ d.exists /\ ~d.valid /\ d.goId = clients[a].goId
        /\ ~d.encryptionInitialized
    BY <1>1, <1>2, <1>5 DEF Clients
  <2>2. clients' = [clients EXCEPT ![a] = d] /\ UNCHANGED <<players, owner, game>>
    BY <1>1, <1>7
  <2> HIDE DEF d
  <2>3. GoneInv' /\ FreshInv' /\ PlayerOwned' /\ OwnSession' /\ clients' \in [Addresses -> Clients]
    BY <1>3, <1>6, <2>1, <2>2, OneClient
  <2>4. HandledInv' /\ FirstOnce' /\ LookedUp'
    BY <1>3, <2>1, <2>2 DEF IInv, TypeOK, HandledInv, FirstOnce, LookedUp
  <2>5. TypeOK'
    BY <1>3, <2>2, <2>3 DEF IInv, TypeOK
  <2> QED BY <1>6, <2>3, <2>4, <2>5 DEF IInv
<1>8. CASE uid \in Characters
  <2> DEFINE d == [c EXCEPT !.characterUID = uid, !.proof = proof, !.goId = players + 1]
  <2>1. players \in Nat /\ players + 1 \in GoIds /\ players + 1 # 0 /\ MaxPlayers \in Nat
    BY <1>3, SessionAssumption DEF IInv, TypeOK, GoIds
  <2>2. d \in Clients /\ d.exists /\ d.valid /\ d.goId = players + 1
        /\ ~d.encryptionInitialized
    <3>1. players + 1 \in 0 .. MaxPlayers
      BY <2>1 DEF GoIds
    <3> QED BY <1>1, <1>2, <1>5, <3>1 DEF Clients
  <2>3. clients' = [clients EXCEPT ![a] = d] /\ players' = players + 1
        /\ owner' = [owner EXCEPT ![players + 1] = a]
        /\ game' = [addr |-> a, step |-> "find", found |-> {}]
    BY <1>1, <1>8
  <2> HIDE DEF d
  <2>4. clients' \in [Addresses -> Clients] /\ clients'[a] = d
        /\ \A b \in Addresses : b # a => clients'[b] = clients[b]
    BY <2>2, <2>3 DEF IInv, TypeOK
  <2>5. owner' \in [GoIds -> Addresses \cup {NoAddress}] /\ owner'[players + 1] = a
        /\ \A g \in GoIds : g # players + 1 => owner'[g] = owner[g]
    BY <2>1, <2>3 DEF IInv, TypeOK
  <2>6. TypeOK'
    <3>1. players' \in 0 .. MaxPlayers
      BY <2>1, <2>3 DEF GoIds
    <3>2. game' \in [addr : Addresses \cup {NoAddress}, step : {"none", "find", "session", "ready"},
                     found : SUBSET Handles]
      BY <2>3
    <3> QED BY <1>3, <1>6, <2>4, <2>5, <3>1, <3>2 DEF IInv, TypeOK
  <2>7. GoneInv' /\ OwnSession' /\ HandledInv' /\ FirstOnce' /\ LookedUp'
    BY <1>3, <2>1, <2>2, <2>3, <2>4
       DEF IInv, GoneInv, OwnSession, HandledInv, FirstOnce, LookedUp
  <2>8. FreshInv'
    BY <2>1, <2>3, <2>5 DEF IInv, FreshInv, GoIds
  <2>9. owner[players + 1] = NoAddress
    BY <2>1 DEF IInv, FreshInv
  <2>10. ASSUME NEW b \in Addresses, clients'[b].goId # 0
         PROVE  owner'[clients'[b].goId] = b
    <3>1. CASE b = a
      BY <3>1, <2>2, <2>4, <2>5
    <3>2. CASE b # a
      <4>3. clients[b] = clients'[b] /\ clients[b].goId # 0
        BY <2>4, <2>10, <3>2
      <4>4. clients[b].goId \in 0 .. MaxPlayers
        BY DEF IInv, TypeOK, Clients
      <4>1. clients[b].goId \in GoIds /\ owner[clients[b].goId] = b
        BY <2>1, <4>3, <4>4 DEF IInv, PlayerOwned, GoIds
      <4>2. clients[b].goId # players + 1
        BY <2>9, <4>1, SessionAssumption
      <4> QED BY <2>4, <2>5, <3>2, <4>1, <4>2
    <3> QED BY <3>1, <3>2
  <2>11. ASSUME NEW g \in GoIds, owner'[g] # NoAddress
         PROVE  clients'[owner'[g]].exists /\ clients'[owner'[g]].goId = g
    <3>1. CASE g = players + 1
      BY <3>1, <2>2, <2>4, <2>5
    <3>2. CASE g # players + 1
      <4>1. owner'[g] = owner[g] /\ owner[g] \in Addresses
            /\ clients[owner[g]].exists /\ clients[owner[g]].goId = g
        BY <2>5, <2>11, <3>2 DEF IInv, TypeOK, PlayerOwned
      <4>2. g # 0
        BY DEF GoIds
      <4>3. owner[g] # a
        BY <1>2, <1>4, <4>1, <4>2
      <4> QED BY <2>4, <4>1, <4>3
    <3> QED BY <3>1, <3>2
  <2>12. PlayerOwned'
    BY <2>10, <2>11 DEF PlayerOwned
  <2> QED BY <1>6, <2>6, <2>7, <2>8, <2>12 DEF IInv
<1> QED BY <1>7, <1>8

-----------------------------------------------------------------------------
LEMMA FindMarginInv ==
  ASSUME IInv, FindMargin
  PROVE  IInv'
<1> DEFINE a == game.addr
           found == FindByCharacterUID(clients[a].characterUID)
<1>1. a \in Addresses /\ clients[a].exists /\ clients[a].valid /\ clients[a].goId # 0
      /\ ~clients[a].encryptionInitialized /\ game.step = "find"
  BY DEF FindMargin, IInv, HandledInv
<1>2. UNCHANGED <<margin, sessions, owner, players, crashed>>
  BY DEF FindMargin
<1>3. margin' \in [Handles -> Sockets] /\ ReadyInv'
  BY <1>2 DEF IInv, TypeOK, ReadyInv
<1>4. CASE found = {}
  <2> DEFINE c == [clients[a] EXCEPT !.valid = FALSE]
  <2>1. c \in Clients /\ c.exists /\ ~c.valid /\ c.goId = clients[a].goId
        /\ ~c.encryptionInitialized
    <3>1. clients[a] \in Clients
      BY <1>1 DEF IInv, TypeOK
    <3> QED BY <3>1, <1>1 DEF Clients
  <2>2. clients' = [clients EXCEPT ![a] = c] /\ game' = Waiting
    BY <1>4 DEF FindMargin
  <2> HIDE DEF c
  <2>3. GoneInv' /\ FreshInv' /\ PlayerOwned' /\ OwnSession' /\ clients' \in [Addresses -> Clients]
    BY <1>1, <1>2, <1>3, <2>1, <2>2, OneClient
  <2>4. HandledInv' /\ FirstOnce' /\ LookedUp'
    BY <1>1, <2>1, <2>2 DEF IInv, TypeOK, HandledInv, FirstOnce, LookedUp, Waiting
  <2>5. TypeOK'
    BY <1>2, <2>2, <2>3 DEF IInv, TypeOK, Waiting
  <2> QED BY <1>3, <2>3, <2>4, <2>5 DEF IInv
<1>5. CASE found # {}
  <2>1. game' = [game EXCEPT !.step = "session", !.found = found] /\ UNCHANGED clients
    BY <1>5 DEF FindMargin
  <2>2. found \in SUBSET Handles
    BY DEF FindByCharacterUID
  <2> HIDE DEF found
  <2>3. game'.addr = game.addr /\ game'.step = "session"
        /\ game' \in [addr : Addresses \cup {NoAddress}, step : {"none", "find", "session", "ready"},
                      found : SUBSET Handles]
    BY <2>1, <2>2 DEF IInv, TypeOK
  <2>4. TypeOK'
    BY <1>2, <2>1, <2>3 DEF IInv, TypeOK
  <2>5. HandledInv' /\ FirstOnce' /\ LookedUp'
    BY <1>1, <2>1, <2>3 DEF IInv, HandledInv, FirstOnce, LookedUp
  <2>6. GoneInv' /\ FreshInv' /\ PlayerOwned' /\ OwnSession'
    BY <1>2, <2>1 DEF IInv, GoneInv, FreshInv, PlayerOwned, OwnSession
  <2> QED BY <1>3, <2>4, <2>5, <2>6 DEF IInv
<1> QED BY <1>4, <1>5

LEMMA LookUpSessionInv ==
  ASSUME IInv, LookUpSession
  PROVE  IInv'
<1> DEFINE a == game.addr
<1>1. a \in Addresses /\ clients[a].exists /\ clients[a].valid /\ clients[a].goId # 0
      /\ ~clients[a].encryptionInitialized /\ clients[a] \in Clients
  BY DEF LookUpSession, IInv, TypeOK, HandledInv
<1>2. UNCHANGED <<margin, sessions, owner, players, crashed>> /\ game.step = "session"
  BY DEF LookUpSession
<1>3. PICK h \in game.found :
        /\ clients' = [clients EXCEPT ![a].sessionId = margin[h].sessionId, ![a].known = sessions]
        /\ game' = [game EXCEPT !.step = "ready", !.found = {h}]
  BY DEF LookUpSession
<1>4. h \in Handles /\ margin[h] \in Sockets /\ margin[h].sessionId \in 0 .. sessions
  BY DEF IInv, TypeOK, ReadyInv
<1>5. sessions \in 0 .. MaxSessions /\ sessions \in Nat /\ margin[h].sessionId \in 0 .. MaxSessions
  BY <1>4, SessionAssumption DEF IInv, TypeOK
<1> DEFINE c == [clients[a] EXCEPT !.sessionId = margin[h].sessionId, !.known = sessions]
<1>6. c \in Clients /\ c.exists /\ c.valid /\ c.goId = clients[a].goId
      /\ ~c.encryptionInitialized /\ c.sessionId = margin[h].sessionId /\ c.known = sessions
  BY <1>1, <1>5 DEF Clients
<1>7. clients' = [clients EXCEPT ![a] = c]
  BY <1>1, <1>3 DEF IInv, TypeOK
<1> HIDE DEF c
<1>8. game'.addr = a /\ game'.step = "ready" /\ game'.found = {h}
      /\ game' \in [addr : Addresses \cup {NoAddress}, step : {"none", "find", "session", "ready"},
                    found : SUBSET Handles]
  BY <1>3, <1>4 DEF IInv, TypeOK
<1>9. margin' \in [Handles -> Sockets] /\ ReadyInv'
  BY <1>2 DEF IInv, TypeOK, ReadyInv
<1>10. GoneInv' /\ FreshInv' /\ PlayerOwned' /\ OwnSession' /\ clients' \in [Addresses -> Clients]
  BY <1>1, <1>2, <1>6, <1>7, <1>9, OneClient
<1>11. clients'[a] = c /\ \A b \in Addresses : b # a => clients'[b] = clients[b]
  BY <1>1, <1>7 DEF IInv, TypeOK
<1>12. HandledInv' /\ FirstOnce'
  BY <1>1, <1>2, <1>6, <1>8, <1>11 DEF IInv, HandledInv, FirstOnce
<1>13. LookedUp'
  BY <1>2, <1>4, <1>5, <1>6, <1>8, <1>11 DEF LookedUp
<1>14. TypeOK'
  BY <1>2, <1>8, <1>9, <1>10 DEF IInv, TypeOK
<1> QED BY <1>9, <1>10, <1>12, <1>13, <1>14 DEF IInv

LEMMA EstablishInv ==
  ASSUME IInv, NEW h \in Handles, Establish(h)
  PROVE  IInv'
<1> DEFINE a == game.addr
<1>1. a \in Addresses /\ clients[a].exists /\ clients[a].valid /\ clients[a].goId # 0
      /\ ~clients[a].encryptionInitialized /\ clients[a] \in Clients
  BY DEF Establish, IInv, TypeOK, HandledInv
<1>2. game' = Waiting /\ UNCHANGED <<sessions, owner, players, crashed>>
  BY DEF Establish
<1>3. margin[h] \in Sockets /\ margin[h].sessionId \in 0 .. sessions
      /\ (margin[h].readyForUdp => margin[h].sessionId # 0)
  BY DEF IInv, TypeOK, ReadyInv
<1>4. sessions \in 0 .. MaxSessions /\ margin[h].sessionId \in 0 .. MaxSessions
      /\ sessions \in Nat
  BY <1>3, SessionAssumption DEF IInv, TypeOK
<1>5. /\ clients[a].sessionId \in 0 .. clients[a].known /\ clients[a].known <= sessions
      /\ \/ margin[h].sessionId \in {0, clients[a].sessionId}
         \/ margin[h].sessionId > clients[a].known
      /\ clients[a].known \in Nat
  BY <1>1 DEF Establish, IInv, LookedUp, Clients
<1>6. \E c \in Clients :
        /\ clients' = [clients EXCEPT ![a] = c]
        /\ c.exists /\ c.goId = clients[a].goId
        /\ c.encryptionInitialized => Own(c)
        /\ c.valid => c.encryptionInitialized
  <2>1. CASE UdpReady(h)
    <3> DEFINE c == [clients[a] EXCEPT !.encryptionInitialized = TRUE, !.told = margin[h].sessionId]
    <3>1. c \in Clients /\ c.exists /\ c.goId = clients[a].goId /\ c.encryptionInitialized
          /\ c.told = margin[h].sessionId /\ c.sessionId = clients[a].sessionId
          /\ c.known = clients[a].known
      BY <1>1, <1>4 DEF Clients
    <3>2. margin[h].sessionId # 0
      BY <1>3, <2>1 DEF UdpReady
    <3>3. clients' = [clients EXCEPT ![a] = c]
      BY <1>1, <2>1 DEF Establish, IInv, TypeOK
    <3> HIDE DEF c
    <3>4. Own(c)
      BY <1>3, <1>4, <1>5, <3>1, <3>2 DEF Own
    <3> QED BY <3>1, <3>3, <3>4
  <2>2. CASE ~UdpReady(h)
    <3> DEFINE c == [clients[a] EXCEPT !.valid = FALSE]
    <3>1. c \in Clients /\ c.exists /\ c.goId = clients[a].goId
          /\ ~c.encryptionInitialized /\ ~c.valid
      BY <1>1 DEF Clients
    <3>2. clients' = [clients EXCEPT ![a] = c]
      BY <1>1, <2>2 DEF Establish, IInv, TypeOK
    <3> QED BY <3>1, <3>2
  <2> QED BY <2>1, <2>2
<1>7. PICK c \in Clients :
        /\ clients' = [clients EXCEPT ![a] = c]
        /\ c.exists /\ c.goId = clients[a].goId
        /\ c.encryptionInitialized => Own(c)
        /\ c.valid => c.encryptionInitialized
  BY <1>6
<1>8. margin' \in [Handles -> Sockets] /\ ReadyInv'
  <2>1. CASE UdpReady(h)
    BY <1>2, <2>1 DEF Establish, IInv, TypeOK, ReadyInv
  <2>2. CASE ~UdpReady(h)
    BY <1>2, <2>2, Disconnected DEF Establish
  <2> QED BY <2>1, <2>2
<1>9. GoneInv' /\ FreshInv' /\ PlayerOwned' /\ OwnSession' /\ clients' \in [Addresses -> Clients]
  BY <1>1, <1>2, <1>7, <1>8, OneClient
<1>10. HandledInv' /\ FirstOnce' /\ LookedUp'
  BY <1>1, <1>2, <1>7 DEF IInv, TypeOK, HandledInv, FirstOnce, LookedUp, Waiting
<1>11. TypeOK'
  BY <1>2, <1>8, <1>9 DEF IInv, TypeOK, Waiting
<1> QED BY <1>8, <1>9, <1>10, <1>11 DEF IInv

-----------------------------------------------------------------------------
LEMMA NextInv == IInv /\ [Next]_vars => IInv'
<1> SUFFICES ASSUME IInv, [Next]_vars PROVE IInv'
  OBVIOUS
<1>1. ASSUME NEW h \in Handles, MarginStep(h) PROVE IInv'
  BY <1>1, MarginStepInv
<1>2. CASE PruneDeadClients
  BY <1>2, PruneInv
<1>3. CASE HandleFirst
  <2>1. CASE UseDeleted
    BY <2>1 DEF UseDeleted, IInv, TypeOK, GoneInv, FreshInv, HandledInv, FirstOnce, ReadyInv,
                LookedUp, PlayerOwned, OwnSession
  <2> QED BY <1>3, <2>1, FindMarginInv, LookUpSessionInv, EstablishInv DEF HandleFirst
<1>4. ASSUME NEW a \in Addresses, Silence(a) PROVE IInv'
  BY <1>4, SilenceInv
<1>5. ASSUME NEW a \in Addresses, Packet(a) PROVE IInv'
  BY <1>5, RemoveInv, OtherPacketInv, FirstPacketInv DEF Packet
<1>6. CASE UNCHANGED vars
  BY <1>6 DEF vars, IInv, TypeOK, GoneInv, FreshInv, HandledInv, FirstOnce, ReadyInv,
              LookedUp, PlayerOwned, OwnSession
<1> QED BY <1>1, <1>2, <1>3, <1>4, <1>5, <1>6 DEF Next

LEMMA Inductive == Spec => []IInv
BY InitInv, NextInv, PTL DEF Spec

(* The variables keep their types: of the fields of a client and a margin  *)
(* connection, and of the number of objects and sessions.                  *)
THEOREM TypeCorrect == Spec => []TypeOK
<1>1. IInv => TypeOK
  BY DEF IInv
<1> QED BY <1>1, Inductive, PTL

(* Player objects and clients correspond one to one: no early return of    *)
(* the first packet and no removal leaves an object without its client or  *)
(* a client with an object that is gone.                                   *)
THEOREM PlayersOwned == Spec => []PlayerOwned
<1>1. IInv => PlayerOwned
  BY DEF IInv
<1> QED BY <1>1, Inductive, PTL

(* An established client keeps the session id of the margin connection it  *)
(* was told is ready, whatever m_sessionId held when it was allocated; if  *)
(* not, that connection drew its session after it was looked up, and the   *)
(* client keeps an older id or none.                                       *)
THEOREM SessionsOwn == Spec => []OwnSession
<1>1. IInv => OwnSession
  BY DEF IInv
<1> QED BY <1>1, Inductive, PTL
=============================================================================
