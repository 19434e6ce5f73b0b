------------------------------- MODULE Session -------------------------------
(***************************************************************************)
(* How a player gets into the world and out of it: the margin connections  *)
(* (MarginSocket.cpp) with the duplicate check of MS_LoadCharacterRequest, *)
(* the first UDP packet (GameClient::HandlePacket), and the removal of     *)
(* clients (GameSocket.cpp, ~GameClient).                                  *)
(*                                                                         *)
(* Margin and game server run on threads of their own and read each        *)
(* other's clients and sockets without a lock: their handlers are split    *)
(* where one waits for the database, has written one of two fields or keeps*)
(* what it has read.  Signatures, keys and the other messages of the       *)
(* handshake are left out; a session id is never drawn twice.              *)
(***************************************************************************)
EXTENDS Naturals, FiniteSets

CONSTANTS
  Characters,   \* ids of the characters in the database
  NoCharacter,  \* an id that is not
  Addresses,    \* the UDP endpoints of the players' programs
  NoAddress,    \* nobody's
  Handles,      \* sockets of the margin server, in the order of m_sockets
  Garbage,      \* what an uninitialised m_sessionId may hold
  AllowMultipleSessionsPerCharacter,  \* of the configuration
  MaxSessions,  \* bound: sessions opened at the margin server
  MaxPlayers    \* bound: player objects constructed

ASSUME SessionAssumption ==
  /\ NoCharacter \notin Characters /\ NoAddress \notin Addresses
  /\ Handles \subseteq Nat
  /\ Garbage \subseteq Nat
  /\ AllowMultipleSessionsPerCharacter \in BOOLEAN
  /\ MaxSessions \in Nat /\ MaxPlayers \in Nat

VARIABLES
  margin,    \* the MarginSockets
  sessions,  \* session ids drawn so far
  clients,   \* m_clients
  owner,     \* m_objects: whose PlayerObject each object id names
  players,   \* player objects constructed so far
  game,      \* the first packet the game thread is working on
  crashed    \* the game thread has used a deleted MarginSocket

vars == <<margin, sessions, clients, owner, players, game, crashed>>

GoIds == 1 .. MaxPlayers
CharacterIds == Characters \cup {NoCharacter}

(* Three fields of a client are history: proof, the session its program was*)
(* given; known, the sessions drawn when its own was looked up; told, the  *)
(* session of the margin connection when that said it was ready.           *)
NoSocket == [open |-> FALSE, exists |-> FALSE, charId |-> NoCharacter, sessionId |-> 0,
             readyForUdp |-> FALSE, load |-> "no"]
NoClient == [exists |-> FALSE, valid |-> FALSE, idle |-> FALSE, characterUID |-> NoCharacter,
             goId |-> 0, encryptionInitialized |-> FALSE, sessionId |-> 0,
             proof |-> 0, known |-> 0, told |-> 0]
Waiting == [addr |-> NoAddress, step |-> "none", found |-> {}]

Init ==
  /\ margin = [h \in Handles |-> NoSocket] /\ sessions = 0
  /\ clients = [a \in Addresses |-> NoClient]
  /\ owner = [g \in GoIds |-> NoAddress] /\ players = 0
  /\ game = Waiting /\ crashed = FALSE

-----------------------------------------------------------------------------
(* The margin server.                                                      *)

gameVars == <<clients, owner, players, game, crashed>>

(* One thread runs the margin server: no handler starts inside another.    *)
MarginIdle == \A h \in Handles : margin[h].load = "no"

Accept(h) ==
  /\ MarginIdle /\ ~margin[h].exists
  /\ margin' = [margin EXCEPT ![h] = [NoSocket EXCEPT !.open = TRUE, !.exists = TRUE]]
  /\ UNCHANGED <<sessions, gameVars>>

Reading(h) == MarginIdle /\ margin[h].open

(* MS_ConnectChallengeResponse, which asks nothing of what came before:    *)
(* the session id is there for all to see, ...                             *)
ConnectChallengeResponse(h) ==
  /\ Reading(h) /\ sessions < MaxSessions
  /\ sessions' = sessions + 1
  /\ margin' = [margin EXCEPT ![h].sessionId = sessions + 1, ![h].load = "reply"]
  /\ UNCHANGED gameVars

(* ... then MS_ConnectReply is sent and the socket said to be ready.       *)
ConnectReplySent(h) ==
  /\ margin[h].load = "reply"
  /\ margin' = [margin EXCEPT ![h].readyForUdp = TRUE, ![h].load = "no"]
  /\ UNCHANGED <<sessions, gameVars>>

(* MS_LoadCharacterRequest: charId is set at once, for all to see, ...     *)
LoadCharacterRequest(h, c) ==
  /\ Reading(h)
  /\ margin' = [margin EXCEPT ![h].charId = c, ![h].load = "query"]
  /\ UNCHANGED <<sessions, gameVars>>

Refuse(h) == margin' = [margin EXCEPT ![h].open = FALSE, ![h].load = "no"]

(* ... then the database tells whether the user has such a character, ...  *)
CharacterQueried(h) ==
  /\ margin[h].load = "query"
  /\ \/ margin' = [margin EXCEPT ![h].load = "check"] /\ margin[h].charId \in Characters
     \/ Refuse(h)
  /\ UNCHANGED <<sessions, gameVars>>

ClientsWithCharacterId(c) == {a \in Addresses : clients[a].exists /\ clients[a].characterUID = c}

(* ... and GetClientsWithCharacterId whether it is in the game.            *)
DuplicateChecked(h) ==
  /\ margin[h].load = "check"
  /\ IF AllowMultipleSessionsPerCharacter \/ ClientsWithCharacterId(margin[h].charId) = {}
       THEN margin' = [margin EXCEPT ![h].load = "no"]
       ELSE Refuse(h)
  /\ UNCHANGED <<sessions, gameVars>>

(* The player's program goes away, or the network, or a message of it is   *)
(* refused (each check of CERT_ConnectRequest, for one, closes the         *)
(* socket); OnDisconnect tells no one.                                     *)
Disconnect(h) ==
  /\ Reading(h)
  /\ margin' = [margin EXCEPT ![h].open = FALSE]
  /\ UNCHANGED <<sessions, gameVars>>

(* The socket handler deletes what was closed.                             *)
Delete(h) ==
  /\ MarginIdle /\ margin[h].exists /\ ~margin[h].open
  /\ margin' = [margin EXCEPT ![h] = NoSocket]
  /\ UNCHANGED <<sessions, gameVars>>

MarginStep(h) ==
  \/ Accept(h) \/ ConnectChallengeResponse(h) \/ ConnectReplySent(h)
  \/ CharacterQueried(h) \/ DuplicateChecked(h) \/ Disconnect(h) \/ Delete(h)
  \/ \E c \in CharacterIds : LoadCharacterRequest(h, c)

-----------------------------------------------------------------------------
(* The end of a client: ~GameClient.                                       *)

(* Mutant of ForceDisconnect: the other sockets are lost from the map.     *)
ForceDisconnectLosing(socks) ==
  margin' = [h \in socks |-> [margin[h] EXCEPT !.open = FALSE]]

ForceDisconnect(socks) ==
  margin' = [h \in Handles |-> [margin[h] EXCEPT !.open = @ /\ h \notin socks]]

(* FindBySessionId returns the first socket of the map that has the id.    *)
FindBySessionId(id) ==
  {h \in Handles : /\ margin[h].exists /\ margin[h].sessionId = id
                   /\ \A i \in Handles :
                        margin[i].exists /\ margin[i].sessionId = id => h <= i}

(* Mutant of DeleteClients: the player objects stay.                       *)
DeleteClientsOnly(dead) ==
  /\ UNCHANGED owner
  /\ ForceDisconnect(UNION {FindBySessionId(clients[a].sessionId) : a \in dead})
  /\ clients' = [a \in Addresses |-> IF a \in dead THEN NoClient ELSE clients[a]]
  /\ UNCHANGED <<sessions, players, game, crashed>>

DeleteClients(dead) ==
  /\ owner' = [g \in GoIds |-> IF \E a \in dead : clients[a].goId = g THEN NoAddress ELSE owner[g]]
  /\ ForceDisconnect(UNION {FindBySessionId(clients[a].sessionId) : a \in dead})
  /\ clients' = [a \in Addresses |-> IF a \in dead THEN NoClient ELSE clients[a]]
  /\ UNCHANGED <<sessions, players, game, crashed>>

(* Mutant of Dead: only clients that said so are removed.                  *)
DeadInvalid == {a \in Addresses : clients[a].exists /\ ~clients[a].valid}

Dead == {a \in Addresses : clients[a].exists /\ (~clients[a].valid \/ clients[a].idle)}

PruneDeadClients == game.step = "none" /\ Dead # {} /\ DeleteClients(Dead)

(* 20 seconds pass without a packet from a.                                *)
Silence(a) ==
  /\ clients[a].exists /\ ~clients[a].idle /\ game.addr # a
  /\ clients' = [clients EXCEPT ![a].idle = TRUE]
  /\ UNCHANGED <<margin, sessions, owner, players, game, crashed>>

-----------------------------------------------------------------------------
(* UDP packets: GameSocket::OnRawData and GameClient::HandlePacket.        *)

(* A packet from the address of an invalid client only deletes that.       *)
RemoveDeadClient(a) ==
  /\ game.step = "none" /\ clients[a].exists /\ ~clients[a].valid
  /\ DeleteClients({a})

NewClient(s) == [NoClient EXCEPT !.exists = TRUE, !.valid = TRUE, !.sessionId = s]

(* The client a packet from a is handled by: the one there is, or a new    *)
(* one, whose m_sessionId the constructor leaves as it finds it.           *)
HandledBy(a) ==
  IF clients[a].exists
    THEN IF clients[a].valid THEN {[clients[a] EXCEPT !.idle = FALSE]} ELSE {}
    ELSE {NewClient(s) : s \in Garbage}

(* Any packet but the first: at most the player is jacked out by it        *)
(* (RPC_HandleJackoutFinished).                                            *)
OtherPacket(a) ==
  /\ game.step = "none"
  /\ \E c \in HandledBy(a), leaves \in BOOLEAN :
       /\ leaves => c.encryptionInitialized
       /\ clients' = [clients EXCEPT ![a] = [c EXCEPT !.valid = ~leaves]]
  /\ UNCHANGED <<margin, sessions, owner, players, game, crashed>>

(* The first packet, of a program that was given session id "proof":       *)
(* the character is noted and its object constructed, which throws when    *)
(* there is none.                                                          *)
FirstPacket(a, uid, proof) ==
  /\ game.step = "none" /\ players < MaxPlayers
  /\ \E c \in HandledBy(a) :
       /\ ~c.encryptionInitialized
       /\ IF uid \in Characters
            THEN /\ players' = players + 1
                 /\ owner' = [owner EXCEPT ![players + 1] = a]
                 /\ clients' = [clients EXCEPT ![a] =
                      [c EXCEPT !.characterUID = uid, !.proof = proof, !.goId = players + 1]]
                 /\ game' = [addr |-> a, step |-> "find", found |-> {}]
            ELSE /\ clients' = [clients EXCEPT ![a] =
                      [c EXCEPT !.characterUID = uid, !.proof = proof, !.valid = FALSE]]
                 /\ UNCHANGED <<players, owner, game>>
  /\ UNCHANGED <<margin, sessions, crashed>>

FindByCharacterUID(uid) == {h \in Handles : margin[h].exists /\ margin[h].charId = uid}

(* The margin connections that have loaded the character.                  *)
FindMargin ==
  /\ game.step = "find"
  /\ LET found == FindByCharacterUID(clients[game.addr].characterUID)
     IN  IF found = {}
           THEN /\ clients' = [clients EXCEPT ![game.addr].valid = FALSE]
                /\ game' = Waiting
           ELSE /\ game' = [game EXCEPT !.step = "session", !.found = found]
                /\ UNCHANGED clients
  /\ UNCHANGED <<margin, sessions, owner, players, crashed>>

(* The loop over them runs to its end whatever it finds: the last one is   *)
(* taken, and comparing the session ids has no effect.  The session id it  *)
(* has now is kept.                                                        *)
LookUpSession ==
  /\ game.step = "session" /\ \A h \in game.found : margin[h].exists
  /\ \E h \in game.found :
       /\ \A i \in game.found : i <= h
       /\ clients' = [clients EXCEPT ![game.addr].sessionId = margin[h].sessionId,
                                     ![game.addr].known = sessions]
       /\ game' = [game EXCEPT !.step = "ready", !.found = {h}]
  /\ UNCHANGED <<margin, sessions, owner, players, crashed>>

(* Mutant of UdpReady: the margin connection is not asked.                 *)
UdpReadyAlways(h) == TRUE

UdpReady(h) == margin[h].readyForUdp

(* Mutant of Establish: an unready margin connection leaves the client     *)
(* valid.                                                                  *)
EstablishValid(h) ==
  /\ game.step = "ready" /\ h \in game.found /\ margin[h].exists
  /\ IF UdpReady(h)
       THEN /\ clients' = [clients EXCEPT ![game.addr].encryptionInitialized = TRUE,
                                          ![game.addr].told = margin[h].sessionId]
            /\ UNCHANGED margin
       ELSE UNCHANGED clients /\ ForceDisconnect({h})
  /\ game' = Waiting
  /\ UNCHANGED <<sessions, owner, players, crashed>>

(* After the heartbeats the margin connection is asked whether it is ready.*)
(* m_encryptionInitialized, set before that and reset when it is not, is   *)
(* seen by this thread only.                                               *)
Establish(h) ==
  /\ game.step = "ready" /\ h \in game.found /\ margin[h].exists
  /\ IF UdpReady(h)
       THEN /\ clients' = [clients EXCEPT ![game.addr].encryptionInitialized = TRUE,
                                          ![game.addr].told = margin[h].sessionId]
            /\ UNCHANGED margin
       ELSE /\ clients' = [clients EXCEPT ![game.addr].valid = FALSE]
            /\ ForceDisconnect({h})
  /\ game' = Waiting
  /\ UNCHANGED <<sessions, owner, players, crashed>>

(* The margin thread has deleted one of them in the meantime.              *)
UseDeleted ==
  /\ game.step \in {"session", "ready"} /\ \E h \in game.found : ~margin[h].exists
  /\ crashed' = TRUE
  /\ UNCHANGED <<margin, sessions, clients, owner, players, game>>

-----------------------------------------------------------------------------
HandleFirst == FindMargin \/ LookUpSession \/ (\E h \in Handles : Establish(h)) \/ UseDeleted

Packet(a) ==
  \/ RemoveDeadClient(a) \/ OtherPacket(a)
  \/ \E uid \in CharacterIds, proof \in 0 .. sessions : FirstPacket(a, uid, proof)

Next ==
  /\ ~crashed
  /\ \/ \E h \in Handles : MarginStep(h)
     \/ PruneDeadClients \/ HandleFirst
     \/ \E a \in Addresses : Silence(a) \/ Packet(a)

Spec == Init /\ [][Next]_vars

(* GameServer::Loop prunes every few milliseconds, and a handler runs to   *)
(* its end.                                                                *)
FairSpec ==
  /\ Spec
  /\ WF_vars(~crashed /\ PruneDeadClients)
  /\ WF_vars(~crashed /\ HandleFirst)

-----------------------------------------------------------------------------
(* Properties.                                                             *)

Sockets == [open : BOOLEAN, exists : BOOLEAN, charId : CharacterIds, sessionId : 0 .. MaxSessions,
            readyForUdp : BOOLEAN, load : {"no", "query", "check", "reply"}]
Clients == [exists : BOOLEAN, valid : BOOLEAN, idle : BOOLEAN, characterUID : CharacterIds,
            goId : 0 .. MaxPlayers, encryptionInitialized : BOOLEAN,
            sessionId : Garbage \cup (0 .. MaxSessions), proof : 0 .. MaxSessions,
            known : 0 .. MaxSessions, told : 0 .. MaxSessions]

(* The types of the variables.                                             *)
TypeOK ==
  /\ margin \in [Handles -> Sockets] /\ sessions \in 0 .. MaxSessions
  /\ clients \in [Addresses -> Clients]
  /\ owner \in [GoIds -> Addresses \cup {NoAddress}] /\ players \in 0 .. MaxPlayers
  /\ game \in [addr : Addresses \cup {NoAddress}, step : {"none", "find", "session", "ready"},
               found : SUBSET Handles]
  /\ crashed \in BOOLEAN

(* Every player object is the one of exactly one client that is still      *)
(* there, on every path through the first packet and every way a client is *)
(* removed: no player stays in the world without a client, and getGOPtr    *)
(* does not throw for a client's own object.                               *)
PlayerOwned ==
  /\ \A a \in Addresses : clients[a].goId # 0 => owner[clients[a].goId] = a
  /\ \A g \in GoIds : owner[g] # NoAddress =>
       clients[owner[g]].exists /\ clients[owner[g]].goId = g

(* The margin connection an established client was told of has a session,  *)
(* and the client has kept that one, whatever m_sessionId held before: its *)
(* destructor closes its own connection.  The exception is one that drew   *)
(* its session after it was looked up: the client then keeps an older id,  *)
(* or 0, by which the destructor finds a stranger in its handshake.        *)
OwnSession ==
  \A a \in Addresses :
    LET c == clients[a] IN
    c.encryptionInitialized =>
      /\ c.told \in 1 .. sessions
      /\ c.sessionId = c.told \/ (c.sessionId <= c.known /\ c.known < c.told)

(* A character is not shut out for ever: when every client that plays it   *)
(* has fallen silent, MS_LoadCharacterRequest finds no one again.          *)
LoginAgain ==
  \A c \in Characters :
    <>[](\A a \in ClientsWithCharacterId(c) : clients[a].idle)
      => []<>(ClientsWithCharacterId(c) = {} \/ crashed)

(* MarginSocket.cpp:432, "Don't allow multiple users with the same         *)
(* character id".                                                          *)
OneClientPerCharacter ==
  \A a, b \in {x \in Addresses : clients[x].encryptionInitialized} :
    ~AllowMultipleSessionsPerCharacter /\ clients[a].characterUID = clients[b].characterUID
      => a = b

(* GameClient.cpp:105, "we need to test every margin session that has the  *)
(* same charId, for a matching sessionId".                                 *)
MatchingSession ==
  \A a \in Addresses :
    clients[a].encryptionInitialized => clients[a].sessionId = clients[a].proof
=============================================================================
