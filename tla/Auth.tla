-------------------------------- MODULE Auth --------------------------------
(***************************************************************************)
(* The auth server: the packets TCPVarLenSocket cuts from the stream of a  *)
(* connection, the three requests AuthSocket answers, the table `users`,   *)
(* and the commands of the console that create accounts and change         *)
(* passwords.                                                              *)
(*                                                                         *)
(* The table is read at once (Query) and written later (Execute): a row    *)
(* that a connection or the console has read may be out of date when it is *)
(* used.  Each client has one connection.                                  *)
(***************************************************************************)
EXTENDS Naturals, Sequences

CONSTANTS
  Clients,
  Lockstep,         \* clients that wait for a reply before they send again
  Users,            \* user names
  Passwords,
  NoUser, NoPassword,
  InitialUsers,     \* what may be in the table at first
  MaxEvents         \* bound: packets, commands, and statements and queries
                    \* that fail, all together

(* The columns that change; key 0 stands for keys that are missing or not  *)
(* of the right size, NoPassword for a row that is not there.              *)
Columns == {"password", "key"}
Rows == {r \in [Columns -> Passwords \cup {NoPassword} \cup Nat] :
           r["password"] \in Passwords \cup {NoPassword} /\ r["key"] \in Nat}
Row(password, key) == [col \in Columns |-> IF col = "key" THEN key ELSE password]
NoRow == Row(NoPassword, 0)

ASSUME AuthAssumption ==
  /\ Lockstep \subseteq Clients
  /\ NoUser \notin Users /\ NoPassword \notin Passwords
  /\ InitialUsers \subseteq [Users -> {r \in Rows : r["key"] \in {0, 1}}]
  /\ MaxEvents \in Nat

VARIABLES
  users,            \* the table: a row for each name
  pending,          \* statements Execute accepted, in order
  due,              \* what each row is to have: the password the operator
                    \* was last told and the key pair that was made last
  spoiled,          \* users one of whose statements failed
  faults,           \* failures so far
  keys,             \* number of the last key pair; those that users have at
                    \* the start are number 1
  console,          \* the command in hand and what its query found
  inputs,           \* packets and commands so far
  sent,             \* the packets each client has sent
  arrived,          \* how many halves of them have come into ibuf
  cut,              \* how many of them were handed to ProcessData
  m_username, row,  \* what a connection keeps of the row it read
  finalChallenge,   \* the reply that has the challenge; 0: none
  closed,           \* SetCloseAndDelete
  replies           \* what each packet that was handed to ProcessData was
                    \* answered with, in order

tableVars   == <<users, pending, due, spoiled, faults>>
consoleVars == <<console, inputs>>
socketVars  == <<m_username, row, finalChallenge, closed, replies>>
vars == <<tableVars, keys, consoleVars, sent, arrived, cut, socketVars>>

Exists(u) == users[u]["password"] # NoPassword

Idle == [command |-> "none", user |-> NoUser, password |-> NoPassword, found |-> FALSE]

Init ==
  /\ users \in InitialUsers
  /\ pending = <<>> /\ due = users /\ spoiled = {} /\ faults = 0
  /\ keys = 1
  /\ console = Idle /\ inputs = 0
  /\ sent = [c \in Clients |-> <<>>]
  /\ arrived = [c \in Clients |-> 0] /\ cut = [c \in Clients |-> 0]
  /\ m_username = [c \in Clients |-> NoUser] /\ row = [c \in Clients |-> NoRow]
  /\ finalChallenge = [c \in Clients |-> 0] /\ closed = [c \in Clients |-> FALSE]
  /\ replies = [c \in Clients |-> <<>>]

-----------------------------------------------------------------------------
(* The database.                                                           *)

Statement(u, insert, column, value) ==
  [user |-> u, insert |-> insert, column |-> column, value |-> value]

Room == inputs + faults < MaxEvents

Fault == Room /\ faults' = faults + 1

(* Query: a failure looks like an empty result.                            *)
Query(actual, found) ==
  \/ found = actual /\ UNCHANGED faults
  \/ found = FALSE /\ Fault

Owe(u, column, value) == due' = [due EXCEPT ![u][column] = value]

Written == Head(pending)

(* The executor comes to a statement.  Names are unique: an INSERT of one  *)
(* that is there fails, which nobody is told.  An UPDATE is given only for *)
(* a row that was read, and no row goes away.                              *)
Write ==
  /\ pending # <<>> /\ pending' = Tail(pending)
  /\ LET u == Written.user
         refused == Written.insert /\ Exists(u)
     IN \/ /\ ~refused
           /\ users' = [users EXCEPT ![u][Written.column] = Written.value]
           /\ UNCHANGED <<spoiled, faults>>
        \/ /\ (refused /\ UNCHANGED faults) \/ Fault
           /\ spoiled' = spoiled \cup {u} /\ UNCHANGED users
  /\ UNCHANGED <<due, keys, consoleVars, sent, arrived, cut, socketVars>>

-----------------------------------------------------------------------------
(* The console: CreateAccount and ChangePassword.                         *)

(* getAccountIdForUsername, the result of which is used later.             *)
Command(command, u, p) ==
  /\ console = Idle /\ Room /\ inputs' = inputs + 1
  /\ \E found \in BOOLEAN :
       /\ Query(Exists(u), found)
       /\ console' = [command |-> command, user |-> u, password |-> p, found |-> found]
  /\ UNCHANGED <<users, pending, due, spoiled, keys, sent,
                 arrived, cut, socketVars>>

(* "Created account with username ... password ...", as soon as Execute    *)
(* has the statement.                                                      *)
CreateAccount ==
  /\ console.command = "register" /\ ~console.found
  /\ pending' = Append(pending, Statement(console.user, TRUE, "password", console.password))
  /\ Owe(console.user, "password", console.password)

(* "Account ... now has password ..."                                      *)
ChangePassword ==
  /\ console.command = "changePassword" /\ console.found
  /\ pending' = Append(pending, Statement(console.user, FALSE, "password", console.password))
  /\ Owe(console.user, "password", console.password)

Refused ==
  /\ \/ console.command = "register" /\ console.found
     \/ console.command = "changePassword" /\ ~console.found
  /\ UNCHANGED <<pending, due>>

Submit ==
  /\ CreateAccount \/ ChangePassword \/ Refused
  /\ console' = Idle
  /\ UNCHANGED <<users, spoiled, faults, keys, inputs, sent,
                 arrived, cut, socketVars>>

-----------------------------------------------------------------------------
(* The connection.                                                         *)

Close(c) ==
  /\ closed' = [closed EXCEPT ![c] = TRUE]
  /\ UNCHANGED replies

Reply(c, message) ==
  /\ replies' = [replies EXCEPT ![c] = Append(@, message)]
  /\ UNCHANGED closed

(* Stands in replies for the answer to a packet that has none.             *)
Nothing == [op |-> "Nothing"]

HandleGetPublicKeyRequest(c) ==
  /\ Reply(c, [op |-> "GetPublicKeyReply"])
  /\ UNCHANGED <<tableVars, keys, m_username, row, finalChallenge>>

(* The default case of ProcessData: the packet is gone, and nothing is     *)
(* sent or closed.                                                         *)
Ignore(c) ==
  /\ Reply(c, Nothing)
  /\ UNCHANGED <<tableVars, keys, m_username, row, finalChallenge>>

(* A client with an old pubkey.dat cannot be read; an unknown user is sent *)
(* away.  The challenge is named by the reply it is in.                    *)
HandleAuthRequest(c, q) ==
  /\ \/ ~q.readable /\ Close(c) /\ UNCHANGED <<faults, m_username, row, finalChallenge>>
     \/ /\ q.readable
        /\ m_username' = [m_username EXCEPT ![c] = q.user]
        /\ \E found \in BOOLEAN :
             /\ Query(Exists(q.user), found)
             /\ IF found
                  THEN /\ row' = [row EXCEPT ![c] = users[q.user]]
                       /\ finalChallenge' = [finalChallenge EXCEPT ![c] = Len(replies[c]) + 1]
                       /\ Reply(c, [op |-> "AuthChallenge"])
                  ELSE Close(c) /\ UNCHANGED <<row, finalChallenge>>
  /\ UNCHANGED <<users, pending, due, spoiled, keys>>

(* Mutant of ChallengeMet: the challenge is not compared.                  *)
ChallengeMetAny(c, q) == TRUE

(* A connection that has sent no challenge expects one of zeros, but has   *)
(* read no row either, so that no password is right.                       *)
ChallengeMet(c, q) == q.challenge = finalChallenge[c]

(* Mutant of KeyUpdate: the whole row is written back.                     *)
KeyUpdateWhole(c, key) ==
  <<Statement(m_username[c], FALSE, "key", key),
    Statement(m_username[c], FALSE, "password", row[c]["password"])>>

KeyUpdate(c, key) == <<Statement(m_username[c], FALSE, "key", key)>>

(* Missing keys are made, kept and handed to Execute, whether or not the   *)
(* reply is sent in the end.                                               *)
RegenerateKeys(c) ==
  IF row[c]["key"] = 0
    THEN /\ keys' = keys + 1
         /\ row' = [row EXCEPT ![c]["key"] = keys + 1]
         /\ pending' = pending \o KeyUpdate(c, keys + 1)
         /\ Owe(m_username[c], "key", keys + 1)
    ELSE UNCHANGED <<keys, row, pending, due>>

(* The connection is also closed when the table of the worlds is empty.    *)
HandleAuthChallengeResponse(c, q) ==
  /\ IF ChallengeMet(c, q) /\ q.password = row[c]["password"]
       THEN /\ RegenerateKeys(c)
            /\ Reply(c, [op |-> "AuthReply", user |-> m_username[c]]) \/ Close(c)
       ELSE Close(c) /\ UNCHANGED <<pending, due, keys, row>>
  /\ UNCHANGED <<users, spoiled, faults, m_username, finalChallenge>>

ProcessData(c, q) ==
  \/ q.op = "GetPublicKeyRequest" /\ HandleGetPublicKeyRequest(c)
  \/ q.op = "AuthRequest" /\ HandleAuthRequest(c, q)
  \/ q.op = "AuthChallengeResponse" /\ HandleAuthChallengeResponse(c, q)
  \/ q.op = "Other" /\ Ignore(c)

(* Mutant of Complete: the packet is taken as soon as its length is there. *)
CompleteEarly(c, n) == n > 2 * cut[c]

(* Mutant of Complete: one byte more than the packet has is asked for.     *)
CompleteLate(c, n) == n > 2 * (cut[c] + 1)

(* The input buffer holds a whole packet.                                  *)
Complete(c, n) == n >= 2 * (cut[c] + 1)

(* Some of what was sent arrives; then at most one packet is taken.        *)
OnRead(c) ==
  /\ ~closed[c]
  /\ \E n \in arrived[c] + 1 .. 2 * Len(sent[c]) :
       /\ arrived' = [arrived EXCEPT ![c] = n]
       /\ IF Complete(c, n)
            THEN /\ cut' = [cut EXCEPT ![c] = @ + 1]
                 /\ ProcessData(c, sent[c][cut[c] + 1])
            ELSE UNCHANGED <<cut, tableVars, keys, socketVars>>
  /\ UNCHANGED <<consoleVars, sent>>

-----------------------------------------------------------------------------
(* The clients.                                                            *)

Challenges(c) == {j \in DOMAIN replies[c] : replies[c][j].op = "AuthChallenge"}

(* A client may ask for the key first; one with a bad pubkey.dat has it    *)
(* from the start.  It answers the last challenge it has received, which   *)
(* may be any that was sent or none yet, 0.  Other is a packet of any of   *)
(* the many opcodes that have no handler.                                  *)
Packets(c) ==
  {q \in {[op |-> "GetPublicKeyRequest"]} : sent[c] = <<>>}
  \cup [op : {"AuthRequest"}, user : Users, readable : {b \in BOOLEAN : b \/ sent[c] = <<>>}]
  \cup [op : {"AuthChallengeResponse"}, password : Passwords, challenge : Challenges(c) \cup {0}]
  \cup {[op |-> "Other"]}

(* A packet of the client is unanswered.                                   *)
Waiting(c) ==
  \E i \in DOMAIN sent[c] : i \notin DOMAIN replies[c] \/ replies[c][i] = Nothing

ClientSend(c) ==
  /\ ~closed[c] /\ Room /\ inputs' = inputs + 1
  /\ c \in Lockstep => ~Waiting(c)
  /\ \E q \in Packets(c) : sent' = [sent EXCEPT ![c] = Append(@, q)]
  /\ UNCHANGED <<tableVars, keys, console, arrived, cut, socketVars>>

-----------------------------------------------------------------------------
Next ==
  \/ Write \/ Submit
  \/ \E command \in {"register", "changePassword"}, u \in Users, p \in Passwords :
       Command(command, u, p)
  \/ \E c \in Clients : OnRead(c) \/ ClientSend(c)

Spec == Init /\ [][Next]_vars

(* The loop of the auth server reads what has come.  Nothing makes the     *)
(* executor write or anybody send.                                         *)
FairSpec == Spec /\ \A c \in Clients : WF_vars(OnRead(c))

-----------------------------------------------------------------------------
(* Properties.                                                             *)

Statements ==
  [user : Users, insert : BOOLEAN, column : {"password"}, value : Passwords]
  \cup [user : Users, insert : {FALSE}, column : {"key"}, value : Nat]

Requests ==
  {[op |-> "GetPublicKeyRequest"], [op |-> "Other"]}
  \cup [op : {"AuthRequest"}, user : Users, readable : BOOLEAN]
  \cup [op : {"AuthChallengeResponse"}, password : Passwords, challenge : Nat]

Answers ==
  {Nothing, [op |-> "GetPublicKeyReply"], [op |-> "AuthChallenge"]} \cup [op : {"AuthReply"}, user : Users]

(* The types of the variables; a packet is taken when it has arrived.      *)
(* Each one taken is answered or closes the connection, but for those of   *)
(* an opcode ProcessData has no case for (AuthSocket.cpp:114).             *)
TypeOK ==
  /\ users \in [Users -> Rows] /\ due \in [Users -> Rows]
  /\ pending \in Seq(Statements) /\ spoiled \subseteq Users
  /\ faults \in Nat /\ inputs \in Nat /\ keys \in Nat
  /\ console \in {Idle} \cup [command : {"register", "changePassword"}, user : Users,
                              password : Passwords, found : BOOLEAN]
  /\ m_username \in [Clients -> Users \cup {NoUser}] /\ row \in [Clients -> Rows]
  /\ finalChallenge \in [Clients -> Nat] /\ closed \in [Clients -> BOOLEAN]
  /\ sent \in [Clients -> Seq(Requests)] /\ replies \in [Clients -> Seq(Answers)]
  /\ arrived \in [Clients -> Nat] /\ cut \in [Clients -> Nat]
  /\ \A c \in Clients :
       /\ 2 * cut[c] <= arrived[c] /\ arrived[c] <= 2 * Len(sent[c])
       /\ Len(replies[c]) = (IF closed[c] THEN cut[c] - 1 ELSE cut[c])
       /\ \A i \in 1 .. Len(replies[c]) : replies[c][i] = Nothing <=> sent[c][i].op = "Other"

(* A client is logged in as the user it asked for with the request whose   *)
(* challenge it answered, whatever it sent in between and however far the  *)
(* server is behind (AuthSocket.cpp:362).                                  *)
RightUser ==
  \A c \in Clients : \A i \in 1 .. Len(replies[c]) :
    replies[c][i].op = "AuthReply" =>
      LET j == sent[c][i].challenge IN
      /\ j \in 1 .. i - 1 /\ replies[c][j].op = "AuthChallenge"
      /\ sent[c][j].user = replies[c][i].user

(* Once its statements are written, a row has the password the operator    *)
(* was last told and the keys that were made last: the update of the keys, *)
(* from a row read long before, takes no password back.  Clients may hold  *)
(* other keys: two that read a row without any each make a pair, and the   *)
(* second one stays, even if that connection is closed without a reply.    *)
(* Left out are users one of whose statements failed, such as a second     *)
(* INSERT of a name that was still queued, which the console reports as    *)
(* created.                                                                *)
Settled ==
  \A u \in Users :
    u \notin spoiled /\ (\A i \in DOMAIN pending : pending[i].user # u) => users[u] = due[u]

(* A client that waits for each reply, and sends requests the server has a *)
(* case for, gets one or is disconnected: what is left in the input buffer *)
(* after one packet (TCPVarLenSocket.cpp:46) is never a whole one.  One    *)
(* that sends anything else waits for ever.                                *)
Answered ==
  \A c \in Lockstep :
    (Waiting(c) /\ \A i \in DOMAIN sent[c] : sent[c][i].op # "Other")
      ~> (~Waiting(c) \/ closed[c])
=============================================================================
