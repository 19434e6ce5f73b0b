----------------------------- MODULE Auth_proofs -----------------------------
(***************************************************************************)
(* Proofs about the auth server, for every set of clients, users and       *)
(* passwords, every table at the start and any number of faults.           *)
(***************************************************************************)
EXTENDS Auth, TLAPS, SequenceTheorems

(* What makes RightUser inductive: the challenge a connection keeps is in  *)
(* its last reply to an AuthRequest, and, while the connection lives, the  *)
(* name it keeps is the one in that request.  A connection that has sent   *)
(* no challenge has read no row, so that no password is right.             *)
ChallengeKept ==
  \A c \in Clients : finalChallenge[c] # 0 =>
    /\ m_username[c] \in Users
    /\ finalChallenge[c] <= Len(replies[c])
    /\ replies[c][finalChallenge[c]].op = "AuthChallenge"
    /\ ~closed[c] => sent[c][finalChallenge[c]].user = m_username[c]

NoRowYet ==
  \A c \in Clients : finalChallenge[c] = 0 => row[c]["password"] = NoPassword

LoginInv == TypeOK /\ ChallengeKept /\ NoRowYet

(* What makes Settled inductive: the last statement that is to set a       *)
(* column sets what is due, and if there is none, it is there.             *)
Sets(stmt, u, col) == stmt.user = u /\ stmt.column = col

NothingToSet(u, col) == \A i \in 1 .. Len(pending) : ~Sets(pending[i], u, col)

LastToSet(u, col, i) ==
  /\ Sets(pending[i], u, col)
  /\ \A j \in i + 1 .. Len(pending) : ~Sets(pending[j], u, col)

SettledInv ==
  \A u \in Users \ spoiled : \A col \in Columns :
    /\ NothingToSet(u, col) => users[u][col] = due[u][col]
    /\ \A i \in 1 .. Len(pending) :
         LastToSet(u, col, i) => pending[i].value = due[u][col]

-----------------------------------------------------------------------------
(* Rows and statements.                                                    *)

LEMMA RowTypes ==
  ASSUME NEW r \in Rows, NEW s \in Statements
  PROVE  [r EXCEPT ![s.column] = s.value] \in Rows
<1> DEFINE t == [r EXCEPT ![s.column] = s.value]
<1>1. s.column \in Columns /\ s.value \in Passwords \cup {NoPassword} \cup Nat
  BY DEF Statements, Columns
<1>2. t \in [Columns -> Passwords \cup {NoPassword} \cup Nat]
  BY <1>1 DEF Rows
<1>3. CASE s.column = "password"
  <2>1. s.value \in Passwords
    BY <1>3 DEF Statements
  <2>2. t["password"] = s.value /\ t["key"] = r["key"]
    BY <1>3 DEF Rows, Columns
  <2> QED
    BY <1>2, <2>1, <2>2 DEF Rows
<1>4. CASE s.column = "key"
  <2>1. s.value \in Nat
    BY <1>4 DEF Statements
  <2>2. t["key"] = s.value /\ t["password"] = r["password"]
    BY <1>4 DEF Rows, Columns
  <2> QED
    BY <1>2, <2>1, <2>2 DEF Rows
<1> QED
  BY <1>1, <1>3, <1>4 DEF Columns

LEMMA TableTypes ==
  ASSUME NEW table \in [Users -> Rows], NEW s \in Statements
  PROVE  [table EXCEPT ![s.user][s.column] = s.value] \in [Users -> Rows]
<1>1. s.user \in Users
  BY DEF Statements
<1>2. [table[s.user] EXCEPT ![s.column] = s.value] \in Rows
  BY <1>1, RowTypes
<1> QED
  BY <1>1, <1>2

LEMMA StatementTypes ==
  /\ \A u \in Users, insert \in BOOLEAN, p \in Passwords :
       Statement(u, insert, "password", p) \in Statements
  /\ \A u \in Users, n \in Nat : Statement(u, FALSE, "key", n) \in Statements
BY DEF Statement, Statements

LEMMA NoRowType == NoRow \in Rows
BY DEF NoRow, Row, Rows, Columns

-----------------------------------------------------------------------------
(* Types.                                                                  *)

LEMMA TypeInit == Init => TypeOK
<1> SUFFICES ASSUME Init PROVE TypeOK
  OBVIOUS
<1>1. users \in [Users -> Rows] /\ due \in [Users -> Rows]
  BY AuthAssumption DEF Init
<1>2. console \in {Idle} /\ row \in [Clients -> Rows]
  BY NoRowType DEF Init
<1>3. /\ pending \in Seq(Statements) /\ spoiled \subseteq Users
      /\ faults \in Nat /\ inputs \in Nat /\ keys \in Nat
      /\ m_username \in [Clients -> Users \cup {NoUser}]
      /\ finalChallenge \in [Clients -> Nat] /\ closed \in [Clients -> BOOLEAN]
      /\ sent \in [Clients -> Seq(Requests)] /\ replies \in [Clients -> Seq(Answers)]
      /\ arrived \in [Clients -> Nat] /\ cut \in [Clients -> Nat]
  BY DEF Init
<1>4. ASSUME NEW c \in Clients
      PROVE  /\ 2 * cut[c] <= arrived[c] /\ arrived[c] <= 2 * Len(sent[c])
             /\ Len(replies[c]) = (IF closed[c] THEN cut[c] - 1 ELSE cut[c])
             /\ Len(replies[c]) = 0
  BY DEF Init
<1> QED
  BY <1>1, <1>2, <1>3, <1>4 DEF TypeOK

(* What a statement that is written does, and one that fails.              *)
LEMMA WriteCases ==
  ASSUME Write
  PROVE  LET s == Head(pending) IN
         \/ /\ users' = [users EXCEPT ![s.user][s.column] = s.value]
            /\ spoiled' = spoiled /\ faults' = faults
         \/ /\ spoiled' = spoiled \cup {s.user} /\ users' = users
            /\ faults' = faults \/ faults' = faults + 1
BY Zenon DEF Write, Written, Fault

LEMMA TypeWrite == TypeOK /\ Write => TypeOK'
<1> SUFFICES ASSUME TypeOK, Write PROVE TypeOK'
  OBVIOUS
<1> DEFINE s == Head(pending)
<1>1. s \in Statements /\ pending' \in Seq(Statements)
  BY HeadTailProperties DEF TypeOK, Write
<1>2. users' \in [Users -> Rows]
  <2>1. [users EXCEPT ![s.user][s.column] = s.value] \in [Users -> Rows]
    BY <1>1, TableTypes DEF TypeOK
  <2> QED
    BY <2>1, WriteCases DEF TypeOK
<1>3. spoiled' \subseteq Users /\ faults' \in Nat
  <2>1. s.user \in Users
    BY <1>1 DEF Statements
  <2> QED
    BY <2>1, WriteCases DEF TypeOK
<1>4. UNCHANGED <<due, keys, console, inputs, sent, arrived, cut,
                  m_username, row, finalChallenge, closed, replies>>
  BY DEF Write, consoleVars, socketVars
<1> QED
  BY <1>1, <1>2, <1>3, <1>4 DEF TypeOK

LEMMA TypeCommand ==
  ASSUME TypeOK, NEW command \in {"register", "changePassword"},
         NEW u \in Users, NEW p \in Passwords, Command(command, u, p)
  PROVE  TypeOK'
<1>1. console' \in [command : {"register", "changePassword"}, user : Users,
                    password : Passwords, found : BOOLEAN]
  BY DEF Command
<1>2. faults' \in Nat /\ inputs' \in Nat
  BY DEF Command, Query, Fault, TypeOK
<1>3. UNCHANGED <<users, pending, due, spoiled, keys, sent, arrived, cut,
                  m_username, row, finalChallenge, closed, replies>>
  BY DEF Command, socketVars
<1> QED
  BY <1>1, <1>2, <1>3 DEF TypeOK

(* What a command of the console that is not refused does.                 *)
LEMMA SubmitCases ==
  ASSUME TypeOK, Submit
  PROVE  \/ UNCHANGED <<pending, due>>
         \/ \E u \in Users, insert \in BOOLEAN, p \in Passwords :
              /\ pending' = Append(pending, Statement(u, insert, "password", p))
              /\ due' = [due EXCEPT ![u]["password"] = p]
<1>1. CASE Refused
  BY <1>1 DEF Refused
<1>2. CASE CreateAccount \/ ChangePassword
  <2>1. console.command \in {"register", "changePassword"}
    BY <1>2 DEF CreateAccount, ChangePassword
  <2>2. console.user \in Users /\ console.password \in Passwords
    BY <2>1 DEF TypeOK, Idle
  <2> QED
    BY <1>2, <2>2 DEF CreateAccount, ChangePassword, Owe
<1> QED
  BY <1>1, <1>2 DEF Submit

LEMMA TypeSubmit == TypeOK /\ Submit => TypeOK'
<1> SUFFICES ASSUME TypeOK, Submit PROVE TypeOK'
  OBVIOUS
<1>1. pending' \in Seq(Statements) /\ due' \in [Users -> Rows]
  <2>1. CASE UNCHANGED <<pending, due>>
    BY <2>1 DEF TypeOK
  <2>2. ASSUME NEW u \in Users, NEW insert \in BOOLEAN, NEW p \in Passwords,
               pending' = Append(pending, Statement(u, insert, "password", p)),
               due' = [due EXCEPT ![u]["password"] = p]
        PROVE  pending' \in Seq(Statements) /\ due' \in [Users -> Rows]
    <3> DEFINE s == Statement(u, insert, "password", p)
    <3>1. s \in Statements
      BY StatementTypes
    <3>2. pending' \in Seq(Statements)
      BY <2>2, <3>1, AppendProperties DEF TypeOK
    <3>3. s.user = u /\ s.column = "password" /\ s.value = p
      BY DEF Statement
    <3>4. [due EXCEPT ![s.user][s.column] = s.value] \in [Users -> Rows]
      BY <3>1, TableTypes DEF TypeOK
    <3> QED
      BY <2>2, <3>2, <3>3, <3>4
  <2> QED
    BY <2>1, <2>2, SubmitCases
<1>2. console' \in {Idle}
  BY DEF Submit
<1>3. UNCHANGED <<users, spoiled, faults, keys, inputs, sent, arrived, cut,
                  m_username, row, finalChallenge, closed, replies>>
  BY DEF Submit, socketVars
<1> QED
  BY <1>1, <1>2, <1>3 DEF TypeOK

(* RegenerateKeys: nothing, or one statement about the keys of the user.   *)
LEMMA KeyCases ==
  ASSUME TypeOK, NEW c \in Clients, m_username[c] \in Users, RegenerateKeys(c)
  PROVE  \/ UNCHANGED <<keys, row, pending, due>>
         \/ /\ keys' = keys + 1
            /\ row' = [row EXCEPT ![c]["key"] = keys + 1]
            /\ pending' = Append(pending, Statement(m_username[c], FALSE, "key", keys + 1))
            /\ due' = [due EXCEPT ![m_username[c]]["key"] = keys + 1]
<1> DEFINE s == Statement(m_username[c], FALSE, "key", keys + 1)
<1>1. pending \o <<s>> = Append(pending, s)
  <2>1. pending \in Seq(Statements) /\ s \in Statements
    <3>1. keys + 1 \in Nat
      BY DEF TypeOK
    <3> QED
      BY <3>1, StatementTypes DEF TypeOK
  <2> HIDE DEF s
  <2> QED
    BY <2>1, AppendIsConcat
<1> QED
  BY <1>1 DEF RegenerateKeys, KeyUpdate, Owe

(* What a handler leaves alone, and that it replies or closes, unless the  *)
(* packet is ignored.                                                      *)
Replied(c, q) ==
  \/ Close(c)
  \/ \E answer \in Answers : Reply(c, answer) /\ (answer = Nothing <=> q.op = "Other")

Handled(c, q) ==
  /\ Replied(c, q)
  /\ pending' \in Seq(Statements) /\ due' \in [Users -> Rows]
  /\ faults' \in Nat /\ keys' \in Nat
  /\ m_username' \in [Clients -> Users \cup {NoUser}] /\ row' \in [Clients -> Rows]
  /\ finalChallenge' \in [Clients -> Nat]
  /\ UNCHANGED <<users, spoiled>>

LEMMA PublicKeyHandled ==
  ASSUME LoginInv, NEW c \in Clients, NEW q \in Requests,
         q.op = "GetPublicKeyRequest", HandleGetPublicKeyRequest(c)
  PROVE  Handled(c, q)
<1>1. [op |-> "GetPublicKeyReply"] \in Answers /\ [op |-> "GetPublicKeyReply"] # Nothing
  BY DEF Answers, Nothing
<1>2. Replied(c, q)
  BY <1>1 DEF HandleGetPublicKeyRequest, Replied
<1> QED
  BY <1>2 DEF HandleGetPublicKeyRequest, Handled, LoginInv, TypeOK, tableVars

LEMMA Ignored ==
  ASSUME LoginInv, NEW c \in Clients, NEW q \in Requests, q.op = "Other", Ignore(c)
  PROVE  Handled(c, q)
<1>1. Replied(c, q)
  BY DEF Ignore, Replied, Answers
<1> QED
  BY <1>1 DEF Ignore, Handled, LoginInv, TypeOK, tableVars

LEMMA AuthRequestHandled ==
  ASSUME LoginInv, NEW c \in Clients, NEW q \in Requests,
         q.op = "AuthRequest", HandleAuthRequest(c, q)
  PROVE  Handled(c, q)
<1>1. q.user \in Users
  BY DEF Requests
<1>2. UNCHANGED <<users, pending, due, spoiled, keys>>
  BY DEF HandleAuthRequest
<1>3. [op |-> "AuthChallenge"] \in Answers /\ [op |-> "AuthChallenge"] # Nothing
  BY DEF Answers, Nothing
<1>4. Replied(c, q)
  BY <1>3 DEF HandleAuthRequest, Replied
<1>5. faults' \in Nat
  BY DEF HandleAuthRequest, Query, Fault, LoginInv, TypeOK
<1>6. m_username' \in [Clients -> Users \cup {NoUser}]
  BY <1>1 DEF HandleAuthRequest, LoginInv, TypeOK
<1>7. row' \in [Clients -> Rows]
  <2>1. users[q.user] \in Rows
    BY <1>1 DEF LoginInv, TypeOK
  <2> QED
    BY <2>1 DEF HandleAuthRequest, LoginInv, TypeOK
<1>8. finalChallenge' \in [Clients -> Nat]
  <2>1. Len(replies[c]) + 1 \in Nat
    BY DEF LoginInv, TypeOK
  <2> QED
    BY <2>1 DEF HandleAuthRequest, LoginInv, TypeOK
<1> QED
  BY <1>2, <1>4, <1>5, <1>6, <1>7, <1>8 DEF Handled, LoginInv, TypeOK

(* A password that is right is that of a row that was read, for a user of  *)
(* the table, and a challenge was sent.                                    *)
LEMMA MetChallenge ==
  ASSUME LoginInv, NEW c \in Clients, NEW q \in Requests,
         q.op = "AuthChallengeResponse", q.password = row[c]["password"]
  PROVE  finalChallenge[c] # 0 /\ m_username[c] \in Users
<1>1. q.password \in Passwords
  BY DEF Requests
<1>2. q.password # NoPassword
  BY <1>1, AuthAssumption
<1> QED
  BY <1>2 DEF LoginInv, ChallengeKept, NoRowYet

LEMMA KeyTypes ==
  ASSUME LoginInv, NEW c \in Clients, m_username[c] \in Users, RegenerateKeys(c)
  PROVE  /\ pending' \in Seq(Statements) /\ due' \in [Users -> Rows]
         /\ keys' \in Nat /\ row' \in [Clients -> Rows]
<1> TypeOK
  BY DEF LoginInv
<1> DEFINE u == m_username[c]
           s == Statement(u, FALSE, "key", keys + 1)
<1>1. CASE UNCHANGED <<keys, row, pending, due>>
  BY <1>1 DEF TypeOK
<1>2. CASE /\ keys' = keys + 1
           /\ row' = [row EXCEPT ![c]["key"] = keys + 1]
           /\ pending' = Append(pending, s)
           /\ due' = [due EXCEPT ![u]["key"] = keys + 1]
  <2>1. keys + 1 \in Nat
    BY DEF TypeOK
  <2>2. s \in Statements
    BY <2>1, StatementTypes
  <2>3. s.user = u /\ s.column = "key" /\ s.value = keys + 1
    BY DEF Statement
  <2>4. pending' \in Seq(Statements)
    BY <1>2, <2>2, AppendProperties DEF TypeOK
  <2>5. due' \in [Users -> Rows]
    <3>1. [due EXCEPT ![s.user][s.column] = s.value] \in [Users -> Rows]
      BY <2>2, TableTypes DEF TypeOK
    <3> QED
      BY <1>2, <2>3, <3>1
  <2>6. row' \in [Clients -> Rows]
    <3>1. [row[c] EXCEPT ![s.column] = s.value] \in Rows
      BY <2>2, RowTypes DEF TypeOK
    <3> QED
      BY <1>2, <2>3, <3>1 DEF TypeOK
  <2> QED
    BY <1>2, <2>1, <2>4, <2>5, <2>6
<1> QED
  BY <1>1, <1>2, KeyCases

LEMMA ResponseHandled ==
  ASSUME LoginInv, NEW c \in Clients, NEW q \in Requests,
         q.op = "AuthChallengeResponse", HandleAuthChallengeResponse(c, q)
  PROVE  Handled(c, q)
<1>1. UNCHANGED <<users, spoiled, faults, m_username, finalChallenge>>
  BY DEF HandleAuthChallengeResponse
<1>2. CASE ChallengeMet(c, q) /\ q.password = row[c]["password"]
  <2>1. m_username[c] \in Users /\ RegenerateKeys(c)
    BY <1>2, MetChallenge DEF HandleAuthChallengeResponse
  <2>2. /\ [op |-> "AuthReply", user |-> m_username[c]] \in Answers
        /\ [op |-> "AuthReply", user |-> m_username[c]] # Nothing
    BY <2>1 DEF Answers, Nothing
  <2>3. Replied(c, q)
    BY <1>2, <2>2 DEF HandleAuthChallengeResponse, Replied
  <2> QED
    BY <1>1, <2>1, <2>3, KeyTypes DEF Handled, LoginInv, TypeOK
<1>3. CASE ~(ChallengeMet(c, q) /\ q.password = row[c]["password"])
  BY <1>1, <1>3 DEF HandleAuthChallengeResponse, Replied, Handled, LoginInv, TypeOK
<1> QED
  BY <1>2, <1>3

(* The packet that OnRead takes is the next one; it was sent by the client.*)
NextPacket(c) == sent[c][cut[c] + 1]

LEMMA PacketTaken ==
  ASSUME LoginInv, NEW c \in Clients, NEW n \in arrived[c] + 1 .. 2 * Len(sent[c]),
         Complete(c, n)
  PROVE  cut[c] + 1 \in 1 .. Len(sent[c]) /\ NextPacket(c) \in Requests
<1>1. sent[c] \in Seq(Requests) /\ cut[c] \in Nat /\ arrived[c] \in Nat
  BY DEF LoginInv, TypeOK
<1>2. cut[c] + 1 \in 1 .. Len(sent[c])
  BY <1>1 DEF Complete
<1>3. NextPacket(c) \in Requests
  BY <1>1, <1>2, ElementOfSeq DEF NextPacket
<1> QED
  BY <1>2, <1>3

LEMMA PacketHandled ==
  ASSUME LoginInv, NEW c \in Clients, NEW q \in Requests, ProcessData(c, q)
  PROVE  Handled(c, q)
BY PublicKeyHandled, AuthRequestHandled, ResponseHandled, Ignored DEF ProcessData

LEMMA AnswerTypes ==
  ASSUME LoginInv, NEW c \in Clients, NEW q, ~closed[c], Replied(c, q)
  PROVE  /\ closed' \in [Clients -> BOOLEAN] /\ replies' \in [Clients -> Seq(Answers)]
         /\ Len(replies'[c]) = Len(replies[c]) + (IF closed'[c] THEN 0 ELSE 1)
         /\ \A i \in 1 .. Len(replies[c]) : replies'[c][i] = replies[c][i]
         /\ ~closed'[c] => (replies'[c][Len(replies[c]) + 1] = Nothing <=> q.op = "Other")
         /\ \A d \in Clients : d # c => closed'[d] = closed[d] /\ replies'[d] = replies[d]
<1>1. CASE Close(c)
  BY <1>1 DEF Close, LoginInv, TypeOK
<1>2. CASE ~Close(c)
  <2>1. PICK answer \in Answers :
          Reply(c, answer) /\ (answer = Nothing <=> q.op = "Other")
    BY <1>2 DEF Replied
  <2>2. /\ Append(replies[c], answer) \in Seq(Answers)
        /\ Len(Append(replies[c], answer)) = Len(replies[c]) + 1
        /\ \A i \in 1 .. Len(replies[c]) : Append(replies[c], answer)[i] = replies[c][i]
        /\ Append(replies[c], answer)[Len(replies[c]) + 1] = answer
    BY AppendProperties DEF LoginInv, TypeOK
  <2>3. closed' = closed /\ replies' = [replies EXCEPT ![c] = Append(replies[c], answer)]
    BY <2>1 DEF Reply
  <2>4. replies' \in [Clients -> Seq(Answers)] /\ replies'[c] = Append(replies[c], answer)
    BY <2>2, <2>3 DEF LoginInv, TypeOK
  <2> QED
    BY <2>1, <2>2, <2>3, <2>4 DEF LoginInv, TypeOK
<1> QED
  BY <1>1, <1>2

(* The last clause of TypeOK for one client: what is there stays, and what *)
(* comes behind it answers the next packet.                                *)
OnlyOthersIgnored(answers, packets) ==
  \A i \in 1 .. Len(answers) : answers[i] = Nothing <=> packets[i].op = "Other"

(* One action of a connection: it changes what its client has only.        *)
LEMMA TypeOnRead ==
  ASSUME LoginInv, NEW c \in Clients, OnRead(c)
  PROVE  TypeOK'
<1>1. PICK n \in arrived[c] + 1 .. 2 * Len(sent[c]) :
        /\ arrived' = [arrived EXCEPT ![c] = n]
        /\ IF Complete(c, n)
             THEN /\ cut' = [cut EXCEPT ![c] = @ + 1]
                  /\ ProcessData(c, NextPacket(c))
             ELSE UNCHANGED <<cut, tableVars, keys, socketVars>>
  BY DEF OnRead, NextPacket
<1>2. ~closed[c] /\ UNCHANGED <<console, inputs, sent>>
  BY DEF OnRead, consoleVars
<1>3. /\ sent[c] \in Seq(Requests) /\ Len(sent[c]) \in Nat
      /\ cut[c] \in Nat /\ arrived[c] \in Nat /\ n \in Nat
      /\ arrived[c] < n /\ n <= 2 * Len(sent[c]) /\ 2 * cut[c] <= arrived[c]
      /\ Len(replies[c]) = cut[c]
  BY <1>1, <1>2 DEF LoginInv, TypeOK
<1>4. arrived' \in [Clients -> Nat]
  BY <1>1, <1>3 DEF LoginInv, TypeOK
<1>5. CASE ~Complete(c, n)
  <2>1. UNCHANGED <<cut, users, pending, due, spoiled, faults, keys,
                    m_username, row, finalChallenge, closed, replies>>
    BY <1>1, <1>5 DEF tableVars, socketVars
  <2>2. ASSUME NEW d \in Clients
        PROVE  /\ 2 * cut'[d] <= arrived'[d] /\ arrived'[d] <= 2 * Len(sent'[d])
               /\ Len(replies'[d]) = (IF closed'[d] THEN cut'[d] - 1 ELSE cut'[d])
               /\ OnlyOthersIgnored(replies'[d], sent'[d])
    <3>1. OnlyOthersIgnored(replies'[d], sent'[d])
      BY <1>2, <2>1 DEF LoginInv, TypeOK, OnlyOthersIgnored
    <3>2. CASE d = c
      BY <1>1, <1>2, <1>3, <2>1, <3>1, <3>2 DEF LoginInv, TypeOK
    <3>3. CASE d # c
      BY <1>1, <1>2, <2>1, <3>1, <3>3 DEF LoginInv, TypeOK
    <3> QED
      BY <3>2, <3>3
  <2> QED
    BY <1>2, <1>4, <2>1, <2>2 DEF LoginInv, TypeOK, OnlyOthersIgnored
<1>6. CASE Complete(c, n)
  <2>1. cut' = [cut EXCEPT ![c] = @ + 1] /\ Handled(c, NextPacket(c))
    <3>1. ProcessData(c, NextPacket(c))
      BY <1>1, <1>6
    <3> QED
      BY <1>1, <1>6, <3>1, PacketTaken, PacketHandled
  <2>2. cut' \in [Clients -> Nat] /\ cut'[c] = cut[c] + 1 /\ 2 * cut'[c] <= n
    BY <1>3, <1>6, <2>1 DEF Complete, LoginInv, TypeOK
  <2>3. /\ closed' \in [Clients -> BOOLEAN] /\ replies' \in [Clients -> Seq(Answers)]
        /\ Len(replies'[c]) = (IF closed'[c] THEN cut'[c] - 1 ELSE cut'[c])
        /\ \A d \in Clients : d # c => closed'[d] = closed[d] /\ replies'[d] = replies[d]
        /\ OnlyOthersIgnored(replies'[c], sent[c])
    <3>1. Replied(c, NextPacket(c))
      BY <2>1 DEF Handled
    <3>2. /\ closed' \in [Clients -> BOOLEAN] /\ replies' \in [Clients -> Seq(Answers)]
          /\ Len(replies'[c]) = Len(replies[c]) + (IF closed'[c] THEN 0 ELSE 1)
          /\ \A i \in 1 .. Len(replies[c]) : replies'[c][i] = replies[c][i]
          /\ ~closed'[c] =>
               (replies'[c][Len(replies[c]) + 1] = Nothing <=> NextPacket(c).op = "Other")
          /\ \A d \in Clients : d # c => closed'[d] = closed[d] /\ replies'[d] = replies[d]
      BY <1>2, <3>1, AnswerTypes, Zenon
    <3>3. Len(replies'[c]) = (IF closed'[c] THEN cut'[c] - 1 ELSE cut'[c])
      BY <1>3, <2>2, <3>2
    <3>4. ASSUME NEW i \in 1 .. Len(replies'[c])
          PROVE  replies'[c][i] = Nothing <=> sent[c][i].op = "Other"
      <4>1. CASE i \in 1 .. Len(replies[c])
        BY <3>2, <4>1 DEF LoginInv, TypeOK
      <4>2. CASE i \notin 1 .. Len(replies[c])
        <5>1. i = Len(replies[c]) + 1 /\ ~closed'[c]
          BY <1>3, <3>2, <4>2
        <5> QED
          BY <1>3, <3>2, <5>1 DEF NextPacket
      <4> QED
        BY <4>1, <4>2
    <3>5. OnlyOthersIgnored(replies'[c], sent[c])
      BY <3>4 DEF OnlyOthersIgnored
    <3> QED
      BY <3>2, <3>3, <3>5
  <2>4. ASSUME NEW d \in Clients
        PROVE  /\ 2 * cut'[d] <= arrived'[d] /\ arrived'[d] <= 2 * Len(sent'[d])
               /\ Len(replies'[d]) = (IF closed'[d] THEN cut'[d] - 1 ELSE cut'[d])
               /\ OnlyOthersIgnored(replies'[d], sent'[d])
    <3>1. CASE d = c
      <4>1. arrived'[c] = n
        BY <1>1 DEF LoginInv, TypeOK
      <4> QED
        BY <1>2, <1>3, <2>2, <2>3, <3>1, <4>1
    <3>2. CASE d # c
      <4>1. cut'[d] = cut[d] /\ arrived'[d] = arrived[d]
        BY <1>1, <2>1, <3>2 DEF LoginInv, TypeOK
      <4>2. closed'[d] = closed[d] /\ replies'[d] = replies[d] /\ sent'[d] = sent[d]
        BY <1>2, <2>3, <3>2
      <4>3. /\ 2 * cut[d] <= arrived[d] /\ arrived[d] <= 2 * Len(sent[d])
            /\ Len(replies[d]) = (IF closed[d] THEN cut[d] - 1 ELSE cut[d])
            /\ OnlyOthersIgnored(replies[d], sent[d])
        BY DEF LoginInv, TypeOK, OnlyOthersIgnored
      <4> QED
        BY <4>1, <4>2, <4>3
    <3> QED
      BY <3>1, <3>2
  <2>5. UNCHANGED <<users, spoiled>>
    BY <2>1 DEF Handled
  <2>6. /\ pending' \in Seq(Statements) /\ due' \in [Users -> Rows]
        /\ faults' \in Nat /\ keys' \in Nat
        /\ m_username' \in [Clients -> Users \cup {NoUser}] /\ row' \in [Clients -> Rows]
        /\ finalChallenge' \in [Clients -> Nat]
    BY <2>1 DEF Handled
  <2> QED
    BY <1>2, <1>4, <2>2, <2>3, <2>4, <2>5, <2>6 DEF LoginInv, TypeOK, OnlyOthersIgnored
<1> QED
  BY <1>5, <1>6

(* A packet that is sent goes behind those before it.                      *)
LEMMA PacketTypes ==
  ASSUME TypeOK, NEW c \in Clients, NEW q \in Packets(c)
  PROVE  q \in Requests
<1>1. Challenges(c) \cup {0} \subseteq Nat
  <2>1. replies[c] \in Seq(Answers)
    BY DEF TypeOK
  <2>2. DOMAIN replies[c] = 1 .. Len(replies[c]) /\ Len(replies[c]) \in Nat
    BY <2>1
  <2> QED
    BY <2>2 DEF Challenges
<1>2. CASE q \in [op : {"AuthChallengeResponse"}, password : Passwords,
                   challenge : Challenges(c) \cup {0}]
  BY <1>1, <1>2 DEF Requests
<1>3. CASE q \in [op : {"AuthRequest"}, user : Users,
                   readable : {b \in BOOLEAN : b \/ sent[c] = <<>>}]
  BY <1>3 DEF Requests
<1>4. CASE q \in {[op |-> "GetPublicKeyRequest"], [op |-> "Other"]}
  BY <1>4 DEF Requests
<1> QED
  BY <1>2, <1>3, <1>4 DEF Packets

LEMMA SentBefore ==
  ASSUME TypeOK, NEW c \in Clients, ClientSend(c)
  PROVE  \E q \in Packets(c) :
           /\ q \in Requests /\ sent' = [sent EXCEPT ![c] = Append(sent[c], q)]
           /\ sent' \in [Clients -> Seq(Requests)]
           /\ Len(sent'[c]) = Len(sent[c]) + 1
           /\ \A i \in 1 .. Len(sent[c]) : sent'[c][i] = sent[c][i]
           /\ sent'[c][Len(sent[c]) + 1] = q
<1>1. PICK q \in Packets(c) : sent' = [sent EXCEPT ![c] = Append(sent[c], q)]
  BY DEF ClientSend
<1>2. q \in Requests /\ sent[c] \in Seq(Requests)
  BY PacketTypes DEF TypeOK
<1>3. /\ Append(sent[c], q) \in Seq(Requests)
      /\ Len(Append(sent[c], q)) = Len(sent[c]) + 1
      /\ \A i \in 1 .. Len(sent[c]) : Append(sent[c], q)[i] = sent[c][i]
      /\ Append(sent[c], q)[Len(sent[c]) + 1] = q
  BY <1>2, AppendProperties
<1>4. sent' \in [Clients -> Seq(Requests)] /\ sent'[c] = Append(sent[c], q)
  BY <1>1, <1>3 DEF TypeOK
<1> QED
  BY <1>1, <1>2, <1>3, <1>4

(* A client has at most as many replies as packets it sent.                *)
LEMMA RepliesToPackets ==
  ASSUME TypeOK, NEW c \in Clients
  PROVE  /\ Len(replies[c]) \in Nat /\ Len(sent[c]) \in Nat
         /\ Len(replies[c]) <= Len(sent[c])
         /\ finalChallenge[c] \in Nat
<1>1. /\ 2 * cut[c] <= arrived[c] /\ arrived[c] <= 2 * Len(sent[c])
      /\ Len(replies[c]) = (IF closed[c] THEN cut[c] - 1 ELSE cut[c])
      /\ cut[c] \in Nat /\ arrived[c] \in Nat /\ Len(sent[c]) \in Nat
      /\ Len(replies[c]) \in Nat
  BY DEF TypeOK
<1> QED
  BY <1>1 DEF TypeOK

LEMMA TypeClientSend ==
  ASSUME TypeOK, NEW c \in Clients, ClientSend(c)
  PROVE  TypeOK'
<1>1. /\ sent' \in [Clients -> Seq(Requests)]
      /\ Len(sent'[c]) = Len(sent[c]) + 1
      /\ \A i \in 1 .. Len(sent[c]) : sent'[c][i] = sent[c][i]
      /\ \A d \in Clients : d # c => sent'[d] = sent[d]
  BY SentBefore, SMTT(20) DEF TypeOK
<1>2. UNCHANGED <<users, pending, due, spoiled, faults, keys, console, arrived,
                  cut, m_username, row, finalChallenge, closed, replies>>
  BY DEF ClientSend, tableVars, socketVars
<1>3. inputs' \in Nat
  BY DEF ClientSend, TypeOK
<1>4. ASSUME NEW d \in Clients
      PROVE  2 * cut[d] <= arrived[d] /\ arrived[d] <= 2 * Len(sent'[d])
  <2>1. /\ 2 * cut[d] <= arrived[d] /\ arrived[d] <= 2 * Len(sent[d])
        /\ Len(sent[d]) \in Nat /\ arrived[d] \in Nat
    BY DEF TypeOK
  <2>2. Len(sent'[d]) \in {Len(sent[d]), Len(sent[d]) + 1}
    BY <1>1
  <2> QED
    BY <2>1, <2>2
<1>5. ASSUME NEW d \in Clients, NEW i \in 1 .. Len(replies[d])
      PROVE  replies[d][i] = Nothing <=> sent'[d][i].op = "Other"
  <2>1. i \in 1 .. Len(sent[d])
    BY RepliesToPackets
  <2>2. sent'[d][i] = sent[d][i]
    BY <1>1, <2>1
  <2> QED
    BY <2>2 DEF TypeOK
<1> QED
  BY <1>1, <1>2, <1>3, <1>4, <1>5 DEF TypeOK

-----------------------------------------------------------------------------
(* RightUser.                                                              *)

RightInv == LoginInv /\ RightUser

LEMMA RightInit == Init => RightInv
<1> SUFFICES ASSUME Init PROVE RightInv
  OBVIOUS
<1>1. TypeOK
  BY TypeInit
<1>2. ChallengeKept
  BY DEF Init, ChallengeKept
<1>3. ASSUME NEW c \in Clients PROVE Len(sent[c]) = 0 /\ Len(replies[c]) = 0
  BY DEF Init
<1>4. NoRowYet /\ RightUser
  BY <1>3 DEF Init, NoRow, Row, Columns, NoRowYet, RightUser
<1> QED
  BY <1>1, <1>2, <1>4 DEF RightInv, LoginInv

(* What the table and the console do disturbs none of it.                  *)
LEMMA RightElsewhere ==
  ASSUME RightInv, TypeOK',
         UNCHANGED <<sent, m_username, row, finalChallenge, closed, replies>>
  PROVE  RightInv'
BY DEF RightInv, LoginInv, ChallengeKept, NoRowYet, RightUser

LEMMA RightClientSend ==
  ASSUME RightInv, NEW c \in Clients, ClientSend(c)
  PROVE  RightInv'
<1>1. TypeOK /\ TypeOK'
  BY TypeClientSend DEF RightInv, LoginInv
<1>2. PICK q \in Packets(c) :
        /\ q \in Requests /\ sent' = [sent EXCEPT ![c] = Append(sent[c], q)]
        /\ Len(sent'[c]) = Len(sent[c]) + 1
        /\ \A i \in 1 .. Len(sent[c]) : sent'[c][i] = sent[c][i]
        /\ sent'[c][Len(sent[c]) + 1] = q
  BY <1>1, SentBefore, ZenonT(30)
<1>3. UNCHANGED <<m_username, row, finalChallenge, closed, replies>>
  BY DEF ClientSend, socketVars
<1>4. \A d \in Clients : \A i \in 1 .. Len(sent[d]) : sent'[d][i] = sent[d][i]
  BY <1>1, <1>2 DEF TypeOK
<1>5. ChallengeKept'
  <2> SUFFICES ASSUME NEW d \in Clients, finalChallenge[d] # 0
               PROVE  /\ m_username[d] \in Users /\ finalChallenge[d] <= Len(replies[d])
                      /\ replies[d][finalChallenge[d]].op = "AuthChallenge"
                      /\ ~closed[d] => sent'[d][finalChallenge[d]].user = m_username[d]
    BY <1>3 DEF ChallengeKept
  <2>1. finalChallenge[d] \in 1 .. Len(sent[d])
    BY <1>1, RepliesToPackets DEF RightInv, LoginInv, ChallengeKept
  <2> QED
    BY <1>4, <2>1 DEF RightInv, LoginInv, ChallengeKept
<1>6. NoRowYet'
  BY <1>3 DEF RightInv, LoginInv, NoRowYet
<1>7. RightUser'
  <2> SUFFICES ASSUME NEW d \in Clients, NEW i \in 1 .. Len(replies[d]),
                      replies[d][i].op = "AuthReply"
               PROVE  LET j == sent'[d][i].challenge IN
                      /\ j \in 1 .. i - 1 /\ replies[d][j].op = "AuthChallenge"
                      /\ sent'[d][j].user = replies[d][i].user
    BY <1>3 DEF RightUser
  <2> DEFINE j == sent[d][i].challenge
  <2>1. /\ j \in 1 .. i - 1 /\ replies[d][j].op = "AuthChallenge"
        /\ sent[d][j].user = replies[d][i].user
    BY DEF RightInv, RightUser
  <2>2. i \in 1 .. Len(sent[d]) /\ j \in 1 .. Len(sent[d])
    BY <1>1, <2>1, RepliesToPackets
  <2>3. sent'[d][i] = sent[d][i] /\ sent'[d][j] = sent[d][j]
    BY <1>4, <2>2
  <2> QED
    BY <2>1, <2>3
<1> QED
  BY <1>1, <1>5, <1>6, <1>7 DEF RightInv, LoginInv

(* What a packet that is taken does to the challenge, the name and the     *)
(* replies of its connection; q is the next packet.                        *)
LEMMA RepliesOfHandlers ==
  ASSUME RightInv, NEW c \in Clients, ~closed[c], NEW q \in Requests, ProcessData(c, q)
  PROVE  \* the connection is closed, its name may have changed
         \/ /\ closed' = [closed EXCEPT ![c] = TRUE]
            /\ UNCHANGED <<replies, finalChallenge>>
            /\ \/ UNCHANGED m_username
               \/ \E u \in Users : m_username' = [m_username EXCEPT ![c] = u]
         \* the reply leaves the challenge alone, or is a challenge
         \/ \E answer \in Answers :
               /\ Reply(c, answer) /\ UNCHANGED <<finalChallenge, m_username>>
               /\ answer.op = "AuthReply" =>
                    /\ q.op = "AuthChallengeResponse" /\ q.challenge = finalChallenge[c]
                    /\ finalChallenge[c] # 0 /\ answer.user = m_username[c]
         \/ \E answer \in Answers :
               /\ Reply(c, answer) /\ answer.op = "AuthChallenge"
               /\ q.op = "AuthRequest" /\ q.user \in Users
               /\ m_username' = [m_username EXCEPT ![c] = q.user]
               /\ finalChallenge' = [finalChallenge EXCEPT ![c] = Len(replies[c]) + 1]
<1>1. CASE q.op = "GetPublicKeyRequest" /\ HandleGetPublicKeyRequest(c)
  <2>1. [op |-> "GetPublicKeyReply"] \in Answers
    BY DEF Answers
  <2>2. /\ Reply(c, [op |-> "GetPublicKeyReply"])
        /\ UNCHANGED <<finalChallenge, m_username>>
    BY <1>1 DEF HandleGetPublicKeyRequest
  <2> QED
    BY <2>1, <2>2
<1>2. CASE q.op = "AuthRequest" /\ HandleAuthRequest(c, q)
  <2>1. q.user \in Users
    BY <1>2 DEF Requests
  <2>2. [op |-> "AuthChallenge"] \in Answers
    BY DEF Answers
  <2>3. CASE ~q.readable
    BY <1>2, <2>3 DEF HandleAuthRequest, Close
  <2>4. CASE /\ m_username' = [m_username EXCEPT ![c] = q.user]
             /\ Close(c) /\ UNCHANGED finalChallenge
    BY <2>1, <2>4 DEF Close
  <2>5. CASE /\ m_username' = [m_username EXCEPT ![c] = q.user]
             /\ finalChallenge' = [finalChallenge EXCEPT ![c] = Len(replies[c]) + 1]
             /\ Reply(c, [op |-> "AuthChallenge"])
    BY <1>2, <2>1, <2>2, <2>5
  <2> QED
    BY <1>2, <2>3, <2>4, <2>5 DEF HandleAuthRequest
<1>3. CASE q.op = "AuthChallengeResponse" /\ HandleAuthChallengeResponse(c, q)
  <2>1. UNCHANGED <<finalChallenge, m_username>>
    BY <1>3 DEF HandleAuthChallengeResponse
  <2>2. CASE Close(c)
    BY <2>1, <2>2 DEF Close
  <2>3. CASE /\ ChallengeMet(c, q) /\ q.password = row[c]["password"]
             /\ Reply(c, [op |-> "AuthReply", user |-> m_username[c]])
    <3>1. finalChallenge[c] # 0 /\ m_username[c] \in Users
      BY <1>3, <2>3, MetChallenge DEF RightInv
    <3>2. [op |-> "AuthReply", user |-> m_username[c]] \in Answers
      BY <3>1 DEF Answers
    <3>3. q.challenge = finalChallenge[c]
      BY <2>3 DEF ChallengeMet
    <3> QED
      BY <1>3, <2>1, <2>3, <3>1, <3>2, <3>3
  <2> QED
    BY <1>3, <2>2, <2>3 DEF HandleAuthChallengeResponse
<1>4. CASE q.op = "Other" /\ Ignore(c)
  <2>1. Nothing \in Answers /\ Nothing.op # "AuthReply"
    BY DEF Answers, Nothing
  <2>2. Reply(c, Nothing) /\ UNCHANGED <<finalChallenge, m_username>>
    BY <1>4 DEF Ignore
  <2> QED
    BY <2>1, <2>2
<1> QED
  BY <1>1, <1>2, <1>3, <1>4 DEF ProcessData

(* A row comes with its challenge; made keys leave its password alone.     *)
LEMMA RowOfHandlers ==
  ASSUME RightInv, NEW c \in Clients, NEW q \in Requests, ProcessData(c, q)
  PROVE  NoRowYet'
<1> SUFFICES ASSUME NEW d \in Clients, finalChallenge'[d] = 0
             PROVE  row'[d]["password"] = NoPassword
  BY DEF NoRowYet
<1>1. /\ Len(replies[c]) \in Nat /\ row \in [Clients -> Rows]
      /\ finalChallenge \in [Clients -> Nat]
      /\ \A e \in Clients : finalChallenge[e] = 0 => row[e]["password"] = NoPassword
  BY DEF RightInv, LoginInv, NoRowYet, TypeOK
<1>2. CASE UNCHANGED <<row, finalChallenge>>
  BY <1>1, <1>2
<1>3. ASSUME NEW r, row' = [row EXCEPT ![c] = r],
             finalChallenge' = [finalChallenge EXCEPT ![c] = Len(replies[c]) + 1]
      PROVE  row'[d]["password"] = NoPassword
  BY <1>1, <1>3
<1>4. ASSUME NEW key, row' = [row EXCEPT ![c]["key"] = key], UNCHANGED finalChallenge
      PROVE  row'[d]["password"] = NoPassword
  <2>1. row'[d]["password"] = row[d]["password"]
    <3>1. row[c] \in [Columns -> Passwords \cup {NoPassword} \cup Nat]
      BY <1>1 DEF Rows
    <3> QED
      BY <1>1, <1>4, <3>1 DEF Columns
  <2> QED
    BY <1>1, <1>4, <2>1
<1> QED
  BY <1>2, <1>3, <1>4 DEF ProcessData, HandleGetPublicKeyRequest, HandleAuthRequest,
     HandleAuthChallengeResponse, RegenerateKeys, Ignore

LEMMA ReplyAppends ==
  ASSUME LoginInv, NEW c \in Clients, NEW answer \in Answers, Reply(c, answer)
  PROVE  /\ closed' = closed /\ Len(replies[c]) \in Nat
         /\ Len(replies'[c]) = Len(replies[c]) + 1
         /\ \A i \in 1 .. Len(replies[c]) : replies'[c][i] = replies[c][i]
         /\ replies'[c][Len(replies[c]) + 1] = answer
         /\ \A d \in Clients : d # c => replies'[d] = replies[d]
<1>1. replies[c] \in Seq(Answers)
  BY DEF LoginInv, TypeOK
<1>2. closed' = closed /\ replies' = [replies EXCEPT ![c] = Append(replies[c], answer)]
  BY DEF Reply
<1>3. /\ Len(Append(replies[c], answer)) = Len(replies[c]) + 1
      /\ \A i \in 1 .. Len(replies[c]) : Append(replies[c], answer)[i] = replies[c][i]
      /\ Append(replies[c], answer)[Len(replies[c]) + 1] = answer
  BY <1>1, AppendProperties
<1>4. replies'[c] = Append(replies[c], answer) /\ \A d \in Clients : d # c => replies'[d] = replies[d]
  BY <1>2 DEF LoginInv, TypeOK
<1> QED
  BY <1>1, <1>2, <1>3, <1>4

(* The replies before stay right; the new one is an AuthReply only for the *)
(* challenge that is kept.                                                 *)
LEMMA RepliesStayRight ==
  ASSUME RightInv, NEW c \in Clients, ~closed[c], NEW answer \in Answers, Reply(c, answer),
         sent' = sent, Len(replies[c]) = cut[c],
         answer.op = "AuthReply" =>
           /\ NextPacket(c).challenge = finalChallenge[c]
           /\ finalChallenge[c] # 0 /\ answer.user = m_username[c]
  PROVE  RightUser'
<1> SUFFICES ASSUME NEW d \in Clients, NEW i \in 1 .. Len(replies'[d]),
                    replies'[d][i].op = "AuthReply"
             PROVE  LET j == sent[d][i].challenge IN
                    /\ j \in 1 .. i - 1 /\ replies'[d][j].op = "AuthChallenge"
                    /\ sent[d][j].user = replies'[d][i].user
  BY DEF RightUser
<1> DEFINE j == sent[d][i].challenge
<1>1. LoginInv /\ TypeOK
  BY DEF RightInv, LoginInv
<1>2. CASE d # c
  BY <1>1, <1>2, ReplyAppends, SMTT(20) DEF RightInv, RightUser
<1>3. CASE d = c /\ i \in 1 .. Len(replies[c])
  <2>1. replies'[c][i] = replies[c][i]
    BY <1>1, <1>3, ReplyAppends
  <2>2. /\ j \in 1 .. i - 1 /\ replies[c][j].op = "AuthChallenge"
        /\ sent[c][j].user = replies[c][i].user
    BY <1>3, <2>1 DEF RightInv, RightUser
  <2>3. j \in 1 .. Len(replies[c])
    BY <1>1, <1>3, <2>2, RepliesToPackets
  <2>4. replies'[c][j] = replies[c][j]
    BY <1>1, <2>3, ReplyAppends
  <2> QED
    BY <1>3, <2>1, <2>2, <2>4
<1>4. CASE d = c /\ i \notin 1 .. Len(replies[c])
  <2>1. i = Len(replies[c]) + 1 /\ replies'[c][i] = answer
    BY <1>1, <1>4, ReplyAppends
  <2>2. sent[c][i] = NextPacket(c) /\ i = cut[c] + 1
    BY <2>1 DEF NextPacket
  <2>3. j = finalChallenge[c] /\ finalChallenge[c] # 0 /\ answer.user = m_username[c]
    BY <1>4, <2>1, <2>2
  <2>4. /\ finalChallenge[c] <= Len(replies[c])
        /\ replies[c][finalChallenge[c]].op = "AuthChallenge"
        /\ sent[c][finalChallenge[c]].user = m_username[c]
    BY <1>1, <2>3 DEF LoginInv, ChallengeKept
  <2>5. finalChallenge[c] \in 1 .. Len(replies[c]) /\ Len(replies[c]) \in Nat
    BY <1>1, <2>3, <2>4, RepliesToPackets
  <2>6. replies'[c][finalChallenge[c]] = replies[c][finalChallenge[c]]
    BY <1>1, <2>5, ReplyAppends
  <2> QED
    BY <1>4, <2>1, <2>3, <2>4, <2>5, <2>6
<1> QED
  BY <1>2, <1>3, <1>4

LEMMA RightOnRead ==
  ASSUME RightInv, NEW c \in Clients, OnRead(c)
  PROVE  RightInv'
<1> DEFINE q == NextPacket(c)
<1>1. LoginInv /\ TypeOK /\ TypeOK'
  BY TypeOnRead DEF RightInv, LoginInv
<1>2. ~closed[c] /\ sent' = sent /\ Len(replies[c]) = cut[c]
  BY <1>1 DEF OnRead, TypeOK
<1>3. PICK n \in arrived[c] + 1 .. 2 * Len(sent[c]) :
        IF Complete(c, n) THEN ProcessData(c, q) ELSE UNCHANGED socketVars
  BY DEF OnRead, NextPacket
<1>4. CASE ~Complete(c, n)
  BY <1>1, <1>2, <1>3, <1>4, RightElsewhere DEF socketVars
<1>5. CASE Complete(c, n)
  <2>1. q \in Requests /\ ProcessData(c, q)
    BY <1>1, <1>3, <1>5, PacketTaken
  <2> HIDE DEF q
  <2>2. NoRowYet'
    BY <2>1, RowOfHandlers
  <2>3. CASE /\ closed' = [closed EXCEPT ![c] = TRUE]
             /\ UNCHANGED <<replies, finalChallenge>>
             /\ \/ UNCHANGED m_username
                \/ \E u \in Users : m_username' = [m_username EXCEPT ![c] = u]
    <3>1. ChallengeKept'
      <4> SUFFICES ASSUME NEW d \in Clients, finalChallenge[d] # 0
                   PROVE  /\ m_username'[d] \in Users /\ finalChallenge[d] <= Len(replies[d])
                          /\ replies[d][finalChallenge[d]].op = "AuthChallenge"
                          /\ ~closed'[d] => sent[d][finalChallenge[d]].user = m_username'[d]
        BY <1>2, <2>3 DEF ChallengeKept
      <4>1. /\ m_username[d] \in Users /\ finalChallenge[d] <= Len(replies[d])
            /\ replies[d][finalChallenge[d]].op = "AuthChallenge"
            /\ ~closed[d] => sent[d][finalChallenge[d]].user = m_username[d]
        BY DEF RightInv, LoginInv, ChallengeKept
      <4>2. CASE d = c
        <5>1. closed'[c] /\ m_username'[c] \in Users
          BY <1>1, <2>3, <4>1, <4>2 DEF TypeOK
        <5> QED
          BY <4>1, <4>2, <5>1
      <4>3. CASE d # c
        <5>1. closed'[d] = closed[d] /\ m_username'[d] = m_username[d]
          BY <1>1, <2>3, <4>3 DEF TypeOK
        <5> QED
          BY <4>1, <5>1
      <4> QED
        BY <4>2, <4>3
    <3>2. RightUser'
      BY <1>2, <2>3 DEF RightInv, RightUser
    <3> QED
      BY <1>1, <2>2, <3>1, <3>2 DEF RightInv, LoginInv
  <2>4. ASSUME NEW answer \in Answers, Reply(c, answer),
               UNCHANGED <<finalChallenge, m_username>>,
               answer.op = "AuthReply" =>
                 /\ q.op = "AuthChallengeResponse" /\ q.challenge = finalChallenge[c]
                 /\ finalChallenge[c] # 0 /\ answer.user = m_username[c]
        PROVE  RightInv'
    <3>1. ChallengeKept'
      <4> SUFFICES ASSUME NEW d \in Clients, finalChallenge[d] # 0
                   PROVE  /\ m_username[d] \in Users /\ finalChallenge[d] <= Len(replies'[d])
                          /\ replies'[d][finalChallenge[d]].op = "AuthChallenge"
                          /\ ~closed'[d] => sent[d][finalChallenge[d]].user = m_username[d]
        BY <1>2, <2>4 DEF ChallengeKept
      <4>1. /\ m_username[d] \in Users /\ finalChallenge[d] <= Len(replies[d])
            /\ replies[d][finalChallenge[d]].op = "AuthChallenge"
            /\ ~closed[d] => sent[d][finalChallenge[d]].user = m_username[d]
        BY DEF RightInv, LoginInv, ChallengeKept
      <4>2. finalChallenge[d] \in 1 .. Len(replies[d]) /\ Len(replies[d]) \in Nat
        BY <1>1, <4>1, RepliesToPackets
      <4>3. /\ closed' = closed /\ Len(replies[d]) <= Len(replies'[d])
            /\ replies'[d][finalChallenge[d]] = replies[d][finalChallenge[d]]
        BY <1>1, <2>4, <4>2, ReplyAppends
      <4>4. finalChallenge[d] <= Len(replies'[d])
        <5>1. Len(replies'[d]) \in Nat /\ finalChallenge[d] \in Nat
          BY <1>1 DEF TypeOK
        <5> QED
          BY <4>1, <4>2, <4>3, <5>1
      <4> QED
        BY <4>1, <4>3, <4>4
    <3>2. RightUser'
      BY <1>1, <1>2, <2>4, RepliesStayRight DEF q
    <3> QED
      BY <1>1, <2>2, <3>1, <3>2 DEF RightInv, LoginInv
  <2>5. ASSUME NEW answer \in Answers, Reply(c, answer), answer.op = "AuthChallenge",
               q.op = "AuthRequest", q.user \in Users,
               m_username' = [m_username EXCEPT ![c] = q.user],
               finalChallenge' = [finalChallenge EXCEPT ![c] = Len(replies[c]) + 1]
        PROVE  RightInv'
    <3>1. ChallengeKept'
      <4> SUFFICES ASSUME NEW d \in Clients, finalChallenge'[d] # 0
                   PROVE  /\ m_username'[d] \in Users
                          /\ finalChallenge'[d] <= Len(replies'[d])
                          /\ replies'[d][finalChallenge'[d]].op = "AuthChallenge"
                          /\ ~closed'[d] => sent[d][finalChallenge'[d]].user = m_username'[d]
        BY <1>2 DEF ChallengeKept
      <4>1. CASE d = c
        <5>1. m_username'[c] = q.user /\ finalChallenge'[c] = Len(replies[c]) + 1
          BY <1>1, <2>5 DEF TypeOK
        <5>2. /\ Len(replies'[c]) = Len(replies[c]) + 1 /\ Len(replies[c]) \in Nat
              /\ replies'[c][Len(replies[c]) + 1] = answer
          BY <1>1, <2>5, ReplyAppends
        <5>3. sent[c][Len(replies[c]) + 1] = q
          BY <1>2 DEF q, NextPacket
        <5> QED
          BY <2>5, <4>1, <5>1, <5>2, <5>3
      <4>2. CASE d # c
        <5>1. m_username'[d] = m_username[d] /\ finalChallenge'[d] = finalChallenge[d]
          BY <1>1, <2>5, <4>2 DEF TypeOK
        <5>2. closed' = closed /\ replies'[d] = replies[d]
          BY <1>1, <2>5, <4>2, ReplyAppends
        <5> QED
          BY <5>1, <5>2 DEF RightInv, LoginInv, ChallengeKept
      <4> QED
        BY <4>1, <4>2
    <3>2. RightUser'
      BY <1>1, <1>2, <2>5, RepliesStayRight
    <3> QED
      BY <1>1, <2>2, <3>1, <3>2 DEF RightInv, LoginInv
  <2> QED
    BY <1>2, <2>1, <2>3, <2>4, <2>5, RepliesOfHandlers
<1> QED
  BY <1>4, <1>5

LEMMA RightStutters ==
  ASSUME RightInv, UNCHANGED vars
  PROVE  RightInv'
<1>1. UNCHANGED <<users, pending, due, spoiled, faults, keys, console, inputs, sent,
                  arrived, cut, m_username, row, finalChallenge, closed, replies>>
  BY DEF vars, tableVars, consoleVars, socketVars
<1>2. TypeOK'
  BY <1>1 DEF RightInv, LoginInv, TypeOK
<1> QED
  BY <1>1, <1>2, RightElsewhere

LEMMA RightStep == RightInv /\ [Next]_vars => RightInv'
<1> SUFFICES ASSUME RightInv, [Next]_vars PROVE RightInv'
  OBVIOUS
<1>1. TypeOK
  BY DEF RightInv, LoginInv
<1>2. CASE Write
  <2>1. TypeOK' /\ UNCHANGED <<sent, m_username, row, finalChallenge, closed, replies>>
    BY <1>1, <1>2, TypeWrite DEF Write, socketVars
  <2> QED
    BY <2>1, RightElsewhere
<1>3. CASE Submit
  <2>1. TypeOK' /\ UNCHANGED <<sent, m_username, row, finalChallenge, closed, replies>>
    BY <1>1, <1>3, TypeSubmit DEF Submit, socketVars
  <2> QED
    BY <2>1, RightElsewhere
<1>4. ASSUME NEW command \in {"register", "changePassword"}, NEW u \in Users,
             NEW p \in Passwords, Command(command, u, p)
      PROVE  RightInv'
  <2>1. TypeOK' /\ UNCHANGED <<sent, m_username, row, finalChallenge, closed, replies>>
    BY <1>1, <1>4, TypeCommand DEF Command, socketVars
  <2> QED
    BY <2>1, RightElsewhere
<1>5. ASSUME NEW c \in Clients, OnRead(c) PROVE RightInv'
  BY <1>5, RightOnRead
<1>6. ASSUME NEW c \in Clients, ClientSend(c) PROVE RightInv'
  BY <1>6, RightClientSend
<1>7. CASE UNCHANGED vars
  BY <1>7, RightStutters
<1> QED
  BY <1>2, <1>3, <1>4, <1>5, <1>6, <1>7 DEF Next

(* For every set of clients, users and passwords, and however often        *)
(* statements and queries fail, the variables of the auth server keep      *)
(* their types, and every packet taken has one reply or closes, unless its *)
(* opcode has no handler.                                                  *)
THEOREM TypeCorrect == Spec => []TypeOK
<1>1. RightInv => TypeOK
  BY DEF RightInv, LoginInv
<1> QED
  BY <1>1, RightInit, RightStep, PTL DEF Spec

(* For every set of clients and users, and in whatever order a client      *)
(* sends its packets, an AuthReply is for the user whose challenge was     *)
(* answered (AuthSocket.cpp:362).                                          *)
THEOREM LoggedInAsAsked == Spec => []RightUser
<1>1. RightInv => RightUser
  BY DEF RightInv
<1> QED
  BY <1>1, RightInit, RightStep, PTL DEF Spec

-----------------------------------------------------------------------------
(* Settled.                                                                *)

LEMMA SettledInit == Init => SettledInv
<1> SUFFICES ASSUME Init PROVE SettledInv
  OBVIOUS
<1>1. Len(pending) = 0 /\ due = users
  BY DEF Init
<1> QED
  BY <1>1 DEF SettledInv

(* A statement that is queued when its value becomes due is the last one   *)
(* to set its column; it is none of the others.                            *)
LEMMA SettledAppend ==
  ASSUME TypeOK, SettledInv, NEW s \in Statements, pending' = Append(pending, s),
         due' = [due EXCEPT ![s.user][s.column] = s.value],
         UNCHANGED <<users, spoiled>>
  PROVE  SettledInv'
<1> DEFINE L == Len(pending)
<1>1. /\ L \in Nat /\ Len(pending') = L + 1 /\ pending'[L + 1] = s
      /\ \A i \in 1 .. L : pending'[i] = pending[i]
  BY AppendProperties DEF TypeOK
<1>2. s.user \in Users /\ s.column \in Columns
  BY DEF Statements, Columns
<1> SUFFICES ASSUME NEW u \in Users \ spoiled, NEW col \in Columns
             PROVE  /\ NothingToSet(u, col)' => users[u][col] = due'[u][col]
                    /\ \A i \in 1 .. L + 1 :
                         LastToSet(u, col, i)' => pending'[i].value = due'[u][col]
  BY <1>1 DEF SettledInv
<1>3. \A v \in Users : due[v] \in [Columns -> Passwords \cup {NoPassword} \cup Nat]
  BY DEF TypeOK, Rows
<1>4. CASE Sets(s, u, col)
  <2>1. due'[u][col] = s.value
    <3>1. s.user = u /\ s.column = col
      BY <1>4 DEF Sets
    <3>2. due'[u] = [due[u] EXCEPT ![col] = s.value]
      BY <3>1 DEF TypeOK
    <3> QED
      BY <1>3, <3>2
  <2>2. ~NothingToSet(u, col)'
    BY <1>1, <1>4 DEF NothingToSet
  <2>3. ASSUME NEW i \in 1 .. L + 1, LastToSet(u, col, i)'
        PROVE  i = L + 1
    <3>1. \A j \in i + 1 .. L + 1 : ~Sets(pending'[j], u, col)
      BY <1>1, <2>3 DEF LastToSet
    <3>2. L + 1 \notin i + 1 .. L + 1
      BY <1>1, <1>4, <3>1
    <3> QED
      BY <1>1, <3>2
  <2> QED
    BY <1>1, <2>1, <2>2, <2>3
<1>5. CASE ~Sets(s, u, col)
  <2>1. due'[u][col] = due[u][col]
    <3>1. CASE s.user = u
      <4>1. s.column # col
        BY <1>5, <3>1 DEF Sets
      <4>2. due'[u] = [due[u] EXCEPT ![s.column] = s.value]
        BY <3>1 DEF TypeOK
      <4> QED
        BY <1>3, <4>1, <4>2
    <3>2. CASE s.user # u
      BY <3>2 DEF TypeOK
    <3> QED
      BY <3>1, <3>2
  <2>2. NothingToSet(u, col)' => NothingToSet(u, col)
    BY <1>1 DEF NothingToSet
  <2>3. ASSUME NEW i \in 1 .. L + 1, LastToSet(u, col, i)'
        PROVE  i \in 1 .. L /\ LastToSet(u, col, i)
    <3>1. Sets(pending'[i], u, col) /\ \A j \in i + 1 .. L + 1 : ~Sets(pending'[j], u, col)
      BY <1>1, <2>3 DEF LastToSet
    <3>2. i \in 1 .. L
      BY <1>1, <1>5, <3>1
    <3>3. \A j \in i + 1 .. L : j \in i + 1 .. L + 1 /\ j \in 1 .. L
      BY <1>1, <3>2
    <3> QED
      BY <1>1, <3>1, <3>2, <3>3 DEF LastToSet
  <2> QED
    BY <1>1, <2>1, <2>2, <2>3 DEF SettledInv
<1> QED
  BY <1>4, <1>5

(* Writing the first statement: it was the last to set its column, and     *)
(* sets what is due, or another comes behind it.                           *)
LEMMA SettledWrite ==
  ASSUME TypeOK, SettledInv, Write
  PROVE  SettledInv'
<1> DEFINE L == Len(pending)
           s == Head(pending)
<1>1. /\ pending \in Seq(Statements) /\ pending # <<>> /\ pending' = Tail(pending)
      /\ due' = due
  BY DEF Write, TypeOK
<1>2. /\ L \in Nat /\ L >= 1 /\ s = pending[1] /\ s \in Statements
      /\ Len(pending') = L - 1
      /\ \A i \in 1 .. L - 1 : pending'[i] = pending[i + 1]
  BY <1>1, HeadTailProperties, EmptySeq, LenProperties
<1>3. s.user \in Users /\ s.column \in Columns
  BY <1>2 DEF Statements, Columns
<1> HIDE DEF L, s
<1> SUFFICES ASSUME NEW u \in Users \ spoiled', NEW col \in Columns
             PROVE  /\ NothingToSet(u, col)' => users'[u][col] = due[u][col]
                    /\ \A i \in 1 .. L - 1 :
                         LastToSet(u, col, i)' => pending'[i].value = due[u][col]
  BY <1>1, <1>2 DEF SettledInv
<1>4. u \in Users \ spoiled
  BY WriteCases
<1>5. \A i \in 1 .. L - 1 : LastToSet(u, col, i)' => LastToSet(u, col, i + 1)
  <2> SUFFICES ASSUME NEW i \in 1 .. L - 1, LastToSet(u, col, i)'
               PROVE  LastToSet(u, col, i + 1)
    OBVIOUS
  <2>1. Sets(pending'[i], u, col) /\ \A j \in i + 1 .. L - 1 : ~Sets(pending'[j], u, col)
    BY <1>2 DEF LastToSet
  <2>2. ASSUME NEW j \in i + 2 .. L PROVE ~Sets(pending[j], u, col)
    <3>1. j - 1 \in i + 1 .. L - 1 /\ j - 1 \in 1 .. L - 1 /\ (j - 1) + 1 = j
      BY <1>2
    <3> QED
      BY <1>2, <2>1, <3>1
  <2>3. (i + 1) + 1 = i + 2
    BY <1>2
  <2> QED
    BY <1>2, <2>1, <2>2, <2>3 DEF LastToSet, L
<1>6. \A i \in 1 .. L - 1 : LastToSet(u, col, i)' => pending'[i].value = due[u][col]
  <2> SUFFICES ASSUME NEW i \in 1 .. L - 1, LastToSet(u, col, i)'
               PROVE  pending'[i].value = due[u][col]
    OBVIOUS
  <2>1. i + 1 \in 1 .. Len(pending)
    BY <1>2 DEF L
  <2> QED
    BY <1>2, <1>4, <1>5, <2>1 DEF SettledInv
<1>7. ASSUME NothingToSet(u, col)' PROVE \A j \in 2 .. L : ~Sets(pending[j], u, col)
  <2> SUFFICES ASSUME NEW j \in 2 .. L PROVE ~Sets(pending[j], u, col)
    OBVIOUS
  <2>1. j - 1 \in 1 .. L - 1 /\ (j - 1) + 1 = j
    BY <1>2
  <2> QED
    BY <1>2, <1>7, <2>1 DEF NothingToSet
<1>8. ASSUME NothingToSet(u, col)' PROVE users'[u][col] = due[u][col]
  <2>1. CASE Sets(s, u, col)
    <3>1. s.user = u /\ s.column = col
      BY <2>1 DEF Sets
    <3>2. users' = [users EXCEPT ![s.user][s.column] = s.value]
      BY <3>1, WriteCases DEF s
    <3>3. users'[u][col] = s.value
      <4>1. users[u] \in [Columns -> Passwords \cup {NoPassword} \cup Nat]
        BY DEF TypeOK, Rows
      <4>2. users'[u] = [users[u] EXCEPT ![col] = s.value]
        BY <3>1, <3>2 DEF TypeOK
      <4> QED
        BY <4>1, <4>2
    <3>4. LastToSet(u, col, 1)
      <4>1. \A j \in 1 + 1 .. Len(pending) : ~Sets(pending[j], u, col)
        BY <1>7, <1>8 DEF L
      <4> QED
        BY <1>2, <2>1, <4>1 DEF LastToSet
    <3>5. 1 \in 1 .. Len(pending)
      BY <1>2 DEF L
    <3> QED
      BY <1>2, <1>4, <3>3, <3>4, <3>5 DEF SettledInv
  <2>2. CASE ~Sets(s, u, col)
    <3>1. NothingToSet(u, col)
      <4> SUFFICES ASSUME NEW j \in 1 .. L PROVE ~Sets(pending[j], u, col)
        BY DEF NothingToSet, L
      <4>1. j = 1 \/ j \in 2 .. L
        BY <1>2
      <4> QED
        BY <1>2, <1>7, <1>8, <2>2, <4>1
    <3>2. users'[u][col] = users[u][col]
      <4>1. \A v \in Users : users[v] \in [Columns -> Passwords \cup {NoPassword} \cup Nat]
        BY DEF TypeOK, Rows
      <4>2. CASE users' = users
        BY <4>2
      <4>3. CASE users' = [users EXCEPT ![s.user][s.column] = s.value]
        <5>1. CASE s.user = u
          <6>1. s.column # col
            BY <2>2, <5>1 DEF Sets
          <6>2. users'[u] = [users[u] EXCEPT ![s.column] = s.value]
            BY <4>3, <5>1 DEF TypeOK
          <6> QED
            BY <4>1, <6>1, <6>2
        <5>2. CASE s.user # u
          BY <4>3, <5>2 DEF TypeOK
        <5> QED
          BY <5>1, <5>2
      <4> QED
        BY <4>2, <4>3, WriteCases DEF s
    <3> QED
      BY <1>4, <3>1, <3>2 DEF SettledInv
  <2> QED
    BY <2>1, <2>2
<1> QED
  BY <1>6, <1>8

LEMMA SettledElsewhere ==
  ASSUME SettledInv, UNCHANGED <<users, pending, due, spoiled>>
  PROVE  SettledInv'
BY DEF SettledInv, NothingToSet, LastToSet

LEMMA SettledSubmit ==
  ASSUME TypeOK, SettledInv, Submit
  PROVE  SettledInv'
<1>1. UNCHANGED <<users, spoiled>>
  BY DEF Submit
<1>2. CASE UNCHANGED <<pending, due>>
  BY <1>1, <1>2, SettledElsewhere
<1>3. ASSUME NEW u \in Users, NEW insert \in BOOLEAN, NEW p \in Passwords,
             pending' = Append(pending, Statement(u, insert, "password", p)),
             due' = [due EXCEPT ![u]["password"] = p]
      PROVE  SettledInv'
  <2> DEFINE s == Statement(u, insert, "password", p)
  <2>1. s \in Statements /\ s.user = u /\ s.column = "password" /\ s.value = p
    BY StatementTypes DEF Statement
  <2>2. pending' = Append(pending, s)
    BY <1>3
  <2>3. due' = [due EXCEPT ![s.user][s.column] = s.value]
    BY <1>3, <2>1
  <2> HIDE DEF s
  <2> QED
    BY <1>1, <2>1, <2>2, <2>3, SettledAppend
<1> QED
  BY <1>2, <1>3, SubmitCases

LEMMA SettledKeys ==
  ASSUME TypeOK, SettledInv, NEW c \in Clients, m_username[c] \in Users,
         RegenerateKeys(c), UNCHANGED <<users, spoiled>>
  PROVE  SettledInv'
<1>1. CASE UNCHANGED <<pending, due>>
  BY <1>1, SettledElsewhere
<1>2. CASE /\ pending' = Append(pending, Statement(m_username[c], FALSE, "key", keys + 1))
           /\ due' = [due EXCEPT ![m_username[c]]["key"] = keys + 1]
  <2> DEFINE s == Statement(m_username[c], FALSE, "key", keys + 1)
  <2>1. keys + 1 \in Nat
    BY DEF TypeOK
  <2>2. s \in Statements /\ s.user = m_username[c] /\ s.column = "key" /\ s.value = keys + 1
    BY <2>1, StatementTypes DEF Statement
  <2>3. pending' = Append(pending, s)
    BY <1>2
  <2>4. due' = [due EXCEPT ![s.user][s.column] = s.value]
    BY <1>2, <2>2
  <2> HIDE DEF s
  <2> QED
    BY <2>2, <2>3, <2>4, SettledAppend
<1> QED
  BY <1>1, <1>2, KeyCases

LEMMA SettledOnRead ==
  ASSUME RightInv, SettledInv, NEW c \in Clients, OnRead(c)
  PROVE  SettledInv'
<1> DEFINE q == NextPacket(c)
<1>1. LoginInv /\ TypeOK
  BY DEF RightInv, LoginInv
<1>2. PICK n \in arrived[c] + 1 .. 2 * Len(sent[c]) :
        IF Complete(c, n) THEN ProcessData(c, q) ELSE UNCHANGED tableVars
  BY DEF OnRead, NextPacket
<1>3. CASE ~Complete(c, n)
  BY <1>2, <1>3, SettledElsewhere DEF tableVars
<1>4. CASE Complete(c, n)
  <2>1. q \in Requests /\ ProcessData(c, q)
    BY <1>1, <1>2, <1>4, PacketTaken
  <2> HIDE DEF q
  <2>2. CASE HandleGetPublicKeyRequest(c)
    BY <2>2, SettledElsewhere DEF HandleGetPublicKeyRequest, tableVars
  <2>3. CASE HandleAuthRequest(c, q)
    BY <2>3, SettledElsewhere DEF HandleAuthRequest
  <2>4. CASE q.op = "AuthChallengeResponse" /\ HandleAuthChallengeResponse(c, q)
    <3>1. UNCHANGED <<users, spoiled>>
      BY <2>4 DEF HandleAuthChallengeResponse
    <3>2. CASE q.password = row[c]["password"] /\ RegenerateKeys(c)
      <4>1. m_username[c] \in Users
        BY <1>1, <2>1, <2>4, <3>2, MetChallenge
      <4> QED
        BY <1>1, <3>1, <3>2, <4>1, SettledKeys
    <3>3. CASE UNCHANGED <<pending, due>>
      BY <3>1, <3>3, SettledElsewhere
    <3> QED
      BY <2>4, <3>2, <3>3 DEF HandleAuthChallengeResponse
  <2>5. CASE Ignore(c)
    BY <2>5, SettledElsewhere DEF Ignore, tableVars
  <2> QED
    BY <2>1, <2>2, <2>3, <2>4, <2>5 DEF ProcessData
<1> QED
  BY <1>3, <1>4

LEMMA SettledStep == RightInv /\ SettledInv /\ [Next]_vars => SettledInv'
<1> SUFFICES ASSUME RightInv, SettledInv, [Next]_vars PROVE SettledInv'
  OBVIOUS
<1>1. TypeOK
  BY DEF RightInv, LoginInv
<1>2. CASE Write
  BY <1>1, <1>2, SettledWrite
<1>3. CASE Submit
  BY <1>1, <1>3, SettledSubmit
<1>4. ASSUME NEW command \in {"register", "changePassword"}, NEW u \in Users,
             NEW p \in Passwords, Command(command, u, p)
      PROVE  SettledInv'
  BY <1>4, SettledElsewhere DEF Command
<1>5. ASSUME NEW c \in Clients, OnRead(c) PROVE SettledInv'
  BY <1>5, SettledOnRead
<1>6. ASSUME NEW c \in Clients, ClientSend(c) PROVE SettledInv'
  BY <1>6, SettledElsewhere DEF ClientSend, tableVars
<1>7. CASE UNCHANGED vars
  BY <1>7, SettledElsewhere DEF vars, tableVars
<1> QED
  BY <1>2, <1>3, <1>4, <1>5, <1>6, <1>7 DEF Next

LEMMA NothingPending ==
  ASSUME TypeOK, SettledInv, NEW u \in Users \ spoiled,
         \A i \in DOMAIN pending : pending[i].user # u
  PROVE  users[u] = due[u]
<1>1. DOMAIN pending = 1 .. Len(pending)
  BY DEF TypeOK
<1>2. \A col \in Columns : NothingToSet(u, col)
  BY <1>1 DEF NothingToSet, Sets
<1>3. \A col \in Columns : users[u][col] = due[u][col]
  BY <1>2 DEF SettledInv
<1>4. /\ users[u] \in [Columns -> Passwords \cup {NoPassword} \cup Nat]
      /\ due[u] \in [Columns -> Passwords \cup {NoPassword} \cup Nat]
  BY DEF TypeOK, Rows
<1> QED
  BY <1>3, <1>4

(* For every set of clients, users and passwords, and every order in which *)
(* the console, the connections and the executor come to their turns: once *)
(* the statements of a user are written, its row has the password the      *)
(* operator was last told and the keys that were made last, unless one of  *)
(* them failed.                                                            *)
THEOREM RowsSettle == Spec => []Settled
<1>1. RightInv /\ SettledInv => Settled
  BY NothingPending DEF Settled, RightInv, LoginInv
<1> QED
  BY <1>1, RightInit, RightStep, SettledInit, SettledStep, PTL DEF Spec
=============================================================================
