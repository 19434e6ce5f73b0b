------------------------------ MODULE Presence ------------------------------
(***************************************************************************)
(* What the game server promises its clients about the players in the      *)
(* world: whoever spawns is told to all who are present, and whoever is    *)
(* populated is told of all who are; the news of a spawn lapses only if    *)
(* the player is gone before it was sent, and no spawn is sent after that; *)
(* all who are present when a spawned player leaves are told so, and they  *)
(* are told so of nobody else.  It does not promise when.                  *)
(***************************************************************************)
CONSTANT Players  \* no player comes twice

VARIABLES
  present,    \* the players who have a client and an object
  past,       \* those who had
  spawned,    \* those present who have spawned
  populated,  \* those whose world was populated
  told,       \* whose spawn each client is to be sent, or was
  seen,       \* whose spawn it was sent
  parted,     \* whose deletion it is to be sent, or was
  ended       \* whose deletion it was sent

vars == <<present, past, spawned, populated, told, seen, parted, ended>>

Nobody == [p \in Players |-> {}]

Init ==
  /\ present = {} /\ past = {} /\ spawned = {} /\ populated = {}
  /\ told = Nobody /\ seen = Nobody /\ parted = Nobody /\ ended = Nobody

Enter(p) ==
  /\ p \notin present \cup past
  /\ present' = present \cup {p}
  /\ UNCHANGED <<past, spawned, populated, told, seen, parted, ended>>

(* What p or anybody does when p is served: p spawns, some are populated.  *)
News(x) ==
  {q \in present \cap Players :
     \/ x \in present /\ q \in spawned' \ spawned
     \/ x \in populated' \ populated /\ q # x}

Tell(p) ==
  \E lapsed \in SUBSET (told[p] \ (present \cup seen[p])) :
    told' = [x \in Players |-> (told[x] \ (IF x = p THEN lapsed ELSE {})) \cup News(x)]

Show(p) ==
  /\ \E now \in SUBSET (told'[p] \cap present) : seen' = [seen EXCEPT ![p] = @ \cup now]
  /\ \E now \in SUBSET parted[p] : ended' = [ended EXCEPT ![p] = @ \cup now]

Serve(p) ==
  /\ p \in present
  /\ spawned' \in {spawned, spawned \cup {p}}
  /\ populated \subseteq populated' /\ populated' \subseteq populated \cup present
  /\ Tell(p) /\ Show(p)
  /\ UNCHANGED <<present, past, parted>>

Leave(p) ==
  /\ p \in present
  /\ present' = present \ {p} /\ past' = past \cup {p} /\ spawned' = spawned \ {p}
  /\ told' = [told EXCEPT ![p] = {}] /\ seen' = [seen EXCEPT ![p] = {}]
  /\ parted' = [x \in Players |->
                  IF x = p THEN {}
                  ELSE parted[x] \cup {q \in {p} \cap spawned : x \in present}]
  /\ ended' = [ended EXCEPT ![p] = {}]
  /\ UNCHANGED populated

Next == \E p \in Players : Enter(p) \/ Serve(p) \/ Leave(p)

Spec == Init /\ [][Next]_vars
=============================================================================
