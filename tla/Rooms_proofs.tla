---------------------------- MODULE Rooms_proofs ----------------------------
(***************************************************************************)
(* Proofs about Rooms, for any number of connections, rooms and broadcasts. *)
(***************************************************************************)
EXTENDS Rooms, TLAPS

\* The actions of one task, as one list.
LEMMA TaskActions ==
    ASSUME NEW c \in Conns, Step(c)
    PROVE  \/ \E r \in RoomIds :
                 \/ CreateLooks(c, r) \/ CreateInserts(c, r)
                 \/ RemoveRoom(c, r) \/ Join(c, r) \/ Leave(c, r) \/ Members(c, r)
                 \/ BroadcastBegins(c, r)
           \/ \E m \in Conns : SendArrives(c, m) \/ SendFails(c, m)
           \/ BroadcastEnds(c)
BY DEF Step, OpStep, SendStep

LEMMA NoJobType == NoJob \in JobType \cup {NoJob}
OBVIOUS

-----------------------------------------------------------------------------
(* Types, and who holds the lock *)

\* An operation that ends leaves well-typed program counters, and the lock
\* free when it held it.
LEMMA EndType ==
    ASSUME TypeOK, NEW c \in Conns, NEW state \in {"idle", "panicked"}, End(c, state)
    PROVE  /\ holder' \in Conns \cup {None}
           /\ \A d \in Conns : holder' = d <=> pc'[d] = "send"
           /\ pc' \in [Conns -> {"idle", "wait", "insert", "send", "panicked"}]
           /\ job' \in [Conns -> JobType \cup {NoJob}]
           /\ \A d \in Conns : pc'[d] \in {"wait", "insert", "send"} => job'[d] \in JobType
           /\ todo' \in [Conns -> SUBSET Conns]
           /\ serial' \in [Conns -> Nat]
BY ConnsAssumption DEF TypeOK, End

\* The state of the rooms keeps its type, and the lock is kept over an await by
\* exactly the task that is inside a broadcast.
THEOREM Typing == Spec => []TypeOK
<1> USE ConnsAssumption
<1>1. Init => TypeOK
  BY DEF Init, TypeOK
<1>2. TypeOK /\ [Next]_vars => TypeOK'
  <2> SUFFICES ASSUME TypeOK, [Next]_vars PROVE TypeOK'
    OBVIOUS
  <2>1. ASSUME NEW c \in Conns, Call(c) PROVE TypeOK'
    BY <2>1 DEF Call, TypeOK
  <2>2. ASSUME NEW m \in Mortals, GoesAway(m) PROVE TypeOK'
    BY <2>2 DEF GoesAway, TypeOK
  <2>3. ASSUME NEW c \in Conns, NEW r \in RoomIds, CreateLooks(c, r) PROVE TypeOK'
    <3>1. CASE Exists(r)
      BY <2>3, <3>1, EndType DEF CreateLooks, TypeOK
    <3>2. CASE ~Exists(r)
      BY <2>3, <3>2 DEF CreateLooks, Locks, TypeOK
    <3> QED BY <3>1, <3>2
  <2>4. ASSUME NEW c \in Conns, NEW r \in RoomIds, CreateInserts(c, r) PROVE TypeOK'
    BY <2>4, EndType DEF CreateInserts, TypeOK
  <2>5. ASSUME NEW c \in Conns, NEW r \in RoomIds, RemoveRoom(c, r) PROVE TypeOK'
    BY <2>5, EndType DEF RemoveRoom, TypeOK
  <2>6. ASSUME NEW c \in Conns, NEW r \in RoomIds, Join(c, r) PROVE TypeOK'
    BY ZenonT(30), <2>6, EndType DEF Join, TypeOK
  <2>7. ASSUME NEW c \in Conns, NEW r \in RoomIds, Leave(c, r) PROVE TypeOK'
    BY <2>7, EndType DEF Leave, TypeOK
  <2>8. ASSUME NEW c \in Conns, NEW r \in RoomIds, Members(c, r) PROVE TypeOK'
    BY <2>8, EndType DEF Members, TypeOK
  <2>9. ASSUME NEW c \in Conns, NEW r \in RoomIds, BroadcastBegins(c, r) PROVE TypeOK'
    <3>1. CASE Exists(r)
      <4>1. /\ pc[c] = "wait" /\ holder = None /\ holder' = c
            /\ pc' = [pc EXCEPT ![c] = "send"]
            /\ todo' = [todo EXCEPT ![c] = rooms[r] \ {c}]
            /\ broadcasts' = broadcasts + 1
            /\ serial' = [serial EXCEPT ![c] = broadcasts + 1]
            /\ UNCHANGED <<job, rooms, gone, inbox>>
        BY <2>9, <3>1 DEF BroadcastBegins, Locks
      <4>2. rooms[r] \subseteq Conns
        BY <3>1 DEF Exists, TypeOK
      <4>3. \A d \in Conns : holder' = d <=> pc'[d] = "send"
        BY <4>1 DEF TypeOK
      <4> QED BY <4>1, <4>2, <4>3 DEF TypeOK
    <3>2. CASE ~Exists(r)
      BY <2>9, <3>2, EndType DEF BroadcastBegins, TypeOK
    <3> QED BY <3>1, <3>2
  <2>10. ASSUME NEW c \in Conns, NEW m \in Conns, SendArrives(c, m) PROVE TypeOK'
    <3>1. [from |-> c, room |-> job[c].room, n |-> serial[c]] \in Broadcast
      BY <2>10 DEF SendArrives, TypeOK, Broadcast, JobType
    <3>2. inbox' \in [Conns -> Seq(Broadcast)]
      BY <2>10, <3>1 DEF SendArrives, TypeOK
    <3> QED BY <2>10, <3>2 DEF SendArrives, TypeOK
  <2>11. ASSUME NEW c \in Conns, NEW m \in Conns, SendFails(c, m) PROVE TypeOK'
    BY <2>11, EndType DEF SendFails, TypeOK
  <2>12. ASSUME NEW c \in Conns, BroadcastEnds(c) PROVE TypeOK'
    BY <2>12, EndType DEF BroadcastEnds, TypeOK
  <2>13. CASE UNCHANGED vars
    BY <2>13 DEF vars, TypeOK
  <2> QED BY <2>1, <2>2, <2>3, <2>4, <2>5, <2>6, <2>7, <2>8, <2>9, <2>10, <2>11, <2>12,
             <2>13, TaskActions DEF Next
<1> QED BY <1>1, <1>2, PTL DEF Spec

-----------------------------------------------------------------------------
(* The order of broadcasts *)

\* Apart from the start of a broadcast and its sends, a step delivers nothing
\* and leaves every broadcast that goes on as it is.
Quiet ==
    /\ UNCHANGED <<inbox, broadcasts>>
    /\ \A d \in Conns : pc'[d] = "send" =>
          pc[d] = "send" /\ todo'[d] = todo[d] /\ serial'[d] = serial[d]

LEMMA QuietSteps ==
    ASSUME TypeOK, [Next]_vars
    PROVE  \/ Quiet
           \/ \E c \in Conns, r \in RoomIds : BroadcastBegins(c, r) /\ Exists(r)
           \/ \E c \in Conns, m \in Conns : SendArrives(c, m)
<1>1. ASSUME NEW c \in Conns, NEW state \in {"idle", "panicked"}, End(c, state),
             UNCHANGED <<inbox, broadcasts>>
      PROVE  Quiet
  BY <1>1 DEF End, Quiet, TypeOK
<1>2. ASSUME NEW c \in Conns, Call(c) PROVE Quiet
  BY <1>2 DEF Call, Quiet, TypeOK
<1>3. ASSUME NEW m \in Mortals, GoesAway(m) PROVE Quiet
  BY <1>3 DEF GoesAway, Quiet
<1>4. ASSUME NEW c \in Conns, NEW r \in RoomIds,
             \/ CreateInserts(c, r) \/ RemoveRoom(c, r) \/ Join(c, r) \/ Leave(c, r)
             \/ Members(c, r)
      PROVE  Quiet
  BY <1>1, <1>4 DEF CreateInserts, RemoveRoom, Join, Leave, Members
<1>5. ASSUME NEW c \in Conns, NEW r \in RoomIds, CreateLooks(c, r) PROVE Quiet
  <2>1. CASE Exists(r)
    BY <1>1, <1>5, <2>1 DEF CreateLooks
  <2>2. CASE ~Exists(r)
    BY <1>5, <2>2 DEF CreateLooks, Quiet, TypeOK
  <2> QED BY <2>1, <2>2
<1>6. ASSUME NEW c \in Conns, NEW m \in Conns, SendFails(c, m) PROVE Quiet
  BY <1>1, <1>6 DEF SendFails
<1>7. ASSUME NEW c \in Conns, BroadcastEnds(c) PROVE Quiet
  BY <1>1, <1>7 DEF BroadcastEnds
<1>8. ASSUME NEW c \in Conns, NEW r \in RoomIds, BroadcastBegins(c, r), ~Exists(r)
      PROVE  Quiet
  BY <1>1, <1>8 DEF BroadcastBegins
<1>9. CASE UNCHANGED vars
  BY <1>9 DEF vars, Quiet
<1> QED BY <1>2, <1>3, <1>4, <1>5, <1>6, <1>7, <1>8, <1>9, TaskActions DEF Next

\* The lock is kept over all sends of a broadcast, so the one broadcast that is
\* going on has the highest number given out, and the members it has still to
\* reach have seen only lower ones.
OrderInv ==
    /\ \A m \in Conns : \A i \in DOMAIN inbox[m] : inbox[m][i].n <= broadcasts
    /\ \A c \in Conns : pc[c] = "send" =>
          /\ serial[c] = broadcasts
          /\ \A m \in todo[c] : \A i \in DOMAIN inbox[m] : inbox[m][i].n < broadcasts
    /\ SameOrder

\* All members see the broadcasts in the order in which they got the lock, for
\* any number of rooms, members and broadcasts, whoever fails.
THEOREM Ordered == Spec => []SameOrder
<1> USE ConnsAssumption
<1>1. Init => OrderInv
  BY DEF Init, OrderInv, SameOrder
<1>2. TypeOK /\ OrderInv /\ [Next]_vars => OrderInv'
  <2> SUFFICES ASSUME TypeOK, OrderInv, [Next]_vars PROVE OrderInv'
    OBVIOUS
  <2>0. /\ \A m \in Conns : inbox[m] \in Seq(Broadcast)
        /\ broadcasts \in Nat
        /\ \A m \in Conns : \A i \in DOMAIN inbox[m] : inbox[m][i].n \in Nat
    <3>1. /\ \A m \in Conns : inbox[m] \in Seq(Broadcast)
          /\ broadcasts \in Nat
      BY DEF TypeOK
    <3>2. \A b \in Broadcast : b.n \in Nat
      BY DEF Broadcast
    <3>3. ASSUME NEW m \in Conns, NEW i \in DOMAIN inbox[m] PROVE inbox[m][i] \in Broadcast
      BY <3>1
    <3> QED BY <3>1, <3>2, <3>3
  <2>1. CASE Quiet
    BY <2>1 DEF Quiet, OrderInv, SameOrder
  <2>2. ASSUME NEW c \in Conns, NEW r \in RoomIds, BroadcastBegins(c, r), Exists(r)
        PROVE  OrderInv'
    <3>1. /\ \A d \in Conns : pc[d] # "send"
          /\ inbox' = inbox /\ broadcasts' = broadcasts + 1
          /\ serial'[c] = broadcasts + 1
          /\ \A d \in Conns : d # c => pc'[d] # "send"
      BY <2>2 DEF BroadcastBegins, Locks, TypeOK
    <3>2. todo'[c] \subseteq Conns
      BY <2>2 DEF BroadcastBegins, Exists, TypeOK
    <3> QED BY <2>0, <3>1, <3>2 DEF OrderInv, SameOrder
  <2>3. ASSUME NEW c \in Conns, NEW m \in Conns, SendArrives(c, m) PROVE OrderInv'
    <3>1. /\ pc[c] = "send" /\ m \in todo[c]
          /\ UNCHANGED <<pc, serial, broadcasts>>
          /\ todo' = [todo EXCEPT ![c] = @ \ {m}]
      BY <2>3 DEF SendArrives
    <3>2. \A d \in Conns : pc[d] = "send" => d = c
      BY <3>1 DEF TypeOK
    <3>3. CASE m \in gone
      <4>1. inbox' = inbox
        BY <2>3, <3>3 DEF SendArrives
      <4>2. todo'[c] \subseteq todo[c]
        BY <3>1 DEF TypeOK
      <4> QED BY <3>1, <3>2, <4>1, <4>2 DEF OrderInv, SameOrder
    <3>4. CASE m \notin gone
      <4> DEFINE b == [from |-> c, room |-> job[c].room, n |-> serial[c]]
      <4>1. /\ inbox'[m] = Append(inbox[m], b)
            /\ \A d \in Conns : d # m => inbox'[d] = inbox[d]
        BY <2>3, <3>4 DEF SendArrives, TypeOK
      <4>2. b \in Broadcast /\ b.n = broadcasts
        BY <3>1 DEF TypeOK, Broadcast, JobType, OrderInv
      <4> HIDE DEF b
      <4>3. /\ DOMAIN inbox'[m] = 1..(Len(inbox[m]) + 1)
            /\ DOMAIN inbox[m] = 1..Len(inbox[m]) /\ Len(inbox[m]) \in Nat
            /\ \A i \in 1..Len(inbox[m]) : inbox'[m][i] = inbox[m][i]
            /\ inbox'[m][Len(inbox[m]) + 1] = b
        BY <2>0, <4>1, <4>2
      <4>4. \A i \in DOMAIN inbox[m] : inbox[m][i].n < broadcasts
        BY <3>1 DEF OrderInv
      <4>5. /\ \A i \in DOMAIN inbox'[m] : inbox'[m][i].n <= broadcasts
            /\ \A i, j \in DOMAIN inbox'[m] : i < j => inbox'[m][i].n < inbox'[m][j].n
        <5>1. ASSUME NEW i \in DOMAIN inbox'[m] PROVE inbox'[m][i].n <= broadcasts
          <6>1. CASE i \in DOMAIN inbox[m]
            BY <4>3, <6>1 DEF OrderInv
          <6>2. CASE i = Len(inbox[m]) + 1
            BY <2>0, <4>2, <4>3, <6>2
          <6> QED BY <4>3, <6>1, <6>2
        <5>2. ASSUME NEW i \in DOMAIN inbox'[m], NEW j \in DOMAIN inbox'[m], i < j
              PROVE  inbox'[m][i].n < inbox'[m][j].n
          <6>1. i \in DOMAIN inbox[m]
            BY <4>3, <5>2
          <6>2. CASE j \in DOMAIN inbox[m]
            BY <4>3, <5>2, <6>1, <6>2 DEF OrderInv, SameOrder
          <6>3. CASE j = Len(inbox[m]) + 1
            BY <4>2, <4>3, <4>4, <6>1, <6>3
          <6> QED BY <4>3, <6>2, <6>3
        <5> QED BY <5>1, <5>2
      <4>6. m \notin todo'[c] /\ todo'[c] \subseteq todo[c] /\ todo[c] \subseteq Conns
        BY <3>1 DEF TypeOK
      <4> QED BY <3>1, <3>2, <4>1, <4>5, <4>6 DEF OrderInv, SameOrder
    <3> QED BY <3>3, <3>4
  <2> QED BY <2>1, <2>2, <2>3, QuietSteps
<1>3. OrderInv => SameOrder
  BY DEF OrderInv
<1> QED BY <1>1, <1>2, <1>3, Typing, PTL DEF Spec

-----------------------------------------------------------------------------
(* The audience of a broadcast *)

\* While a task is inside a broadcast, nobody changes the rooms or its own place
\* in the loop: the step of another task, or of a client, or a send.
LEMMA StepsDuringBroadcast ==
    ASSUME TypeOK, [Next]_vars, NEW c \in Conns, pc[c] = "send", pc'[c] = "send"
    PROVE  /\ rooms' = rooms /\ job'[c] = job[c] /\ serial'[c] = serial[c]
           /\ \/ todo'[c] = todo[c] /\ inbox' = inbox /\ gone \subseteq gone'
              \/ \E m \in todo[c] : SendArrives(c, m)
<1> USE ConnsAssumption
<1>1. holder = c /\ holder # None /\ \A d \in Conns : d # c => pc[d] # "send"
  BY DEF TypeOK
<1>2. ASSUME NEW d \in Conns, Call(d)
      PROVE  rooms' = rooms /\ job'[c] = job[c] /\ serial'[c] = serial[c] /\ todo'[c] = todo[c]
             /\ inbox' = inbox /\ gone \subseteq gone'
  BY <1>2 DEF Call, TypeOK
<1>3. ASSUME NEW m \in Mortals, GoesAway(m)
      PROVE  rooms' = rooms /\ job'[c] = job[c] /\ serial'[c] = serial[c] /\ todo'[c] = todo[c]
             /\ inbox' = inbox /\ gone \subseteq gone'
  BY <1>3 DEF GoesAway
<1>4. ASSUME NEW d \in Conns, NEW r \in RoomIds, OpStep(d, r) PROVE FALSE
  BY <1>1, <1>4 DEF OpStep, CreateLooks, CreateInserts, RemoveRoom, Join, Leave, Members,
                    BroadcastBegins, Locks
<1>5. ASSUME NEW d \in Conns, BroadcastEnds(d) \/ \E m \in Conns : SendFails(d, m) PROVE FALSE
  <2>1. d = c /\ (End(d, "idle") \/ End(d, "panicked"))
    BY <1>1, <1>5 DEF BroadcastEnds, SendFails
  <2> QED BY <2>1 DEF End, TypeOK
<1>6. ASSUME NEW d \in Conns, NEW m \in Conns, SendArrives(d, m)
      PROVE  d = c /\ m \in todo[c] /\ UNCHANGED <<rooms, job, serial>>
  BY <1>1, <1>6 DEF SendArrives
<1>7. CASE UNCHANGED vars
  BY <1>7 DEF vars
<1> QED BY <1>2, <1>3, <1>4, <1>5, <1>6, <1>7 DEF Next, Step, SendStep

\* A broadcast that goes on speaks to the room as it was when it began.
LEMMA AudienceStep ==
    ASSUME TypeOK, AudienceFrozen, [Next]_vars
    PROVE  AudienceFrozen'
<1> USE ConnsAssumption
<1> SUFFICES ASSUME NEW c \in Conns, pc'[c] = "send"
             PROVE  /\ Exists(job[c].room)'
                    /\ todo'[c] \subseteq rooms'[job'[c].room] \ {c}
                    /\ \A m \in rooms'[job'[c].room] \ (todo'[c] \cup {c} \cup gone') :
                          /\ inbox'[m] # <<>>
                          /\ inbox'[m][Len(inbox'[m])] =
                                [from |-> c, room |-> job'[c].room, n |-> serial'[c]]
  BY DEF AudienceFrozen
<1>1. CASE pc[c] = "send"
  <2>1. /\ Exists(job[c].room)
        /\ todo[c] \subseteq rooms[job[c].room] \ {c}
        /\ \A m \in rooms[job[c].room] \ (todo[c] \cup {c} \cup gone) :
              /\ inbox[m] # <<>>
              /\ inbox[m][Len(inbox[m])] = [from |-> c, room |-> job[c].room, n |-> serial[c]]
    BY <1>1 DEF AudienceFrozen
  <2>2. rooms' = rooms /\ job'[c] = job[c] /\ serial'[c] = serial[c]
    BY <1>1, StepsDuringBroadcast
  <2>3. CASE todo'[c] = todo[c] /\ inbox' = inbox /\ gone \subseteq gone'
    BY <2>1, <2>2, <2>3 DEF Exists
  <2>4. ASSUME NEW m \in todo[c], SendArrives(c, m)
        PROVE  /\ Exists(job[c].room)'
               /\ todo'[c] \subseteq rooms'[job'[c].room] \ {c}
               /\ \A d \in rooms'[job'[c].room] \ (todo'[c] \cup {c} \cup gone') :
                     /\ inbox'[d] # <<>>
                     /\ inbox'[d][Len(inbox'[d])] =
                           [from |-> c, room |-> job'[c].room, n |-> serial'[c]]
    <3> DEFINE b == [from |-> c, room |-> job[c].room, n |-> serial[c]]
    <3>1. /\ gone' = gone /\ todo'[c] = todo[c] \ {m}
          /\ inbox' = IF m \in gone THEN inbox ELSE [inbox EXCEPT ![m] = Append(@, b)]
      BY <2>4 DEF SendArrives, TypeOK
    <3>2. m \in Conns /\ inbox[m] \in Seq(Broadcast) /\ b \in Broadcast
      BY <1>1 DEF TypeOK, Broadcast, JobType
    <3> HIDE DEF b
    <3>3. Append(inbox[m], b) # <<>> /\ Append(inbox[m], b)[Len(Append(inbox[m], b))] = b
      BY <3>2
    <3>4. ASSUME NEW d \in rooms[job[c].room] \ (todo'[c] \cup {c} \cup gone)
          PROVE  inbox'[d] # <<>> /\ inbox'[d][Len(inbox'[d])] = b
      <4>1. CASE d = m
        <5>1. inbox'[m] = Append(inbox[m], b)
          BY <3>1, <3>2, <3>4, <4>1 DEF TypeOK
        <5> QED BY <3>3, <4>1, <5>1
      <4>2. CASE d # m
        <5>1. d \in rooms[job[c].room] \ (todo[c] \cup {c} \cup gone)
          BY <3>1, <3>4, <4>2
        <5>2. inbox'[d] = inbox[d]
          BY <2>1, <3>1, <4>2, <5>1 DEF TypeOK, Exists
        <5> QED BY <2>1, <5>1, <5>2 DEF b
      <4> QED BY <4>1, <4>2
    <3> QED BY <2>1, <2>2, <3>1, <3>4 DEF Exists, b
  <2> QED BY <1>1, <2>3, <2>4, StepsDuringBroadcast
<1>2. CASE pc[c] # "send"
  <2>1. ~Quiet
    BY <1>2 DEF Quiet
  <2>2. ~\E d \in Conns, m \in Conns : SendArrives(d, m)
    BY <1>2 DEF SendArrives
  <2>3. PICK d \in Conns, r \in RoomIds : BroadcastBegins(d, r) /\ Exists(r)
    BY <2>1, <2>2, QuietSteps
  <2>4. /\ d = c /\ job[c].room = r /\ UNCHANGED <<rooms, job>>
        /\ todo'[c] = rooms[r] \ {c}
    <3>1. d = c
      BY <1>2, <2>3 DEF BroadcastBegins, TypeOK
    <3>2. PICK op \in BroadcastOps : Locks(c, op, r)
      BY <2>3, <3>1 DEF BroadcastBegins
    <3> QED BY <2>3, <3>1, <3>2 DEF BroadcastBegins, Locks, TypeOK
  <2> QED BY <2>3, <2>4 DEF Exists
<1> QED BY <1>1, <1>2

\* A broadcast reaches the room as it was when it got the lock, for any number
\* of rooms, members and tasks, whichever clients go away meanwhile.
THEOREM Frozen == Spec => []AudienceFrozen
<1>1. Init => AudienceFrozen
  BY DEF Init, AudienceFrozen
<1>2. TypeOK /\ AudienceFrozen /\ [Next]_vars => AudienceFrozen'
  BY AudienceStep
<1> QED BY <1>1, <1>2, Typing, PTL DEF Spec

\* While no client goes away, a broadcast that returns has reached every member
\* of its room but the sender.
THEOREM Reached == Spec => ReachesAll
<1> USE ConnsAssumption
<1>1. TypeOK /\ AudienceFrozen /\ [Next]_vars
        => [\A c \in Conns :
              pc[c] = "send" /\ pc'[c] # "send" /\ gone = {} =>
                  \A m \in rooms[job[c].room] \ {c} :
                      \E i \in DOMAIN inbox[m] : inbox[m][i].n = serial[c]]_vars
  <2> SUFFICES ASSUME TypeOK, AudienceFrozen, [Next]_vars,
                      NEW c \in Conns, pc[c] = "send", pc'[c] # "send", gone = {},
                      NEW m \in rooms[job[c].room] \ {c}
               PROVE  \E i \in DOMAIN inbox[m] : inbox[m][i].n = serial[c]
    OBVIOUS
  <2>1. BroadcastEnds(c)
    <3>1. holder # None /\ \A d \in Conns : d # c => pc[d] # "send"
      BY DEF TypeOK
    <3>2. ASSUME NEW d \in Conns, NEW r \in RoomIds, OpStep(d, r) PROVE FALSE
      BY <3>1, <3>2 DEF OpStep, CreateLooks, CreateInserts, RemoveRoom, Join, Leave, Members,
                        BroadcastBegins, Locks
    <3>3. ASSUME NEW d \in Conns, Call(d) PROVE FALSE
      BY <3>3 DEF Call, TypeOK
    <3>4. ~(\E d \in Mortals : GoesAway(d)) /\ ~UNCHANGED vars
      BY DEF GoesAway, vars
    <3>5. ASSUME NEW d \in Conns, NEW e \in Conns, SendArrives(d, e) \/ SendFails(d, e) PROVE FALSE
      BY <3>5 DEF SendArrives, SendFails
    <3>6. PICK d \in Conns : BroadcastEnds(d)
      BY <3>2, <3>3, <3>4, <3>5 DEF Next, Step, SendStep
    <3> QED BY <3>1, <3>6 DEF BroadcastEnds
  <2>2. todo[c] = {}
    BY <2>1 DEF BroadcastEnds
  <2>3. /\ Exists(job[c].room) /\ inbox[m] # <<>>
        /\ inbox[m][Len(inbox[m])] = [from |-> c, room |-> job[c].room, n |-> serial[c]]
    BY <2>2 DEF AudienceFrozen
  <2>4. m \in Conns /\ inbox[m] \in Seq(Broadcast)
    BY <2>3 DEF TypeOK, Exists
  <2>5. Len(inbox[m]) \in DOMAIN inbox[m]
    BY <2>3, <2>4
  <2> QED BY <2>3, <2>5
<1> QED BY <1>1, Typing, Frozen, PTL DEF Spec, ReachesAll

-----------------------------------------------------------------------------
(* Creating rooms *)

\* What create_room saw still holds when it inserts.
CreatorInv ==
    \A c \in Conns :
        /\ pc[c] \in {"wait", "insert"} /\ job[c].op = "create" => c \in Creators
        /\ pc[c] = "insert" => job[c].op = "create" /\ ~Exists(job[c].room)

\* Only the second half of create_room makes a room appear, and only the first
\* half leads there.
LEMMA CreatorSteps ==
    ASSUME TypeOK, [Next]_vars
    PROVE  \/ /\ DOMAIN rooms' \subseteq DOMAIN rooms
              /\ \A d \in Conns :
                    /\ pc'[d] = "insert" =>
                          /\ job'[d] = job[d]
                          /\ pc[d] = "insert" \/ (/\ pc[d] = "wait" /\ job[d].op = "create"
                                                  /\ ~Exists(job[d].room))
                    /\ pc'[d] = "wait" /\ job'[d].op = "create" =>
                          d \in Creators \/ (pc[d] = "wait" /\ job'[d] = job[d])
           \/ \E c \in Conns, r \in RoomIds : CreateInserts(c, r)
<1> DEFINE Same == /\ DOMAIN rooms' \subseteq DOMAIN rooms
                   /\ \A d \in Conns :
                        /\ pc'[d] = "insert" =>
                              /\ job'[d] = job[d]
                              /\ pc[d] = "insert" \/ (/\ pc[d] = "wait" /\ job[d].op = "create"
                                                      /\ ~Exists(job[d].room))
                        /\ pc'[d] = "wait" /\ job'[d].op = "create" =>
                              d \in Creators \/ (pc[d] = "wait" /\ job'[d] = job[d])
<1>1. ASSUME NEW c \in Conns, NEW state \in {"idle", "panicked"}, End(c, state),
             DOMAIN rooms' \subseteq DOMAIN rooms
      PROVE  Same
  BY <1>1 DEF End, TypeOK
<1>2. ASSUME NEW c \in Conns, Call(c) PROVE Same
  BY <1>2 DEF Call, TypeOK, Creators
<1>3. ASSUME NEW m \in Mortals, GoesAway(m) PROVE Same
  BY <1>3 DEF GoesAway
<1>4. ASSUME NEW c \in Conns, NEW r \in RoomIds, RemoveRoom(c, r) \/ Members(c, r)
      PROVE  Same
  BY <1>1, <1>4 DEF RemoveRoom, Members
<1>5. ASSUME NEW c \in Conns, NEW r \in RoomIds, Join(c, r) \/ Leave(c, r)
      PROVE  Same
  <2>1. DOMAIN rooms' = DOMAIN rooms
    BY <1>5 DEF Join, Leave
  <2> QED BY <1>1, <1>5, <2>1 DEF Join, Leave
<1>6. ASSUME NEW c \in Conns, NEW r \in RoomIds, CreateLooks(c, r) PROVE Same
  <2>1. CASE Exists(r)
    BY <1>1, <1>6, <2>1 DEF CreateLooks
  <2>2. CASE ~Exists(r)
    BY <1>6, <2>2 DEF CreateLooks, Locks, TypeOK
  <2> QED BY <2>1, <2>2
<1>7. ASSUME NEW c \in Conns, NEW r \in RoomIds, BroadcastBegins(c, r) PROVE Same
  <2>1. CASE Exists(r)
    BY <1>7, <2>1 DEF BroadcastBegins, TypeOK
  <2>2. CASE ~Exists(r)
    BY <1>1, <1>7, <2>2 DEF BroadcastBegins
  <2> QED BY <2>1, <2>2
<1>8. ASSUME NEW c \in Conns, NEW m \in Conns, SendArrives(c, m) PROVE Same
  BY <1>8 DEF SendArrives
<1>9. ASSUME NEW c \in Conns, NEW m \in Conns, SendFails(c, m) PROVE Same
  BY <1>1, <1>9 DEF SendFails
<1>10. ASSUME NEW c \in Conns, BroadcastEnds(c) PROVE Same
  BY <1>1, <1>10 DEF BroadcastEnds
<1>11. CASE UNCHANGED vars
  BY <1>11 DEF vars
<1> QED BY <1>2, <1>3, <1>4, <1>5, <1>6, <1>7, <1>8, <1>9, <1>10, <1>11, TaskActions DEF Next

LEMMA CreatorInvariant == ASSUME OneCreator PROVE Spec => []CreatorInv
<1> USE ConnsAssumption
<1>1. Init => CreatorInv
  BY DEF Init, CreatorInv
<1>2. TypeOK /\ CreatorInv /\ [Next]_vars => CreatorInv'
  <2> SUFFICES ASSUME TypeOK, CreatorInv, [Next]_vars PROVE CreatorInv'
    OBVIOUS
  <2>1. ASSUME NEW c \in Conns, NEW r \in RoomIds, CreateInserts(c, r) PROVE CreatorInv'
    <3>1. /\ pc[c] = "insert" /\ pc' = [pc EXCEPT ![c] = "idle"]
          /\ \A d \in Conns : d # c => job'[d] = job[d]
      BY <2>1 DEF CreateInserts, End, TypeOK
    <3>2. \A d \in Conns : pc[d] = "insert" => d = c
      BY <3>1 DEF CreatorInv, OneCreator
    <3>3. \A d \in Conns : d # c => pc'[d] = pc[d]
      BY <3>1 DEF TypeOK
    <3>4. pc'[c] = "idle"
      BY <3>1 DEF TypeOK
    <3> QED BY <3>1, <3>2, <3>3, <3>4 DEF CreatorInv
  <2> QED BY <2>1, CreatorSteps DEF CreatorInv, Exists
<1> QED BY <1>1, <1>2, Typing, PTL DEF Spec

\* When one connection creates rooms, create_room never replaces a room: what
\* it saw under the first guard still holds under the second.
THEOREM CreatesOnlyMissingRooms == ASSUME OneCreator PROVE Spec => CreateKeepsRooms
<1>1. CreatorInv => [\A c \in Conns, r \in RoomIds : CreateInserts(c, r) => ~Exists(r)]_vars
  BY DEF CreatorInv, CreateInserts
<1> QED BY <1>1, CreatorInvariant, PTL DEF CreateKeepsRooms

\* When one connection creates rooms, the rooms map is a registry with atomic
\* operations.
THEOREM Refinement == ASSUME OneCreator PROVE Spec => ImplementsRegistry
<1>1. Init => Registry!Init
  BY DEF Init, Registry!Init
<1>2. TypeOK /\ CreatorInv /\ [Next]_vars => [Registry!Next]_rooms
  <2> SUFFICES ASSUME TypeOK, CreatorInv, [Next]_vars PROVE [Registry!Next]_rooms
    OBVIOUS
  <2>1. ASSUME NEW c \in Conns, NEW r \in RoomIds, CreateInserts(c, r)
        PROVE  Registry!Create(r)
    BY <2>1 DEF CreateInserts, CreatorInv, Exists, Registry!Create, Registry!Exists
  <2>2. ASSUME NEW c \in Conns, NEW r \in RoomIds, RemoveRoom(c, r)
        PROVE  Registry!Remove(r) \/ UNCHANGED rooms
    BY <2>2 DEF RemoveRoom, TypeOK, Registry!Remove, Registry!Exists
  <2>3. ASSUME NEW c \in Conns, NEW r \in RoomIds, Join(c, r)
        PROVE  Registry!Join(c, r) \/ UNCHANGED rooms
    BY <2>3 DEF Join, Exists, TypeOK, Registry!Join, Registry!Exists
  <2>4. ASSUME NEW c \in Conns, NEW r \in RoomIds, Leave(c, r)
        PROVE  Registry!Leave(c, r) \/ UNCHANGED rooms
    BY ZenonT(30), <2>4 DEF Leave, Exists, TypeOK, Registry!Leave, Registry!Exists
  <2>5. \/ UNCHANGED rooms
        \/ \E c \in Conns, r \in RoomIds :
              CreateInserts(c, r) \/ RemoveRoom(c, r) \/ Join(c, r) \/ Leave(c, r)
    BY TaskActions DEF Next, Call, GoesAway, CreateLooks, Members, BroadcastBegins,
       SendArrives, SendFails, BroadcastEnds, vars
  <2> QED BY <2>1, <2>2, <2>3, <2>4, <2>5 DEF Registry!Next
<1> QED BY <1>1, <1>2, CreatorInvariant, Typing, PTL DEF Spec, ImplementsRegistry, Registry!Spec
=============================================================================
