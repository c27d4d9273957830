------------------------- MODULE ThunderServer_proofs -------------------------
(* Theorems about ThunderServer. *)
EXTENDS ThunderServer, TLAPS

-----------------------------------------------------------------------------
(* Types, and who keeps the lock of the table *)

\* A step of a task to another place that is not the first: what TypeOK says of
\* pc alone.
LEMMA Moves ==
    ASSUME TypeOK, NEW t \in Clients \cup Closers,
           NEW l \in Labels \ {"none", "closing"}, Goto(t, l),
           pc[t] \notin {"none", "closing"}, UNCHANGED <<request, lock>>
    PROVE  /\ pc' \in [Clients \cup Closers -> Labels]
           /\ \A c \in Clients : request'[c] = Null <=> pc'[c] = "none"
           /\ \A k \in Closers : lock' = k <=> pc'[k] = "closing"
BY RequestsAssumption DEF TypeOK, Goto

\* So such a step keeps the type when what else it changes has its type.
LEMMA MoveType ==
    ASSUME TypeOK, NEW t \in Clients \cup Closers,
           NEW l \in Labels \ {"none", "closing"}, Goto(t, l),
           pc[t] \notin {"none", "closing"},
           UNCHANGED <<request, arrived, gone, answered, lock>>,
           connections' \subseteq Clients, shut' \subseteq Clients, served' \subseteq Clients,
           closes' \in [Clients -> Nat],
           \/ target' = target /\ "idle" \notin {pc[t], l}
           \/ /\ t \in Closers /\ l = "wait"
              /\ \E c \in Clients : target' = [target EXCEPT ![t] = c]
    PROVE  TypeOK'
<1>1. /\ pc' \in [Clients \cup Closers -> Labels]
      /\ \A c \in Clients : request'[c] = Null <=> pc'[c] = "none"
      /\ \A k \in Closers : lock' = k <=> pc'[k] = "closing"
  BY Moves
<1>2. \A c \in Clients : arrived'[c] <= IF request'[c] = Null THEN 0 ELSE Len(request'[c].pieces)
  BY DEF TypeOK
<1>3. gone' \subseteq Clients /\ answered' \subseteq Clients
  BY DEF TypeOK
<1>4. /\ target' \in [Closers -> Clients \cup {Null}]
      /\ \A k \in Closers : target'[k] = Null <=> pc'[k] = "idle"
  <2>0. /\ pc \in [Clients \cup Closers -> Labels] /\ pc' = [pc EXCEPT ![t] = l]
        /\ target \in [Closers -> Clients \cup {Null}]
        /\ \A k \in Closers : target[k] = Null <=> pc[k] = "idle"
    BY DEF TypeOK, Goto
  <2>1. CASE target' = target /\ "idle" \notin {pc[t], l}
    BY <2>0, <2>1
  <2>2. ASSUME t \in Closers, l = "wait",
               NEW c \in Clients, target' = [target EXCEPT ![t] = c]
        PROVE  /\ target' \in [Closers -> Clients \cup {Null}]
               /\ \A k \in Closers : target'[k] = Null <=> pc'[k] = "idle"
    BY <2>0, <2>2, RequestsAssumption
  <2> QED BY <2>1, <2>2
<1> QED BY <1>1, <1>2, <1>3, <1>4 DEF TypeOK

\* A request has a length, and is not Null.
LEMMA Pieces ==
    ASSUME NEW q \in Requests
    PROVE  q # Null /\ Len(q.pieces) \in Nat
BY RequestsAssumption DEF RequestType

LEMMA TypeInit == Init => TypeOK
<1> SUFFICES ASSUME Init PROVE TypeOK
  OBVIOUS
<1>1. pc \in [Clients \cup Closers -> Labels]
  BY DEF Init, Labels
<1>2. \A k \in Closers : lock = k <=> pc[k] = "closing"
  BY RequestsAssumption DEF Init
<1>3. \A c \in Clients :
        /\ request[c] = Null <=> pc[c] = "none"
        /\ arrived[c] <= IF request[c] = Null THEN 0 ELSE Len(request[c].pieces)
  BY DEF Init
<1>4. /\ target \in [Closers -> Clients \cup {Null}]
      /\ \A k \in Closers : target[k] = Null <=> pc[k] = "idle"
  BY RequestsAssumption DEF Init
<1> QED BY <1>1, <1>2, <1>3, <1>4 DEF Init, TypeOK

LEMMA TypeStep ==
    ASSUME TypeOK, [Next]_vars
    PROVE  TypeOK'
<1> USE RequestsAssumption
<1>0. /\ pc \in [Clients \cup Closers -> Labels]
      /\ arrived \in [Clients -> Nat]
      /\ request \in [Clients -> Requests \cup {Null}]
  BY DEF TypeOK
<1>1. ASSUME NEW c \in Clients, Accept(c) PROVE TypeOK'
  <2>1. PICK q \in Requests : request' = [request EXCEPT ![c] = q]
    BY <1>1 DEF Accept
  <2>2. /\ pc[c] = "none" /\ pc' = [pc EXCEPT ![c] = "peek"]
        /\ UNCHANGED <<arrived, gone, answered, connections, shut, served, closerVars>>
    BY <1>1 DEF Accept, Goto
  <2>3. arrived[c] = 0
    BY <2>2 DEF TypeOK
  <2>4. \A d \in Clients : arrived'[d] <= IF request'[d] = Null THEN 0 ELSE Len(request'[d].pieces)
    BY <1>0, <2>1, <2>2, <2>3, Pieces DEF TypeOK
  <2>5. \A d \in Clients : request'[d] = Null <=> pc'[d] = "none"
    BY <1>0, <2>1, <2>2, Pieces DEF TypeOK
  <2>6. pc' \in [Clients \cup Closers -> Labels] /\ \A k \in Closers : lock' = k <=> pc'[k] = "closing"
    BY <1>0, <2>2 DEF TypeOK, closerVars, Labels
  <2>7. request' \in [Clients -> Requests \cup {Null}]
    BY <1>0, <2>1
  <2> QED BY <2>2, <2>4, <2>5, <2>6, <2>7 DEF TypeOK, closerVars
<1>2. ASSUME NEW c \in Clients, Arrives(c) PROVE TypeOK'
  <2>1. /\ request[c] # Null /\ arrived[c] < Len(request[c].pieces)
        /\ arrived' = [arrived EXCEPT ![c] = @ + 1]
        /\ UNCHANGED <<request, gone, answered, pc, connections, shut, served, closerVars>>
    BY <1>2 DEF Arrives, TypeOK
  <2>2. arrived' \in [Clients -> Nat]
    BY <1>0, <2>1
  <2>3. Len(request[c].pieces) \in Nat
    BY <1>0, <2>1, Pieces
  <2>4. \A d \in Clients : arrived'[d] <= IF request'[d] = Null THEN 0 ELSE Len(request'[d].pieces)
    BY <1>0, <2>1, <2>3 DEF TypeOK
  <2> QED BY <2>1, <2>2, <2>4 DEF TypeOK, closerVars
<1>3. ASSUME NEW c \in Clients, Leaves(c) PROVE TypeOK'
  BY <1>3 DEF Leaves, TypeOK, closerVars
<1>4. ASSUME NEW c \in Clients, Answers(c) PROVE TypeOK'
  BY <1>4 DEF Answers, TypeOK, closerVars
<1>a. /\ connections \subseteq Clients /\ shut \subseteq Clients /\ served \subseteq Clients
      /\ target \in [Closers -> Clients \cup {Null}] /\ closes \in [Clients -> Nat]
  BY DEF TypeOK
<1>b. /\ {"handshake", "http", "dropped", "insert", "refused", "panicked", "connected", "serve"}
            \subseteq Labels \ {"none", "closing"}
      /\ {"ended", "wait", "done"} \subseteq Labels \ {"none", "closing"}
  BY DEF Labels
<1>5. ASSUME NEW c \in Clients, PeekFails(c) PROVE TypeOK'
  BY <1>0, <1>a, <1>b, <1>5, MoveType DEF PeekFails, clientVars, closerVars
<1>6. ASSUME NEW c \in Clients, Peek(c) PROVE TypeOK'
  <2>1. PICK l \in {"handshake", "http"} : Goto(c, l)
    BY <1>6 DEF Peek
  <2> QED BY <1>0, <1>a, <1>b, <1>6, <2>1, MoveType DEF Peek, clientVars, closerVars
<1>7. ASSUME NEW c \in Clients, Handshake(c) PROVE TypeOK'
  <2>1. PICK l \in {"insert", "refused"} : Goto(c, l)
    BY <1>7 DEF Handshake
  <2>2. /\ pc[c] = "handshake" /\ shut' \subseteq Clients
        /\ UNCHANGED <<clientVars, connections, served, closerVars>>
    BY <1>7, <1>a DEF Handshake
  <2> QED BY <1>a, <1>b, <2>1, <2>2, MoveType DEF clientVars, closerVars
<1>8. ASSUME NEW c \in Clients, Panic(c) PROVE TypeOK'
  BY <1>0, <1>a, <1>b, <1>8, MoveType DEF Panic, clientVars, closerVars
<1>9. ASSUME NEW c \in Clients, Insert(c) PROVE TypeOK'
  <2>1. connections' \subseteq Clients
    BY <1>9, <1>a DEF Insert
  <2> QED BY <1>0, <1>a, <1>b, <1>9, <2>1, MoveType DEF Insert, clientVars, closerVars
<1>10. ASSUME NEW c \in Clients, OnConnect(c) PROVE TypeOK'
  <2>1. served' \subseteq Clients
    BY <1>10, <1>a DEF OnConnect
  <2> QED BY <1>0, <1>a, <1>b, <1>10, <2>1, MoveType DEF OnConnect, clientVars, closerVars
<1>11. ASSUME NEW c \in Clients, LoopEnds(c) PROVE TypeOK'
  <2>1. shut' \subseteq Clients
    BY <1>11, <1>a DEF LoopEnds
  <2> QED BY <1>0, <1>a, <1>b, <1>11, <2>1, MoveType DEF LoopEnds, clientVars, closerVars
<1>12. ASSUME NEW k \in Closers, NEW c \in Clients, CallClose(k, c) PROVE TypeOK'
  BY <1>0, <1>a, <1>b, <1>12, MoveType DEF CallClose, clientVars
<1>13. ASSUME NEW k \in Closers, LookUp(k) PROVE TypeOK'
  <2>1. CASE target[k] \in connections
    <3>1. /\ pc[k] = "wait" /\ lock = Null /\ lock' = k
          /\ pc' = [pc EXCEPT ![k] = "closing"]
          /\ connections' = connections \ {target[k]}
          /\ closes' = [closes EXCEPT ![target[k]] = @ + 1]
          /\ UNCHANGED <<clientVars, shut, served, target>>
      BY <1>13, <2>1 DEF LookUp, Goto
    <3>2. pc' \in [Clients \cup Closers -> Labels] /\ \A j \in Closers : lock' = j <=> pc'[j] = "closing"
      BY <1>0, <3>1 DEF TypeOK, Labels
    <3>3. closes' \in [Clients -> Nat]
      <4>1. target[k] \in Clients
        BY <1>a, <2>1
      <4>2. closes[target[k]] + 1 \in Nat
        BY <1>a, <4>1
      <4>3. closes' = [closes EXCEPT ![target[k]] = closes[target[k]] + 1]
        BY <3>1
      <4> QED BY <1>a, <4>2, <4>3
    <3>4. \A d \in Clients : request'[d] = Null <=> pc'[d] = "none"
      BY <1>0, <3>1 DEF TypeOK, clientVars
    <3> QED BY <3>1, <3>2, <3>3, <3>4 DEF TypeOK, clientVars
  <2>2. CASE target[k] \notin connections
    <3>1. Goto(k, "done") /\ pc[k] = "wait" /\ UNCHANGED <<lock, connections, closes>>
      BY <1>13, <2>2 DEF LookUp
    <3> QED BY <1>0, <1>a, <1>b, <1>13, <3>1, MoveType DEF LookUp, clientVars
  <2> QED BY <2>1, <2>2
<1>14. ASSUME NEW k \in Closers, CloseEnds(k) PROVE TypeOK'
  <2>1. /\ pc[k] = "closing" /\ lock' = Null /\ pc' = [pc EXCEPT ![k] = "done"]
        /\ shut' \in {shut, shut \cup {target[k]}}
        /\ UNCHANGED <<clientVars, connections, served, target, closes>>
    BY <1>14 DEF CloseEnds, Goto
  <2>2. pc' \in [Clients \cup Closers -> Labels] /\ \A j \in Closers : lock' = j <=> pc'[j] = "closing"
    BY <1>0, <2>1 DEF TypeOK, Labels
  <2>3. \A d \in Clients : request'[d] = Null <=> pc'[d] = "none"
    BY <1>0, <2>1 DEF TypeOK, clientVars
  <2>4. shut' \subseteq Clients
    <3>1. target[k] \in Clients
      BY <2>1 DEF TypeOK
    <3> QED BY <1>a, <2>1, <3>1
  <2> QED BY <2>1, <2>2, <2>3, <2>4 DEF TypeOK, clientVars
<1>15. CASE UNCHANGED vars
  BY <1>15 DEF vars, TypeOK, clientVars, closerVars
<1> QED BY <1>1, <1>2, <1>3, <1>4, <1>5, <1>6, <1>7, <1>8, <1>9, <1>10, <1>11, <1>12, <1>13,
           <1>14, <1>15 DEF Next, ConnectionStep, CloserStep

\* The state keeps its type for any clients, requests and closers, and the lock
\* of the table is held by exactly the task that closes a connection.
THEOREM Typing == Spec => []TypeOK
<1>1. TypeOK /\ [Next]_vars => TypeOK'
  BY TypeStep
<1> QED BY TypeInit, <1>1, PTL DEF Spec

-----------------------------------------------------------------------------
(* Who closes a connection *)

Inserted == {"connected", "serve", "ended"}

\* A connection that handle_ws has put in the table stays there until a closer
\* takes it out, and from then on it is shut down, or its client is gone, or
\* that closer is still at it.
ConnectionInv(c) ==
    /\ c \in served \cup connections \/ closes[c] # 0 => pc[c] \in Inserted
    /\ closes[c] \in {0, 1}
    /\ pc[c] \in Inserted => (c \in connections <=> closes[c] = 0)
    /\ closes[c] = 1 => \/ c \in shut \cup gone
                        \/ \E k \in Closers : pc[k] = "closing" /\ target[k] = c

CloserInv(k) ==
    /\ pc[k] \in {"wait", "closing"} => target[k] \in served
    /\ pc[k] = "done" => target[k] \in shut \cup gone

IInv ==
    /\ \A c \in Clients : ConnectionInv(c)
    /\ \A k \in Closers : CloserInv(k)

LEMMA InitInv == Init => IInv
BY RequestsAssumption DEF Init, IInv, ConnectionInv, CloserInv, Inserted

\* The steps of a connection's task and of its client leave the closers alone,
\* take nothing out of shut and gone, and put c in the table at most once.
Quiet(c) ==
    /\ pc' = pc \/ \E l \in Labels : pc' = [pc EXCEPT ![c] = l]
    /\ UNCHANGED <<target, closes>>
    /\ shut \subseteq shut' /\ gone \subseteq gone' /\ served \subseteq served'
    /\ connections' \ {c} = connections \ {c} /\ served' \ {c} = served \ {c}

LEMMA QuietStep ==
    ASSUME TypeOK, IInv, NEW c \in Clients, Quiet(c), ConnectionInv(c)'
    PROVE  IInv'
<1> USE RequestsAssumption
<1>1. pc \in [Clients \cup Closers -> Labels]
  BY DEF TypeOK
<1>2. \A t \in (Clients \cup Closers) \ {c} : pc'[t] = pc[t]
  BY <1>1 DEF Quiet
<1>3. ASSUME NEW k \in Closers PROVE CloserInv(k)'
  <2>1. pc'[k] = pc[k] /\ target' = target
    BY <1>2 DEF Quiet
  <2>2. CloserInv(k)
    BY DEF IInv
  <2> QED BY <2>1, <2>2 DEF CloserInv, Quiet
<1>4. ASSUME NEW d \in Clients, d # c PROVE ConnectionInv(d)'
  <2>1. /\ pc'[d] = pc[d] /\ closes' = closes
        /\ d \in connections' <=> d \in connections
        /\ d \in served' <=> d \in served
        /\ d \in shut \cup gone => d \in shut' \cup gone'
    BY <1>2, <1>4 DEF Quiet
  <2>2. ConnectionInv(d)
    BY DEF IInv
  <2>3. \A k \in Closers : pc'[k] = pc[k] /\ target'[k] = target[k]
    BY <1>2 DEF Quiet
  <2> QED BY <2>1, <2>2, <2>3 DEF ConnectionInv
<1> QED BY <1>3, <1>4 DEF IInv

LEMMA StepInv ==
    ASSUME TypeOK, IInv, [Next]_vars
    PROVE  IInv'
<1> USE RequestsAssumption
<1>0. /\ pc \in [Clients \cup Closers -> Labels]
      /\ closes \in [Clients -> Nat]
      /\ target \in [Closers -> Clients \cup {Null}]
      /\ connections \subseteq Clients
  BY DEF TypeOK
<1>a. \A c \in Clients : ConnectionInv(c)
  BY DEF IInv
<1>b. \A k \in Closers : CloserInv(k)
  BY DEF IInv
\* A step of c's that touches nothing but where its task is, shut and gone:
\* ConnectionInv(c) is all it can disturb.
<1>1. ASSUME NEW c \in Clients, Accept(c) PROVE IInv'
  <2>1. Quiet(c)
    BY <1>1 DEF Accept, Quiet, Goto, Labels, closerVars
  <2>2. ConnectionInv(c)'
    BY <1>0, <1>1, <1>a DEF Accept, ConnectionInv, Inserted, Goto, closerVars
  <2> QED BY <2>1, <2>2, QuietStep
<1>2. ASSUME NEW c \in Clients, Arrives(c) PROVE IInv'
  BY <1>2, <1>a, <1>b DEF Arrives, IInv, ConnectionInv, CloserInv, closerVars
<1>3. ASSUME NEW c \in Clients, Leaves(c) PROVE IInv'
  BY <1>3, <1>a, <1>b DEF Leaves, IInv, ConnectionInv, CloserInv, closerVars
<1>4. ASSUME NEW c \in Clients, Answers(c) PROVE IInv'
  BY <1>4, <1>a, <1>b DEF Answers, IInv, ConnectionInv, CloserInv, closerVars
<1>5. ASSUME NEW c \in Clients, PeekFails(c) PROVE IInv'
  <2>1. Quiet(c)
    BY <1>5 DEF PeekFails, Quiet, Goto, Labels, clientVars, closerVars
  <2>2. ConnectionInv(c)'
    BY <1>0, <1>5, <1>a DEF PeekFails, ConnectionInv, Inserted, Goto, clientVars, closerVars
  <2> QED BY <2>1, <2>2, QuietStep
<1>6. ASSUME NEW c \in Clients, Peek(c) PROVE IInv'
  <2>0. PICK l \in {"handshake", "http"} : pc' = [pc EXCEPT ![c] = l]
    BY <1>6 DEF Peek, Goto
  <2>1. Quiet(c)
    BY <1>6, <2>0 DEF Peek, Quiet, Labels, clientVars, closerVars
  <2>2. ConnectionInv(c)'
    BY <1>0, <1>6, <1>a, <2>0 DEF Peek, ConnectionInv, Inserted, clientVars, closerVars
  <2> QED BY <2>1, <2>2, QuietStep
<1>7. ASSUME NEW c \in Clients, Handshake(c) PROVE IInv'
  <2>0. PICK l \in {"insert", "refused"} : pc' = [pc EXCEPT ![c] = l]
    BY <1>7 DEF Handshake, Goto
  <2>1. /\ pc[c] = "handshake" /\ shut \subseteq shut'
        /\ UNCHANGED <<clientVars, connections, served, closerVars>>
    BY <1>7 DEF Handshake
  <2>2. Quiet(c)
    BY <2>0, <2>1 DEF Quiet, Labels, clientVars, closerVars
  <2>3. ConnectionInv(c)'
    BY <1>0, <1>a, <2>0, <2>1 DEF ConnectionInv, Inserted, clientVars, closerVars
  <2> QED BY <2>2, <2>3, QuietStep
<1>8. ASSUME NEW c \in Clients, Panic(c) PROVE IInv'
  <2>1. Quiet(c)
    BY <1>8 DEF Panic, Quiet, Goto, Labels, clientVars, closerVars
  <2>2. ConnectionInv(c)'
    BY <1>0, <1>8, <1>a DEF Panic, ConnectionInv, Inserted, Goto, clientVars, closerVars
  <2> QED BY <2>1, <2>2, QuietStep
\* A connection enters the table when no closer has had it yet.
<1>9. ASSUME NEW c \in Clients, Insert(c) PROVE IInv'
  <2>1. Quiet(c)
    BY <1>9 DEF Insert, Quiet, Goto, Labels, clientVars, closerVars
  <2>2. closes[c] = 0
    BY <1>9, <1>a DEF Insert, ConnectionInv, Inserted
  <2>3. ConnectionInv(c)'
    BY <1>0, <1>9, <1>a, <2>2 DEF Insert, ConnectionInv, Inserted, Goto, clientVars, closerVars
  <2> QED BY <2>1, <2>3, QuietStep
<1>10. ASSUME NEW c \in Clients, OnConnect(c) PROVE IInv'
  <2>1. Quiet(c)
    BY <1>10 DEF OnConnect, Quiet, Goto, Labels, clientVars, closerVars
  <2>2. /\ pc[c] = "connected" /\ pc' = [pc EXCEPT ![c] = "serve"]
        /\ UNCHANGED <<clientVars, connections, shut, closerVars>>
    BY <1>10 DEF OnConnect, Goto
  <2>3. pc'[c] = "serve" /\ \A k \in Closers : pc'[k] = pc[k]
    BY <1>0, <2>2
  <2>4. ConnectionInv(c)'
    BY <1>a, <2>2, <2>3 DEF ConnectionInv, Inserted, clientVars, closerVars
  <2> QED BY <2>1, <2>4, QuietStep
<1>11. ASSUME NEW c \in Clients, LoopEnds(c) PROVE IInv'
  <2>1. Quiet(c)
    BY <1>11 DEF LoopEnds, Quiet, Goto, Labels, clientVars, closerVars
  <2>2. /\ pc[c] = "serve" /\ pc' = [pc EXCEPT ![c] = "ended"] /\ shut \subseteq shut'
        /\ UNCHANGED <<clientVars, connections, served, closerVars>>
    BY <1>11 DEF LoopEnds, Goto
  <2>3. pc'[c] = "ended" /\ \A k \in Closers : pc'[k] = pc[k]
    BY <1>0, <2>2
  <2>4. ConnectionInv(c)'
    BY <1>a, <2>2, <2>3 DEF ConnectionInv, Inserted, clientVars, closerVars
  <2> QED BY <2>1, <2>4, QuietStep
<1>12. ASSUME NEW k \in Closers, NEW c \in Clients, CallClose(k, c) PROVE IInv'
  <2>1. /\ pc[k] = "idle" /\ c \in served
        /\ target' = [target EXCEPT ![k] = c] /\ pc' = [pc EXCEPT ![k] = "wait"]
        /\ UNCHANGED <<clientVars, connections, lock, shut, served, closes>>
    BY <1>12 DEF CallClose, Goto
  <2>2. \A d \in Clients : pc'[d] = pc[d]
    BY <1>0, <2>1
  <2>3. \A j \in Closers \ {k} : pc'[j] = pc[j] /\ target'[j] = target[j]
    BY <1>0, <2>1
  <2>4. pc'[k] = "wait" /\ target'[k] = c
    BY <1>0, <2>1
  <2>5. ASSUME NEW j \in Closers PROVE CloserInv(j)'
    BY <1>b, <2>1, <2>3, <2>4 DEF CloserInv, clientVars
  <2>6. ASSUME NEW d \in Clients PROVE ConnectionInv(d)'
    <3>1. ASSUME NEW j \in Closers, pc[j] = "closing", target[j] = d
          PROVE  pc'[j] = "closing" /\ target'[j] = d
      BY <2>1, <2>3, <3>1
    <3> QED BY <1>a, <2>1, <2>2, <3>1 DEF ConnectionInv, clientVars
  <2> QED BY <2>5, <2>6 DEF IInv
<1>13. ASSUME NEW k \in Closers, LookUp(k) PROVE IInv'
  <2>1. /\ pc[k] = "wait" /\ lock = Null
        /\ UNCHANGED <<clientVars, shut, served, target>>
    BY <1>13 DEF LookUp
  \* The lock is free: no closer is at it.
  <2>2. \A j \in Closers : pc[j] # "closing"
    BY <2>1 DEF TypeOK
  <2>3. target[k] \in served /\ target[k] \in Clients
    BY <1>b, <2>1 DEF CloserInv, TypeOK
  <2>4. pc[target[k]] \in Inserted
    BY <1>a, <2>3 DEF ConnectionInv
  <2>5. CASE target[k] \in connections
    <3>1. /\ pc' = [pc EXCEPT ![k] = "closing"]
          /\ connections' = connections \ {target[k]}
          /\ closes' = [closes EXCEPT ![target[k]] = @ + 1]
      BY <1>13, <2>5 DEF LookUp, Goto
    <3>2. /\ \A d \in Clients : pc'[d] = pc[d]
          /\ \A j \in Closers \ {k} : pc'[j] = pc[j]
          /\ pc'[k] = "closing"
      BY <1>0, <3>1
    <3>3. closes[target[k]] = 0
      BY <1>a, <2>3, <2>4, <2>5 DEF ConnectionInv
    <3>4. closes'[target[k]] = 1 /\ \A d \in Clients \ {target[k]} : closes'[d] = closes[d]
      BY <1>0, <2>3, <3>1, <3>3
    <3>5. ASSUME NEW j \in Closers PROVE CloserInv(j)'
      BY <1>b, <2>1, <2>3, <3>2 DEF CloserInv, clientVars
    <3>6. ASSUME NEW d \in Clients, d = target[k] PROVE ConnectionInv(d)'
      BY <1>a, <2>1, <2>3, <2>4, <3>1, <3>2, <3>4, <3>6 DEF ConnectionInv, Inserted
    <3>7. ASSUME NEW d \in Clients, d # target[k] PROVE ConnectionInv(d)'
      <4>1. closes'[d] = closes[d] /\ (d \in connections' <=> d \in connections)
        BY <3>1, <3>4, <3>7
      <4>2. ConnectionInv(d) /\ pc'[d] = pc[d]
        BY <1>a, <3>2
      <4>3. UNCHANGED <<served, shut, gone>>
        BY <2>1 DEF clientVars
      <4>4. closes[d] = 1 => d \in shut \cup gone
        BY <2>2, <4>2 DEF ConnectionInv
      <4> QED BY <4>1, <4>2, <4>3, <4>4 DEF ConnectionInv
    <3> QED BY <3>5, <3>6, <3>7 DEF IInv
  <2>6. CASE target[k] \notin connections
    <3>1. pc' = [pc EXCEPT ![k] = "done"] /\ UNCHANGED <<connections, closes>>
      BY <1>13, <2>6 DEF LookUp, Goto
    <3>2. /\ \A d \in Clients : pc'[d] = pc[d]
          /\ \A j \in Closers \ {k} : pc'[j] = pc[j]
          /\ pc'[k] = "done"
      BY <1>0, <3>1
    \* Another closer has had the connection, and is through with it.
    <3>3. target[k] \in shut \cup gone
      BY <1>a, <2>2, <2>3, <2>4, <2>6 DEF ConnectionInv
    <3>4. ASSUME NEW j \in Closers PROVE CloserInv(j)'
      BY <1>b, <2>1, <3>2, <3>3 DEF CloserInv, clientVars
    <3>5. ASSUME NEW d \in Clients PROVE ConnectionInv(d)'
      BY <1>a, <2>1, <2>2, <3>1, <3>2 DEF ConnectionInv, clientVars
    <3> QED BY <3>4, <3>5 DEF IInv
  <2> QED BY <2>5, <2>6
<1>14. ASSUME NEW k \in Closers, CloseEnds(k) PROVE IInv'
  <2>1. /\ pc[k] = "closing" /\ pc' = [pc EXCEPT ![k] = "done"]
        /\ shut \subseteq shut' /\ target[k] \in shut' \cup gone
        /\ UNCHANGED <<clientVars, connections, served, target, closes>>
    BY <1>14 DEF CloseEnds, Goto
  <2>2. /\ \A d \in Clients : pc'[d] = pc[d]
        /\ \A j \in Closers \ {k} : pc'[j] = pc[j]
        /\ pc'[k] = "done"
    BY <1>0, <2>1
  <2>3. ASSUME NEW j \in Closers PROVE CloserInv(j)'
    BY <1>b, <2>1, <2>2 DEF CloserInv, clientVars
  <2>4. ASSUME NEW d \in Clients PROVE ConnectionInv(d)'
    <3>1. ASSUME closes'[d] = 1
          PROVE  \/ d \in shut' \cup gone'
                 \/ \E j \in Closers : pc'[j] = "closing" /\ target'[j] = d
      <4>1. \/ d \in shut \cup gone
            \/ \E j \in Closers : pc[j] = "closing" /\ target[j] = d
        BY <1>a, <2>1, <3>1 DEF ConnectionInv
      <4> QED BY <2>1, <2>2, <4>1 DEF clientVars
    <3> QED BY <1>a, <2>1, <2>2, <3>1 DEF ConnectionInv
  <2> QED BY <2>3, <2>4 DEF IInv
<1>15. CASE UNCHANGED vars
  BY <1>15, <1>a, <1>b DEF vars, clientVars, closerVars, IInv, ConnectionInv, CloserInv
<1> QED BY <1>1, <1>2, <1>3, <1>4, <1>5, <1>6, <1>7, <1>8, <1>9, <1>10, <1>11, <1>12, <1>13,
           <1>14, <1>15 DEF Next, ConnectionStep, CloserStep

LEMMA Always == Spec => [](TypeOK /\ IInv)
<1>1. TypeOK /\ IInv /\ [Next]_vars => (TypeOK /\ IInv)'
  BY TypeStep, StepInv
<1> QED BY TypeInit, InitInv, <1>1, PTL DEF Spec

\* However many tasks call close_connection, at most one of them finds a
\* connection in the table, and it is not put there again.
THEOREM OneCloses == Spec => []ClosedOnce
<1>1. IInv => ClosedOnce
  BY DEF IInv, ConnectionInv, ClosedOnce, Inserted
<1> QED BY Always, <1>1, PTL

\* When close_connection returns, also because it found nothing in the table,
\* the connection is shut down or its client is gone: the task that took it out
\* kept the table's lock until then.
THEOREM CloseWorks == Spec => []CloseTakesEffect
<1>1. IInv => CloseTakesEffect
  BY DEF IInv, CloserInv, CloseTakesEffect
<1> QED BY Always, <1>1, PTL
=============================================================================
