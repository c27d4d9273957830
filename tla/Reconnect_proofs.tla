-------------------------- MODULE Reconnect_proofs --------------------------
(* The safety properties of Reconnect, for any number of tasks, commands and *)
(* connections.                                                              *)
EXTENDS Reconnect, TLAPS

(***************************************************************************)
(* What holds of a socket at every step.  Backoff: while the delay is below *)
(* its maximum it is one more than what was slept, as in 1 + 2 + 4 = 8 - 1. *)
(***************************************************************************)
Halves ==
    /\ pc[Handler] = "swapWriter" => readHalf = opened
    /\ HalvesAgree

Backoff ==
    /\ pc[Handler] = "sleep" => delay < MaxDelay
    /\ IF delay < MaxDelay THEN slept = delay - 1 ELSE slept <= 2 * MaxDelay - 3

IInv == TypeOK /\ Halves /\ Backoff

LEMMA InitIInv == Init => IInv
<1> SUFFICES ASSUME Init PROVE IInv
    OBVIOUS
<1> USE SizesAssumption, TasksAssumption
<1>1. TypeOK
    BY DEF Init, TypeOK, CountersOK, HalvesOK, PlacesOK, LocksOK, Tasks, Users, Connections,
           HandlerLabels, UserLabels, Writing
<1>2. Halves
    BY DEF Init, Halves, HalvesAgree, Tasks, Users, Writing
<1>3. Backoff
    BY DEF Init, Backoff, Tasks
<1> QED
    BY <1>1, <1>2, <1>3 DEF IInv

(* The steps of the client and of send_command touch no lock and no half. *)
LEMMA OutsideSteps ==
    ASSUME IInv,
           SendCommand \/ \E c \in Connections : ClientSends(c) \/ ClientEnds(c)
    PROVE  IInv'
<1> USE DEF channel, backoff, halves, wire, locks, tasks
<1>1. UNCHANGED <<opened, delay, slept, readHalf, writeHalf, readLock, writeLock, pc, on>>
    BY DEF SendCommand, ClientSends, ClientEnds
<1>2. CountersOK' /\ over' \subseteq Connections
    <2> USE SizesAssumption DEF IInv, TypeOK, CountersOK, HalvesOK
    <2>1. CASE SendCommand
        BY <2>1 DEF SendCommand
    <2>2. ASSUME NEW c \in Connections, ClientSends(c)
          PROVE  CountersOK' /\ over' \subseteq Connections
        BY <2>2 DEF ClientSends, Connections
    <2>3. ASSUME NEW c \in Connections, ClientEnds(c)
          PROVE  CountersOK' /\ over' \subseteq Connections
        BY <2>3 DEF ClientEnds
    <2> QED
        BY <2>1, <2>2, <2>3
<1>3. HalvesOK' /\ PlacesOK' /\ LocksOK'
    BY <1>1, <1>2 DEF IInv, TypeOK, HalvesOK, PlacesOK, LocksOK, Connections
<1>4. Halves' /\ Backoff'
    BY <1>1 DEF IInv, Halves, HalvesAgree, Backoff
<1> QED
    BY <1>2, <1>3, <1>4 DEF IInv, TypeOK

(***************************************************************************)
(* The task of handle_commands goes to the place l, and leaves what the     *)
(* other tasks are at alone: a half changes only when nobody has its lock.  *)
(***************************************************************************)
LEMMA HandlerMoves ==
    ASSUME IInv, NEW l \in HandlerLabels,
           HandlerGoes(l),
           UNCHANGED <<called, wire, locks>>,
           commands' \in 0..Capacity,
           opened' \in 1..MaxOpened, opened <= opened',
           readHalf' \in {readHalf, opened}, readHalf' # readHalf => readLock = Null,
           writeHalf' \in {writeHalf, opened}, writeHalf' # writeHalf => writeLock = Null,
           l \notin {"swapReader", "swapWriter"} => readHalf' = opened' /\ writeHalf' = opened',
           l = "swapWriter" => readHalf' = opened',
           delay' \in 1..MaxDelay, slept' \in Nat,
           l = "sleep" => delay' < MaxDelay,
           IF delay' < MaxDelay THEN slept' = delay' - 1 ELSE slept' <= 2 * MaxDelay - 3
    PROVE  IInv'
<1> USE DEF wire, locks
<1>1. /\ pc' \in [Tasks -> HandlerLabels \cup UserLabels]
      /\ pc'[Handler] = l /\ \A t \in Users : pc'[t] = pc[t]
      /\ on' = on
    BY TasksAssumption DEF IInv, TypeOK, PlacesOK, HandlerGoes, Tasks
<1>2. CountersOK'
    BY DEF IInv, TypeOK, CountersOK
<1>3. HalvesOK'
    <2>1. opened \in 1..MaxOpened /\ MaxOpened \in Nat
        BY SizesAssumption DEF IInv, TypeOK, HalvesOK
    <2>2. 1..opened \subseteq 1..opened' /\ 0..opened \subseteq 0..opened'
        <3>1. opened \in Int /\ opened' \in Int
            BY <2>1
        <3>2. ASSUME NEW c \in 1..opened PROVE c \in 1..opened'
            BY <3>1
        <3>3. ASSUME NEW c \in 0..opened PROVE c \in 0..opened'
            BY <3>1
        <3> QED
            BY <3>2, <3>3
    <2>3. readHalf' \in 1..opened' /\ writeHalf' \in 1..opened'
        <3>1. readHalf \in 1..opened /\ writeHalf \in 1..opened /\ opened \in 1..opened
            BY <2>1 DEF IInv, TypeOK, HalvesOK, Connections
        <3> QED
            BY <3>1, <2>2
    <2>4. over' \subseteq 1..opened'
        BY <2>2 DEF IInv, TypeOK, HalvesOK, Connections
    <2>5. on' \in [Users -> 0..opened']
        BY <1>1, <2>2 DEF IInv, TypeOK, HalvesOK
    <2> QED
        BY <2>3, <2>4, <2>5 DEF HalvesOK, Connections
<1>4. PlacesOK' /\ LocksOK'
    BY <1>1 DEF IInv, TypeOK, PlacesOK, LocksOK
<1>5. Halves'
    <2>1. ASSUME NEW t \in Users, pc[t] = "receive" PROVE on[t] = readHalf'
        BY <2>1, TasksAssumption DEF IInv, TypeOK, LocksOK, Halves, HalvesAgree, Tasks
    <2>2. ASSUME NEW t \in Users, pc[t] \in Writing PROVE on[t] = writeHalf'
        BY <2>2, TasksAssumption DEF IInv, TypeOK, LocksOK, Halves, HalvesAgree, Tasks
    <2> QED
        BY <1>1, <2>1, <2>2 DEF Halves, HalvesAgree
<1>6. Backoff'
    BY <1>1 DEF Backoff
<1> QED
    BY <1>2, <1>3, <1>4, <1>5, <1>6 DEF IInv, TypeOK

LEMMA HandlerSteps == ASSUME IInv, Handles PROVE IInv'
<1>1. /\ commands \in 0..Capacity /\ delay \in 1..MaxDelay /\ slept \in Nat
      /\ opened \in 1..MaxOpened
      /\ Capacity \in Nat /\ MaxDelay \in Nat /\ MaxDelay > 1 /\ MaxOpened \in Nat
    BY SizesAssumption DEF IInv, TypeOK, CountersOK, HalvesOK
<1>2. /\ pc[Handler] \notin {"swapReader", "swapWriter"} => readHalf = opened /\ writeHalf = opened
      /\ pc[Handler] = "swapWriter" => readHalf = opened
      /\ pc[Handler] = "sleep" => delay < MaxDelay
      /\ IF delay < MaxDelay THEN slept = delay - 1 ELSE slept <= 2 * MaxDelay - 3
    BY DEF IInv, Halves, HalvesAgree, Backoff
<1>3. /\ "recv" \in HandlerLabels /\ "connect" \in HandlerLabels /\ "sleep" \in HandlerLabels
      /\ "swapReader" \in HandlerLabels /\ "swapWriter" \in HandlerLabels
    BY DEF HandlerLabels
<1> USE DEF channel, backoff, halves
<1>4. CASE TakeCommand
    <2>1. commands' \in 0..Capacity
        BY <1>1, <1>4 DEF TakeCommand
    <2>2. HandlerGoes("connect") /\ UNCHANGED <<called, wire, locks, opened, readHalf, writeHalf, delay, slept>>
        BY <1>4 DEF TakeCommand
    <2>3. readHalf = opened /\ writeHalf = opened
        BY <1>2, <1>4 DEF TakeCommand
    <2> QED
        BY <1>1, <1>2, <1>3, <2>1, <2>2, <2>3, HandlerMoves
<1>5. CASE Connect
    <2>1. /\ HandlerGoes("swapReader")
          /\ UNCHANGED <<called, wire, locks, commands, readHalf, writeHalf>>
          /\ delay' = 1 /\ slept' = 0
        BY <1>5 DEF Connect, ForgetDelay
    <2>2. opened' \in 1..MaxOpened /\ opened <= opened'
        BY <1>1, <1>5 DEF Connect
    <2> QED
        BY <1>1, <1>3, <2>1, <2>2, HandlerMoves
<1>6. CASE ConnectFails
    <2>1. /\ UNCHANGED <<called, wire, locks, commands, opened, readHalf, writeHalf>>
          /\ readHalf = opened /\ writeHalf = opened
        BY <1>2, <1>6 DEF ConnectFails
    <2>2. CASE delay < MaxDelay
        <3>1. HandlerGoes("sleep") /\ UNCHANGED <<delay, slept>>
            BY <1>6, <2>2 DEF ConnectFails
        <3> QED
            BY <1>1, <1>2, <1>3, <2>1, <2>2, <3>1, HandlerMoves
    <2>3. CASE ~(delay < MaxDelay)
        <3>1. HandlerGoes("recv") /\ delay' = 1 /\ slept' = 0
            BY <1>6, <2>3 DEF ConnectFails, ForgetDelay
        <3> QED
            BY <1>1, <1>3, <2>1, <3>1, HandlerMoves
    <2> QED
        BY <2>2, <2>3
<1>7. CASE Wake
    <2>1. /\ HandlerGoes("connect")
          /\ UNCHANGED <<called, wire, locks, commands, opened, readHalf, writeHalf>>
          /\ readHalf = opened /\ writeHalf = opened
        BY <1>2, <1>7 DEF Wake
    <2>2. slept = delay - 1 /\ slept' = slept + delay
          /\ delay' = IF delay * 2 < MaxDelay THEN delay * 2 ELSE MaxDelay
        BY <1>2, <1>7 DEF Wake
    <2>3. /\ delay' \in 1..MaxDelay /\ slept' \in Nat
          /\ IF delay' < MaxDelay THEN slept' = delay' - 1 ELSE slept' <= 2 * MaxDelay - 3
        <3>1. delay < MaxDelay
            BY <1>2, <1>7 DEF Wake
        <3> QED
            BY <1>1, <2>2, <3>1
    <2>4. opened' \in 1..MaxOpened /\ opened <= opened'
        BY <1>1, <2>1
    <2> QED
        BY <1>1, <1>3, <2>1, <2>3, <2>4, HandlerMoves
<1>8. CASE SwapReader
    <2>1. /\ HandlerGoes("swapWriter") /\ readLock = Null /\ readHalf' = opened
          /\ UNCHANGED <<called, wire, locks, commands, opened, writeHalf, delay, slept>>
        BY <1>8 DEF SwapReader
    <2> QED
        BY <1>1, <1>2, <1>3, <2>1, HandlerMoves
<1>9. CASE SwapWriter
    <2>1. /\ HandlerGoes("recv") /\ writeLock = Null /\ writeHalf' = opened
          /\ UNCHANGED <<called, wire, locks, commands, opened, readHalf, delay, slept>>
          /\ readHalf = opened
        BY <1>2, <1>9 DEF SwapWriter
    <2> QED
        BY <1>1, <1>2, <1>3, <2>1, HandlerMoves
<1> QED
    BY <1>4, <1>5, <1>6, <1>7, <1>8, <1>9 DEF Handles

(***************************************************************************)
(* A task t goes to the place l, and d is the connection of the half it has *)
(* then locked; it leaves the counters and the handler alone.               *)
(***************************************************************************)
LEMMA UserMoves ==
    ASSUME IInv, NEW t \in Users, NEW l \in UserLabels, NEW d \in 0..opened,
           pc' = [pc EXCEPT ![t] = l],
           on' = [on EXCEPT ![t] = d],
           UNCHANGED <<channel, backoff, opened, halves, sent, over>>,
           arrived' \in [1..MaxOpened -> Nat],
           l = "receive" => d = readHalf /\ readLock \in {t, Null},
           l \in Writing => d = writeHalf /\ writeLock \in {t, Null},
           readLock' = IF l = "receive" THEN t ELSE IF readLock = t THEN Null ELSE readLock,
           writeLock' = IF l \in Writing THEN t ELSE IF writeLock = t THEN Null ELSE writeLock
    PROVE  IInv'
<1> USE DEF channel, backoff, halves
<1>1. /\ pc' \in [Tasks -> HandlerLabels \cup UserLabels]
      /\ pc'[t] = l /\ \A u \in Users : u # t => pc'[u] = pc[u]
      /\ pc'[Handler] = pc[Handler]
    BY TasksAssumption DEF IInv, TypeOK, PlacesOK, Tasks
<1>2. /\ on' \in [Users -> 0..opened]
      /\ on'[t] = d /\ \A u \in Users : u # t => on'[u] = on[u]
    BY DEF IInv, TypeOK, HalvesOK
<1>3. CountersOK' /\ HalvesOK' /\ PlacesOK'
    BY <1>1, <1>2 DEF IInv, TypeOK, CountersOK, HalvesOK, PlacesOK, Connections
<1>4. LocksOK'
    <2>1. Null \notin Users
        BY TasksAssumption DEF Tasks
    <2> QED
        BY <1>1, <2>1 DEF IInv, TypeOK, LocksOK
<1>5. Halves' /\ Backoff'
    BY <1>1, <1>2 DEF IInv, Halves, HalvesAgree, Backoff
<1> QED
    BY <1>3, <1>4, <1>5 DEF IInv, TypeOK

(* The tasks that read, send and close. *)
LEMMA UserSteps ==
    ASSUME IInv, NEW t \in Users, Call(t) \/ Locks(t) \/ Works(t)
    PROVE  IInv'
<1>1. /\ on[t] \in 0..opened /\ on = [on EXCEPT ![t] = on[t]] /\ 0 \in 0..opened
      /\ readHalf \in 0..opened /\ writeHalf \in 0..opened
    BY SizesAssumption DEF IInv, TypeOK, HalvesOK, Connections
<1>2. arrived \in [1..MaxOpened -> Nat]
    BY DEF IInv, TypeOK, CountersOK
<1>3. t # Null
    BY TasksAssumption DEF Tasks
<1>4. /\ readLock = t <=> pc[t] = "receive"
      /\ writeLock = t <=> pc[t] \in Writing
      /\ pc[t] \in Writing => on[t] = writeHalf
    BY DEF IInv, TypeOK, LocksOK, Halves, HalvesAgree
<1>5. /\ {"read", "receive", "answer", "write", "shutdown", "done"} \subseteq UserLabels
      /\ Writing \subseteq UserLabels
      /\ \A l \in {"idle", "read", "receive", "answer", "write", "shutdown", "done"} : l \notin Writing
      /\ {"answering", "writing", "shutting", "closing"} = Writing
    BY DEF UserLabels, Writing
<1> USE <1>1, <1>2, <1>3, <1>4, <1>5, UserMoves DEF wire, locks, Release, Goto
<1>6. CASE Call(t)
    BY <1>6 DEF Call
<1>7. CASE LockReader(t)
    BY <1>7 DEF LockReader
<1>8. CASE LockWriter(t)
    <2>1. pc[t] \notin Writing /\ pc[t] # "receive" /\ Wanted[pc[t]] \in Writing
        BY <1>8 DEF LockWriter, Wanted
    <2>2. Wanted[pc[t]] # "receive"
        BY <2>1
    <2> QED
        BY <1>8, <2>1, <2>2 DEF LockWriter
<1>9. CASE PassReader(t)
    BY <1>9 DEF PassReader
<1>10. CASE Receive(t)
    <2>1. PICK l \in {"read", "answer", "write"} : Release(t, l)
        BY <1>10 DEF Receive
    <2>2. arrived' \in [1..MaxOpened -> Nat]
        <3>1. on[t] \in 1..MaxOpened
            BY <1>10, SizesAssumption DEF Receive, IInv, TypeOK, Halves, HalvesAgree, HalvesOK,
                                          Connections
        <3>2. arrived[on[t]] - 1 \in Nat
            BY <1>2, <1>10, <3>1 DEF Receive
        <3> QED
            BY <1>2, <1>10, <3>2 DEF Receive
    <2> QED
        BY <1>10, <2>1, <2>2 DEF Receive
<1>11. CASE ReceiveFails(t)
    BY <1>11 DEF ReceiveFails
<1>12. CASE Write(t)
    <2>1. PICK l \in {"read", "shutdown", "done"} : Release(t, l)
        BY <1>12 DEF Write
    <2> QED
        BY <1>12, <2>1 DEF Write
<1>13. CASE Shutdown(t)
    BY <1>13 DEF Shutdown
<1> QED
    BY <1>6, <1>7, <1>8, <1>9, <1>10, <1>11, <1>12, <1>13 DEF Locks, Works

LEMMA NextIInv == IInv /\ [Next]_vars => IInv'
<1> SUFFICES ASSUME IInv, [Next]_vars PROVE IInv'
    OBVIOUS
<1>1. CASE SendCommand \/ \E c \in Connections : ClientSends(c) \/ ClientEnds(c)
    BY <1>1, OutsideSteps
<1>2. CASE Handles
    BY <1>2, HandlerSteps
<1>3. CASE \E t \in Users : Call(t) \/ Locks(t) \/ Works(t)
    BY <1>3, UserSteps
<1>4. CASE UNCHANGED vars
    BY <1>4 DEF vars, channel, backoff, halves, wire, locks, tasks, IInv, TypeOK, CountersOK,
                HalvesOK, PlacesOK, LocksOK, Halves, HalvesAgree, Backoff, Connections
<1> QED
    BY <1>1, <1>2, <1>3, <1>4 DEF Next

LEMMA Inductive == Spec => []IInv
<1> QED
    BY InitIInv, NextIInv, PTL DEF Spec

(* The state keeps its type, and each lock is held by exactly the task that *)
(* reads, or writes or shuts down, whatever is replaced meanwhile.          *)
THEOREM Typing == Spec => []TypeOK
<1>1. IInv => TypeOK
    BY DEF IInv
<1> QED
    BY <1>1, Inductive, PTL

(* Outside a swap both halves are of the newest connection, and nobody uses *)
(* a half that was replaced under its hands.                                *)
THEOREM OneConnection == Spec => []HalvesAgree
<1>1. IInv => HalvesAgree
    BY DEF IInv, Halves
<1> QED
    BY <1>1, Inductive, PTL

(* A reconnect sleeps less than twice the longest delay before it gives up. *)
THEOREM GivesUp == Spec => []WaitsBounded
<1>1. IInv => WaitsBounded
    BY SizesAssumption DEF IInv, TypeOK, CountersOK, Backoff, WaitsBounded
<1> QED
    BY <1>1, Inductive, PTL
=============================================================================
