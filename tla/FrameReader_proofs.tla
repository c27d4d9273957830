-------------------------- MODULE FrameReader_proofs --------------------------
(***************************************************************************)
(* Theorems about FrameReader, for any readers and any frames: its types;    *)
(* and, while one task reads, frames out of sequence and no others of the     *)
(* ordinary ones fail the connection, no data frame is lost and every Ping   *)
(* is answered.                                                             *)
(***************************************************************************)
EXTENDS FrameReader, WellFoundedInduction, TLAPS

HalfType == [part : {"header", "payload"}, of : Frames]
Answers  == [op : {"pong", "close"}, code : Frames \cup {1000, 1002, 1007, 1011}]
Outcome  == ErrorType \cup ResultType

\* TypeOK, with the sequences as sequences.
ReaderInv ==
    /\ stream \in Seq(HalfType)
    /\ sent \in 0..MaxFrames
    /\ ended \in BOOLEAN /\ writable \in BOOLEAN /\ torn \in BOOLEAN
    /\ pc \in [Readers -> {"idle", "header", "payload", "done"}]
    /\ frame \in [Readers -> Frames \cup {Null}]
    /\ \A t \in Readers : pc[t] = "payload" => frame[t] \in Frames
    /\ message \in [Readers -> Seq(Frames)]
    /\ taken \in Seq(Frames)
    /\ results \in Seq(Outcome)
    /\ out \in Seq(Answers)

LEMMA AppendType ==
    ASSUME NEW S, NEW s \in Seq(S), NEW e \in S
    PROVE  Append(s, e) \in Seq(S) /\ Append(s, e)[Len(s) + 1] = e
           /\ Len(Append(s, e)) = Len(s) + 1 /\ Append(s, e) # <<>>
           /\ DOMAIN Append(s, e) = DOMAIN s \cup {Len(s) + 1}
           /\ \A i \in DOMAIN s : Append(s, e)[i] = s[i]
OBVIOUS

LEMMA TailType ==
    ASSUME NEW S, NEW s \in Seq(S), s # <<>>
    PROVE  Head(s) \in S /\ Tail(s) \in Seq(S)
OBVIOUS

LEMMA ConcatType ==
    ASSUME NEW S, NEW s \in Seq(S), NEW u \in Seq(S)
    PROVE  s \o u \in Seq(S)
OBVIOUS

-----------------------------------------------------------------------------
(* FlattenSeq (SequencesExt) is a recursive function over the indices of its *)
(* sequence.  Induction over them is by the least counterexample.            *)

\* A set that holds 0 and the successor of every number in it holds them all.
LEMMA NatInd ==
  ASSUME NEW S, 0 \in S, \A n \in Nat : n \in S => n + 1 \in S
  PROVE  Nat \subseteq S
<1> DEFINE T == {n \in Nat : n \notin S}
<1> DEFINE R == {ss \in Nat \X Nat : ss[1] < ss[2]}
<1> SUFFICES ASSUME T # {} PROVE FALSE
  OBVIOUS
<1>1. IsWellFoundedOn(R, Nat)
  BY NatLessThanWellFounded DEF OpToRel
<1>2. T \subseteq Nat
  OBVIOUS
<1> HIDE DEF T, R
<1>3. PICK x \in T : \A y \in T : ~ (<<y, x>> \in R)
  BY <1>1, <1>2, WFMin
<1>5. x \in Nat /\ x # 0
  BY <1>2 DEF T
<1>6. x - 1 \in Nat /\ x - 1 < x /\ (x - 1) + 1 = x
  BY <1>5
<1>7. <<x - 1, x>> \in R
  BY <1>5, <1>6 DEF R
<1>8. x - 1 \notin T
  BY <1>3, <1>7
<1> QED
  BY <1>3, <1>5, <1>6, <1>8 DEF T

\* f holds the concatenations of the first sequences of ss.
Concats(f, ss, n) ==
    f = [i \in 1..n |-> IF i = 1 THEN ss[i] ELSE f[i-1] \o ss[i]]

LEMMA ConcatsAt ==
  ASSUME NEW f, NEW ss, NEW n, Concats(f, ss, n)
  PROVE  \A i \in 1..n : f[i] = IF i = 1 THEN ss[i] ELSE f[i-1] \o ss[i]
BY DEF Concats

LEMMA ConcatsExist ==
  ASSUME NEW A, NEW ss \in Seq(Seq(A)), NEW n \in 1..Len(ss)
  PROVE  \E f \in [1..n -> Seq(A)] : Concats(f, ss, n)
<1> DEFINE S == {m \in Nat : m + 1 \in 1..Len(ss) => \E f \in [1..m + 1 -> Seq(A)] : Concats(f, ss, m + 1)}
<1>1. 0 \in S
  <2> SUFFICES ASSUME 1 \in 1..Len(ss) PROVE \E f \in [1..1 -> Seq(A)] : Concats(f, ss, 1)
    BY 0 + 1 = 1
  <2> DEFINE f == [i \in 1..1 |-> ss[1]]
  <2>1. f \in [1..1 -> Seq(A)]
    OBVIOUS
  <2>2. Concats(f, ss, 1)
    BY DEF Concats
  <2> QED BY <2>1, <2>2
<1>2. \A m \in Nat : m \in S => m + 1 \in S
  <2> SUFFICES ASSUME NEW m \in Nat, m \in S, m + 2 \in 1..Len(ss)
               PROVE  \E f \in [1..m + 2 -> Seq(A)] : Concats(f, ss, m + 2)
    BY \A m \in Nat : (m + 1) + 1 = m + 2
  <2>1. PICK g \in [1..m + 1 -> Seq(A)] : Concats(g, ss, m + 1)
    OBVIOUS
  <2> DEFINE f == [i \in 1..m + 2 |-> IF i = m + 2 THEN g[m + 1] \o ss[m + 2] ELSE g[i]]
  <2>2. f \in [1..m + 2 -> Seq(A)]
    <3>1. g[m + 1] \o ss[m + 2] \in Seq(A)
      <4>1. g[m + 1] \in Seq(A) /\ ss[m + 2] \in Seq(A)
        OBVIOUS
      <4> QED BY <4>1
    <3> QED BY <3>1
  <2>3. \A i \in 1..m + 2 : f[i] = IF i = 1 THEN ss[i] ELSE f[i-1] \o ss[i]
    <3>1. \A i \in 1..m + 1 : g[i] = IF i = 1 THEN ss[i] ELSE g[i-1] \o ss[i]
      BY <2>1 DEF Concats
    <3> HIDE DEF f
    <3>2. /\ \A i \in 1..m + 1 : f[i] = g[i]
          /\ f[m + 2] = g[m + 1] \o ss[m + 2]
      <4>1. m + 2 \in 1..m + 2 /\ \A i \in 1..m + 1 : i \in 1..m + 2 /\ i # m + 2
        OBVIOUS
      <4> QED BY <4>1, Zenon DEF f
    <3>3. ASSUME NEW i \in 1..m + 2 PROVE f[i] = IF i = 1 THEN ss[i] ELSE f[i-1] \o ss[i]
      <4>1. CASE i = m + 2
        <5>1. i # 1 /\ i - 1 = m + 1 /\ f[m + 1] = g[m + 1]
          BY <3>2, <4>1
        <5> QED BY <3>2, <4>1, <5>1
      <4>2. CASE i # m + 2
        <5>1. i \in 1..m + 1 /\ f[i] = g[i] /\ (i # 1 => f[i - 1] = g[i - 1])
          BY <3>2, <4>2
        <5> QED BY <3>1, <5>1
      <4> QED BY <4>1, <4>2
    <3> QED BY <3>3
  <2>4. Concats(f, ss, m + 2)
    BY <2>3 DEF Concats
  <2> QED BY <2>2, <2>4
<1> HIDE DEF S
<1>3. n - 1 \in Nat /\ (n - 1) + 1 = n
  OBVIOUS
<1>4. n - 1 \in S
  BY <1>1, <1>2, <1>3, NatInd
<1> QED BY <1>3, <1>4 DEF S

LEMMA ConcatsAgree ==
  ASSUME NEW ss, NEW tt, NEW n \in Nat, NEW m \in Nat, n <= m, \A i \in 1..n : tt[i] = ss[i],
         NEW f, NEW g, Concats(f, ss, n), Concats(g, tt, m)
  PROVE  \A i \in 1..n : f[i] = g[i]
<1> DEFINE S == {k \in Nat : k \in 1..n => f[k] = g[k]}
<1>1. 0 \in S
  OBVIOUS
<1>2. \A k \in Nat : k \in S => k + 1 \in S
  <2> SUFFICES ASSUME NEW k \in Nat, k \in S, k + 1 \in 1..n PROVE f[k + 1] = g[k + 1]
    OBVIOUS
  <2>1. f[k + 1] = IF k + 1 = 1 THEN ss[k + 1] ELSE f[(k + 1) - 1] \o ss[k + 1]
    BY ConcatsAt
  <2>2. g[k + 1] = IF k + 1 = 1 THEN tt[k + 1] ELSE g[(k + 1) - 1] \o tt[k + 1]
    <3>1. k + 1 \in 1..m
      OBVIOUS
    <3> QED BY <3>1, ConcatsAt
  <2>3. k # 0 => f[k] = g[k]
    OBVIOUS
  <2>4. (k + 1) - 1 = k /\ (k + 1 = 1 <=> k = 0) /\ tt[k + 1] = ss[k + 1]
    OBVIOUS
  <2> QED BY <2>1, <2>2, <2>3, <2>4
<1> HIDE DEF S
<1>3. Nat \subseteq S
  BY <1>1, <1>2, NatInd
<1> QED BY <1>3 DEF S

LEMMA FlattenSeqConcats ==
  ASSUME NEW A, NEW ss \in Seq(Seq(A)), ss # <<>>
  PROVE  \E f : /\ Concats(f, ss, Len(ss)) /\ FlattenSeq(ss) = f[Len(ss)]
                /\ \A i \in 1..Len(ss) : f[i] \in Seq(A)
<1> DEFINE F == CHOOSE f : Concats(f, ss, Len(ss))
<1>1. Len(ss) \in 1..Len(ss)
  OBVIOUS
<1>2. PICK g \in [1..Len(ss) -> Seq(A)] : Concats(g, ss, Len(ss))
  BY <1>1, ConcatsExist
<1>3. Concats(F, ss, Len(ss))
  BY <1>2
<1>4. FlattenSeq(ss) = F[Len(ss)]
  BY <1>1 DEF FlattenSeq, Concats
<1> HIDE DEF F
<1>5. \A i \in 1..Len(ss) : F[i] \in Seq(A)
  <2>1. \A i \in 1..Len(ss) : F[i] = g[i]
    BY <1>2, <1>3, ConcatsAgree
  <2> QED BY <2>1
<1> QED BY <1>3, <1>4, <1>5

LEMMA FlattenSeqEmpty == FlattenSeq(<<>>) = <<>>
BY DEF FlattenSeq

\* FlattenSeq puts its sequences together one behind the other.
LEMMA FlattenSeqAppend ==
  ASSUME NEW A, NEW ss \in Seq(Seq(A)), NEW e \in Seq(A)
  PROVE  FlattenSeq(ss) \in Seq(A) /\ FlattenSeq(Append(ss, e)) = FlattenSeq(ss) \o e
<1> DEFINE tt == Append(ss, e)
<1> DEFINE n == Len(ss)
<1>1. tt \in Seq(Seq(A)) /\ Len(tt) = n + 1 /\ tt # <<>> /\ tt[n + 1] = e
      /\ \A i \in 1..n : tt[i] = ss[i]
  <2> DEFINE S == Seq(A)
  <2> HIDE DEF S
  <2>1. ss \in Seq(S) /\ e \in S
    BY DEF S
  <2>2. tt \in Seq(S) /\ Len(tt) = n + 1 /\ tt # <<>> /\ tt[n + 1] = e
        /\ \A i \in DOMAIN ss : tt[i] = ss[i]
    BY <2>1, AppendType
  <2>3. DOMAIN ss = 1..n
    OBVIOUS
  <2> QED BY <2>2, <2>3 DEF S
<1>2. n \in Nat /\ (ss = <<>> <=> n = 0) /\ n + 1 \in Nat /\ n <= n + 1
  OBVIOUS
<1> HIDE DEF tt
<1>3. PICK g : Concats(g, tt, n + 1) /\ FlattenSeq(tt) = g[n + 1]
  BY <1>1, FlattenSeqConcats
<1>4. CASE ss = <<>>
  <2>1. n = 0 /\ g[1] = e
    BY <1>1, <1>2, <1>3, <1>4 DEF Concats
  <2>2. <<>> \o e = e /\ <<>> \in Seq(A)
    OBVIOUS
  <2>3. FlattenSeq(ss) = <<>> /\ FlattenSeq(tt) = e
    BY <1>3, <1>4, <2>1, FlattenSeqEmpty
  <2> QED BY <2>2, <2>3, Zenon DEF tt
<1>5. CASE ss # <<>>
  <2>1. PICK f : /\ Concats(f, ss, n) /\ FlattenSeq(ss) = f[n]
                 /\ \A i \in 1..n : f[i] \in Seq(A)
    BY <1>5, FlattenSeqConcats
  <2> HIDE DEF n
  <2>2. \A i \in 1..n : f[i] = g[i]
    <3>1. /\ n \in Nat /\ n + 1 \in Nat /\ n <= n + 1
          /\ \A i \in 1..n : tt[i] = ss[i]
          /\ Concats(f, ss, n) /\ Concats(g, tt, n + 1)
      BY <1>1, <1>2, <1>3, <2>1
    <3> QED BY <3>1, ConcatsAgree
  <2>3. n \in 1..n /\ n + 1 \in 1..n + 1 /\ n + 1 # 1 /\ (n + 1) - 1 = n
    BY <1>2, <1>5
  <2>4. g[n + 1] = g[n] \o tt[n + 1]
    BY <1>3, <2>3 DEF Concats
  <2> QED BY <1>1, <1>3, <2>1, <2>2, <2>3, <2>4 DEF tt
<1> QED BY <1>4, <1>5
-----------------------------------------------------------------------------
(* What a step leads to *)

\* What the reaction to a frame may change, and into what.
Reaction(t) ==
    /\ pc' \in [Readers -> {"idle", "header", "payload", "done"}]
    /\ pc'[t] \in {"header", "done"}
    /\ \A u \in Readers : u # t => pc'[u] = pc[u]
    /\ message' \in [Readers -> Seq(Frames)]
    /\ results' \in Seq(Outcome)
    /\ out' \in Seq(Answers)
    /\ writable' \in BOOLEAN

\* A result is added.
LEMMA ReturnType ==
    ASSUME ReaderInv, NEW t \in Readers, NEW r \in Outcome,
           NEW next \in {"header", "done"}, Returns(t, r, next),
           out' \in Seq(Answers), writable' \in BOOLEAN
    PROVE  Reaction(t)
<1>1. results' = Append(results, r) /\ results \in Seq(Outcome)
  BY DEF Returns, ReaderInv
<1> HIDE DEF Outcome
<1>2. /\ results' \in Seq(Outcome) /\ results'[Len(results) + 1] = r
      /\ DOMAIN results' = DOMAIN results \cup {Len(results) + 1}
      /\ \A i \in DOMAIN results : results'[i] = results[i]
  BY <1>1, AppendType
<1>4. /\ pc' = [pc EXCEPT ![t] = next] /\ message' = [message EXCEPT ![t] = <<>>]
      /\ pc \in [Readers -> {"idle", "header", "payload", "done"}]
      /\ message \in [Readers -> Seq(Frames)]
  BY DEF Returns, ReaderInv
<1>5. /\ pc' \in [Readers -> {"idle", "header", "payload", "done"}]
      /\ pc'[t] \in {"header", "done"} /\ \A u \in Readers : u # t => pc'[u] = pc[u]
      /\ message' \in [Readers -> Seq(Frames)]
  BY <1>4
<1> QED BY <1>2, <1>5 DEF Reaction

\* The reader goes on in a message.
LEMMA ContinueType ==
    ASSUME ReaderInv, NEW t \in Readers, NEW fs \in Seq(Frames), Continues(t, fs)
    PROVE  Reaction(t)
<1>1. /\ pc' = [pc EXCEPT ![t] = "header"] /\ message' = [message EXCEPT ![t] = fs]
      /\ UNCHANGED <<results, out, writable>>
      /\ pc \in [Readers -> {"idle", "header", "payload", "done"}]
      /\ message \in [Readers -> Seq(Frames)]
  BY DEF Continues, ReaderInv
<1>2. /\ pc' \in [Readers -> {"idle", "header", "payload", "done"}]
      /\ pc'[t] \in {"header", "done"} /\ \A u \in Readers : u # t => pc'[u] = pc[u]
      /\ message' \in [Readers -> Seq(Frames)]
  BY <1>1
<1> QED BY <1>1, <1>2 DEF Reaction, ReaderInv

LEMMA CloseType ==
    ASSUME ReaderInv, NEW code \in {1000, 1002, 1007, 1011}, Closes(code)
    PROVE  out' \in Seq(Answers) /\ writable' \in BOOLEAN
<1>1. [op |-> "close", code |-> code] \in Answers
  BY DEF Answers
<1>2. out \in Seq(Answers) /\ writable \in BOOLEAN
  BY DEF ReaderInv
<1> DEFINE e == [op |-> "close", code |-> code]
<1> HIDE DEF Answers, e
<1>3. out' \in {Append(out, e), out}
  BY DEF Closes, e
<1>4. e \in Answers
  BY <1>1 DEF e
<1>5. writable' \in BOOLEAN
  BY DEF Closes
<1>6. Append(out, e) \in Seq(Answers)
  BY <1>2, <1>4, AppendType
<1> QED BY <1>2, <1>3, <1>5, <1>6

LEMMA FailType ==
    ASSUME ReaderInv, NEW t \in Readers, NEW code \in {1002, 1007, 1011}, Fails(t, code)
    PROVE  Reaction(t)
<1>1. PICK c \in {code, 1011} : Returns(t, [kind |-> "error", code |-> c], "done")
  BY DEF Fails
<1>2. [kind |-> "error", code |-> c] \in Outcome
  BY DEF Outcome, ErrorType
<1>3. out' \in Seq(Answers) /\ writable' \in BOOLEAN
  BY CloseType DEF Fails
<1> QED BY <1>1, <1>2, <1>3, ReturnType

LEMMA CompleteType ==
    ASSUME ReaderInv, NEW t \in Readers, NEW fs \in Seq(Frames), Completes(t, fs)
    PROVE  Reaction(t)
<1>1. /\ [kind |-> "binary", frames |-> fs] \in Outcome
      /\ [kind |-> "text", frames |-> fs] \in Outcome
  BY DEF Outcome, ResultType
<1>2. out \in Seq(Answers) /\ writable \in BOOLEAN
  BY DEF ReaderInv
<1>3. CASE Returns(t, [kind |-> "binary", frames |-> fs], "header") /\ UNCHANGED <<out, writable>>
  BY <1>1, <1>2, <1>3, ReturnType
<1>4. CASE Returns(t, [kind |-> "text", frames |-> fs], "header") /\ UNCHANGED <<out, writable>>
  BY <1>1, <1>2, <1>4, ReturnType
<1>5. CASE Fails(t, 1007)
  BY <1>5, FailType
<1> QED BY <1>3, <1>4, <1>5 DEF Completes

LEMMA PlainType ==
    ASSUME NEW f \in Frames, NEW kind \in {"ping", "pong", "close"}
    PROVE  [kind |-> kind, frames |-> <<f>>] \in Outcome
<1>1. <<f>> \in Seq(Frames)
  OBVIOUS
<1> QED BY <1>1 DEF Outcome, ResultType

LEMMA DataType ==
    ASSUME ReaderInv, NEW t \in Readers, NEW f \in Frames,
           OnContinuation(t, f) \/ OnData(t, f)
    PROVE  Reaction(t)
<1>1. message[t] \in Seq(Frames)
  BY DEF ReaderInv
<1>2. Append(message[t], f) \in Seq(Frames) /\ <<f>> \in Seq(Frames)
  BY <1>1, AppendType
<1>3. CASE Fails(t, 1002)
  BY <1>3, FailType
<1>4. CASE Completes(t, Append(message[t], f)) \/ Completes(t, <<f>>)
  BY <1>2, <1>4, CompleteType
<1>5. CASE Continues(t, Append(message[t], f)) \/ Continues(t, <<f>>)
  BY <1>2, <1>5, ContinueType
<1> QED BY <1>3, <1>4, <1>5 DEF OnContinuation, OnData

LEMMA PingType ==
    ASSUME ReaderInv, NEW t \in Readers, NEW f \in Frames, f \in FrameType, OnPing(t, f)
    PROVE  Reaction(t)
<1>1. CASE Fails(t, 1002) \/ Fails(t, 1011)
  BY <1>1, FailType
<1>2. CASE /\ Returns(t, [kind |-> "error", code |-> 1011], "done")
           /\ UNCHANGED <<out, writable>>
  <2>1. [kind |-> "error", code |-> 1011] \in Outcome
    BY DEF Outcome, ErrorType
  <2> QED BY <1>2, <2>1, ReturnType DEF ReaderInv
<1>3. CASE /\ out' = Append(out, [op |-> "pong", code |-> f]) /\ UNCHANGED writable
           /\ \/ /\ pc' = [pc EXCEPT ![t] = "header"]
                 /\ UNCHANGED <<message, results>>
              \/ Returns(t, [kind |-> "ping", frames |-> <<f>>], "header")
  <2>1. out' \in Seq(Answers) /\ writable' \in BOOLEAN
    <3> DEFINE e == [op |-> "pong", code |-> f]
    <3>1. e \in Answers
      BY DEF Answers
    <3> HIDE DEF Answers, e
    <3>2. out \in Seq(Answers)
      BY DEF ReaderInv
    <3>3. Append(out, e) \in Seq(Answers)
      BY <3>1, <3>2, AppendType
    <3>4. out' = Append(out, e)
      BY <1>3 DEF e
    <3> QED BY <1>3, <3>3, <3>4 DEF ReaderInv
  <2>2. CASE Returns(t, [kind |-> "ping", frames |-> <<f>>], "header")
    BY <2>1, <2>2, PlainType, ReturnType
  <2>3. CASE /\ pc' = [pc EXCEPT ![t] = "header"]
             /\ UNCHANGED <<message, results>>
    <3>1. /\ pc \in [Readers -> {"idle", "header", "payload", "done"}]
          /\ message' \in [Readers -> Seq(Frames)] /\ results' \in Seq(Outcome)
      BY <2>3 DEF ReaderInv
    <3>2. /\ pc' \in [Readers -> {"idle", "header", "payload", "done"}]
          /\ pc'[t] \in {"header", "done"} /\ \A u \in Readers : u # t => pc'[u] = pc[u]
      BY <2>3, <3>1
    <3> QED BY <2>1, <3>1, <3>2 DEF Reaction
  <2> QED BY <1>3, <2>2, <2>3
<1> QED BY <1>1, <1>2, <1>3 DEF OnPing

LEMMA CloseFrameType ==
    ASSUME ReaderInv, NEW t \in Readers, NEW f \in Frames, f \in FrameType, OnClose(t, f)
    PROVE  Reaction(t)
<1>1. CASE Fails(t, 1002) \/ Fails(t, 1007)
  BY <1>1, FailType
<1>2. CASE AnswersClose(t, f)
  <2>1. out' \in Seq(Answers) /\ writable' \in BOOLEAN
    BY <1>2, CloseType DEF AnswersClose
  <2>2. [kind |-> "error", code |-> 1011] \in Outcome
    BY DEF Outcome, ErrorType
  <2>3. CASE Returns(t, [kind |-> "close", frames |-> <<f>>], "done")
    BY <2>1, <2>3, PlainType, ReturnType
  <2>4. CASE Returns(t, [kind |-> "error", code |-> 1011], "done")
    BY <2>1, <2>2, <2>4, ReturnType
  <2> QED BY <1>2, <2>3, <2>4 DEF AnswersClose
<1> QED BY <1>1, <1>2 DEF OnClose

LEMMA FrameReaction ==
    ASSUME ReaderInv, NEW t \in Readers, NEW f \in Frames, f \in FrameType, OnFrame(t, f)
    PROVE  Reaction(t)
<1>1. CASE OnContinuation(t, f) \/ OnData(t, f)
  BY <1>1, DataType
<1>2. CASE OnPing(t, f)
  BY <1>2, PingType
<1>3. CASE /\ OnPong(t, f) /\ ~InMessage(t)
  <2>1. /\ Returns(t, [kind |-> "pong", frames |-> <<f>>], "header")
        /\ out' \in Seq(Answers) /\ writable' \in BOOLEAN
    BY <1>3 DEF OnPong, ReaderInv
  <2> QED BY <2>1, PlainType, ReturnType
<1>4. CASE OnClose(t, f)
  BY <1>4, CloseFrameType
<1>5. CASE Fails(t, 1002)
  BY <1>5, FailType
<1> QED BY <1>1, <1>2, <1>3, <1>4, <1>5 DEF OnFrame, OnPong, Opcodes, FrameType

-----------------------------------------------------------------------------
(* The steps *)

LEMMA ReaderInit == Init => ReaderInv
<1> SUFFICES ASSUME Init PROVE ReaderInv
  OBVIOUS
<1>1. /\ <<>> \in Seq(HalfType) /\ <<>> \in Seq(Frames) /\ <<>> \in Seq(Outcome)
      /\ <<>> \in Seq(Answers)
  OBVIOUS
<1>3. /\ pc \in [Readers -> {"idle", "header", "payload", "done"}]
      /\ frame \in [Readers -> Frames \cup {Null}]
      /\ message \in [Readers -> Seq(Frames)]
      /\ \A t \in Readers : pc[t] # "payload"
  BY <1>1 DEF Init
<1>4. sent \in 0..MaxFrames
  BY FramesAssumption DEF Init
<1> QED BY <1>1, <1>3, <1>4 DEF Init, ReaderInv

\* What a step leaves when it is a reaction of t, or touches no result.
LEMMA AfterReaction ==
    ASSUME ReaderInv, NEW t \in Readers, Reaction(t),
           stream' \in Seq(HalfType), taken' \in Seq(Frames), UNCHANGED <<sent, ended, torn>>,
           frame' \in {frame, [frame EXCEPT ![t] = Null]}
    PROVE  ReaderInv'
<1>1. /\ frame \in [Readers -> Frames \cup {Null}]
      /\ \A u \in Readers : pc[u] = "payload" => frame[u] \in Frames
      /\ pc'[t] # "payload" /\ \A u \in Readers : u # t => pc'[u] = pc[u]
  BY DEF ReaderInv, Reaction
<1>2. /\ frame' \in [Readers -> Frames \cup {Null}]
      /\ \A u \in Readers : u # t => frame'[u] = frame[u]
  BY <1>1
<1>3. \A u \in Readers : pc'[u] = "payload" => frame'[u] \in Frames
  BY <1>1, <1>2
<1> QED BY <1>2, <1>3 DEF ReaderInv, Reaction

LEMMA ReaderStep ==
    ASSUME ReaderInv, [Next]_vars
    PROVE  ReaderInv'
<1> USE FramesAssumption
<1>1. ASSUME NEW f \in Frames, ClientSends(f) PROVE ReaderInv'
  <2>1. /\ [part |-> "header", of |-> f] \in HalfType
        /\ [part |-> "payload", of |-> f] \in HalfType
    BY DEF HalfType
  <2>2. Header(f) \in Seq(HalfType) /\ Payload(f) \in Seq(HalfType)
    BY <2>1 DEF Header, Payload
  <2>3. stream' \in Seq(HalfType)
    BY <1>1, <2>2 DEF ClientSends, ReaderInv
  <2>4. sent' \in 0..MaxFrames
    BY <1>1 DEF ClientSends, ReaderInv
  <2> QED BY <1>1, <2>3, <2>4 DEF ClientSends, ReaderInv
<1>2. ASSUME ClientEnds PROVE ReaderInv'
  <2>1. PICK f \in Frames : stream' \in {stream, stream \o Header(f)}
    BY <1>2 DEF ClientEnds
  <2>2. Header(f) \in Seq(HalfType)
    BY DEF Header, HalfType
  <2>3. stream' \in Seq(HalfType)
    <3>1. stream \in Seq(HalfType)
      BY DEF ReaderInv
    <3> QED BY <2>1, <2>2, <3>1, ConcatType
  <2> QED BY <1>2, <2>3 DEF ClientEnds, ReaderInv
<1>3. ASSUME ClientResets PROVE ReaderInv'
  BY <1>3 DEF ClientResets, ReaderInv
<1>4. ASSUME NEW t \in Readers, Begins(t) PROVE ReaderInv'
  <2>1. /\ pc' \in [Readers -> {"idle", "header", "payload", "done"}]
        /\ \A u \in Readers : pc'[u] = "payload" => pc[u] = "payload"
    BY <1>4 DEF Begins, ReaderInv
  <2> QED BY <1>4, <2>1 DEF Begins, ReaderInv
<1>5. ASSUME NEW t \in Readers, ReadHeader(t) PROVE ReaderInv'
  <2> DEFINE f == Head(stream).of
  <2>1. stream' \in Seq(HalfType) /\ f \in Frames
    <3>1. stream \in Seq(HalfType) /\ stream # <<>> /\ stream' = Tail(stream)
      BY <1>5 DEF ReadHeader, ReaderInv
    <3>2. Head(stream) \in HalfType /\ Tail(stream) \in Seq(HalfType)
      BY <3>1, TailType
    <3> QED BY <3>1, <3>2 DEF HalfType
  <2>2. CASE f.rsv
    <3>1. Fails(t, 1002) /\ taken' = Append(taken, f) /\ UNCHANGED <<frame, sent, ended, torn>>
      BY <1>5, <2>2 DEF ReadHeader
    <3>2. Reaction(t)
      BY <3>1, FailType
    <3>3. taken' \in Seq(Frames)
      BY <2>1, <3>1, AppendType DEF ReaderInv
    <3> QED BY <2>1, <3>1, <3>2, <3>3, AfterReaction
  <2>3. CASE ~f.rsv
    <3> HIDE DEF f
    <3>1. /\ frame' = [frame EXCEPT ![t] = f] /\ pc' = [pc EXCEPT ![t] = "payload"]
          /\ UNCHANGED <<message, taken, results, out, writable, sent, ended, torn>>
      BY <1>5, <2>3 DEF ReadHeader, f
    <3>2. /\ frame \in [Readers -> Frames \cup {Null}]
          /\ pc \in [Readers -> {"idle", "header", "payload", "done"}]
          /\ \A u \in Readers : pc[u] = "payload" => frame[u] \in Frames
      BY DEF ReaderInv
    <3>3. /\ frame' \in [Readers -> Frames \cup {Null}]
          /\ pc' \in [Readers -> {"idle", "header", "payload", "done"}]
          /\ \A u \in Readers : pc'[u] = "payload" => frame'[u] \in Frames
      BY <2>1, <3>1, <3>2
    <3> QED BY <2>1, <3>1, <3>3 DEF ReaderInv
  <2> QED BY <2>2, <2>3
<1>6. ASSUME NEW t \in Readers, ReadPayload(t) PROVE ReaderInv'
  <2> DEFINE f == frame[t]
  <2>1. f \in Frames /\ f \in FrameType
    BY <1>6 DEF ReadPayload, ReaderInv
  <2>2. /\ Fails(t, 1002) \/ OnFrame(t, f)
        /\ taken' = Append(taken, f) /\ frame' = [frame EXCEPT ![t] = Null]
        /\ UNCHANGED <<sent, ended, torn>>
        /\ stream' = stream \/ (stream # <<>> /\ stream' = Tail(stream))
    BY <1>6 DEF ReadPayload
  <2>3. Reaction(t)
    BY <2>1, <2>2, FailType, FrameReaction
  <2>4. taken' \in Seq(Frames)
    BY <2>1, <2>2, AppendType DEF ReaderInv
  <2>5. stream' \in Seq(HalfType)
    BY <2>2, TailType DEF ReaderInv
  <2> QED BY <2>2, <2>3, <2>4, <2>5, AfterReaction
<1>7. ASSUME NEW t \in Readers, ReadsEnd(t) PROVE ReaderInv'
  <2>1. Fails(t, 1002) /\ frame' = [frame EXCEPT ![t] = Null]
        /\ UNCHANGED <<stream, taken, sent, ended, torn>>
    BY <1>7 DEF ReadsEnd
  <2>2. Reaction(t)
    BY <2>1, FailType
  <2>3. stream' \in Seq(HalfType) /\ taken' \in Seq(Frames)
    BY <2>1 DEF ReaderInv
  <2> QED BY <2>1, <2>2, <2>3, AfterReaction
<1>8. ASSUME NEW t \in Readers, ReadTorn(t) PROVE ReaderInv'
  BY <1>8 DEF ReadTorn, ReaderInv
<1>9. ASSUME UNCHANGED vars PROVE ReaderInv'
  BY <1>9 DEF vars, ReaderInv
<1> QED BY <1>1, <1>2, <1>3, <1>4, <1>5, <1>6, <1>7, <1>8, <1>9 DEF Next, Step

LEMMA ReaderInvariant == Spec => []ReaderInv
<1>1. Init => ReaderInv
  BY ReaderInit
<1>2. ReaderInv /\ [Next]_vars => ReaderInv'
  BY ReaderStep
<1> QED BY <1>1, <1>2, PTL DEF Spec

\* Everything a socket's reading side keeps has its type, for any readers and
\* any frames: a task that waits for a payload knows its header.
THEOREM Typing == Spec => []TypeOK
<1>1. ReaderInv => TypeOK
  <2> SUFFICES ASSUME ReaderInv PROVE TypeOK
    OBVIOUS
  <2>1. \A i \in DOMAIN stream : stream[i] \in [part : {"header", "payload"}, of : Frames]
    <3>1. \A i \in DOMAIN stream : stream[i] \in HalfType
      BY DEF ReaderInv
    <3> QED BY <3>1 DEF HalfType
  <2>2. \A i \in DOMAIN results : results[i] \in ErrorType \cup ResultType
    <3> HIDE DEF Outcome
    <3>1. \A i \in DOMAIN results : results[i] \in Outcome
      BY DEF ReaderInv
    <3> QED BY <3>1 DEF Outcome
  <2>3. \A i \in DOMAIN out : out[i].op \in {"pong", "close"}
    <3>1. \A i \in DOMAIN out : out[i] \in Answers
      BY DEF ReaderInv
    <3> QED BY <3>1 DEF Answers
  <2>4. \A t \in Readers : pc[t] = "payload" => frame[t] # Null
    BY FramesAssumption DEF ReaderInv
  <2> QED BY <2>1, <2>2, <2>3, <2>4 DEF ReaderInv, TypeOK
<1> QED BY <1>1, ReaderInvariant, PTL

-----------------------------------------------------------------------------
(* What the sequences of a reader yield when something is added to them *)

\* What the elements of a sequence yield, put together.
Yield(h, s) == FlattenSeq([i \in DOMAIN s |-> h[s[i]]])

LEMMA YieldAppend ==
    ASSUME NEW S, NEW A, NEW s \in Seq(S), NEW e \in S, NEW h \in [S -> Seq(A)]
    PROVE  Yield(h, s) \in Seq(A) /\ Yield(h, Append(s, e)) = Yield(h, s) \o h[e]
<1> DEFINE u == Append(s, e)
<1> DEFINE m == [i \in DOMAIN s |-> h[s[i]]]
<1> DEFINE n == [i \in DOMAIN u |-> h[u[i]]]
<1> DEFINE B == Seq(A)
<1>1. h[e] \in B /\ \A i \in 1..Len(s) : s[i] \in S /\ h[s[i]] \in B
  OBVIOUS
<1> HIDE DEF B
<1>2. m = [i \in 1..Len(s) |-> h[s[i]]]
  OBVIOUS
<1>3. m \in Seq(B) /\ Len(m) = Len(s) /\ \A i \in 1..Len(s) : m[i] = h[s[i]]
  BY <1>1, <1>2
<1>4. /\ Len(u) = Len(s) + 1 /\ u[Len(s) + 1] = e /\ \A i \in 1..Len(s) : u[i] = s[i]
      /\ DOMAIN u = 1..Len(s) + 1
  OBVIOUS
<1> DEFINE v == Append(m, h[e])
<1>5. v \in Seq(B) /\ Len(v) = Len(s) + 1 /\ v[Len(s) + 1] = h[e]
      /\ \A i \in 1..Len(s) : v[i] = h[s[i]]
  BY <1>1, <1>3, AppendType
<1>6. n = [i \in 1..Len(s) + 1 |-> h[u[i]]]
  BY <1>4
<1> HIDE DEF u, m, n, v
<1>7. \A i \in 1..Len(s) + 1 : h[u[i]] = v[i]
  BY <1>4, <1>5
<1>8. v = [i \in 1..Len(s) + 1 |-> v[i]]
  BY <1>5
<1>9. n = v
  BY <1>6, <1>7, <1>8
<1>10. FlattenSeq(m) \in Seq(A) /\ FlattenSeq(v) = FlattenSeq(m) \o h[e]
  BY <1>1, <1>3, FlattenSeqAppend DEF B, v
<1> QED BY <1>9, <1>10 DEF u, m, n, Yield

LEMMA YieldEmpty ==
    ASSUME NEW h PROVE Yield(h, <<>>) = <<>>
<1>1. [i \in DOMAIN <<>> |-> h[<<>>[i]]] = <<>>
  OBVIOUS
<1> QED BY <1>1, FlattenSeqEmpty DEF Yield

LEMMA DataFramesAppend ==
    ASSUME NEW s \in Seq(Frames), NEW f \in Frames
    PROVE  /\ DataFrames(s) \in Seq(Frames)
           /\ DataFrames(Append(s, f))
                = IF f.op \in Control THEN DataFrames(s) ELSE Append(DataFrames(s), f)
<1> DEFINE h == [g \in Frames |-> IF g.op \in Control THEN <<>> ELSE <<g>>]
<1>1. h \in [Frames -> Seq(Frames)]
  OBVIOUS
<1>2. h[f] = IF f.op \in Control THEN <<>> ELSE <<f>>
  OBVIOUS
<1>3. ASSUME NEW u \in Seq(Frames)
      PROVE  DataFrames(u) = Yield(h, u)
  <2>1. \A i \in DOMAIN u : u[i] \in Frames
    OBVIOUS
  <2>2. \A i \in DOMAIN u : h[u[i]] = IF u[i].op \in Control THEN <<>> ELSE <<u[i]>>
    BY <2>1
  <2> HIDE DEF h
  <2>3. [i \in DOMAIN u |-> h[u[i]]]
          = [i \in DOMAIN u |-> IF u[i].op \in Control THEN <<>> ELSE <<u[i]>>]
    BY <2>2
  <2> QED BY <2>3 DEF DataFrames, Yield
<1> HIDE DEF h
<1>4. Append(s, f) \in Seq(Frames)
  OBVIOUS
<1>5. /\ Yield(h, s) \in Seq(Frames)
      /\ Yield(h, Append(s, f)) = Yield(h, s) \o h[f]
  <2> DEFINE S == Frames
  <2>1. s \in Seq(S) /\ f \in S /\ h \in [S -> Seq(Frames)]
    BY <1>1
  <2> HIDE DEF S
  <2> QED BY <2>1, YieldAppend
<1>7. DataFrames(s) = Yield(h, s) /\ DataFrames(Append(s, f)) = Yield(h, Append(s, f))
  BY <1>3, <1>4
<1>6. \A u \in Seq(Frames) : u \o <<>> = u /\ u \o <<f>> = Append(u, f)
  OBVIOUS
<1> QED BY <1>2, <1>5, <1>6, <1>7

LEMMA DataFramesEmpty == DataFrames(<<>>) = <<>>
<1>1. [i \in DOMAIN <<>> |-> IF <<>>[i].op \in Control THEN <<>> ELSE <<<<>>[i]>>] = <<>>
  OBVIOUS
<1> QED BY <1>1, FlattenSeqEmpty DEF DataFrames

LEMMA PingsAppend ==
    ASSUME taken \in Seq(Frames), NEW f \in Frames, taken' = Append(taken, f)
    PROVE  /\ Pings \in Seq(Frames)
           /\ Pings' = IF f.op = "ping" THEN Append(Pings, f) ELSE Pings
<1> DEFINE h == [g \in Frames |-> IF g.op = "ping" THEN <<g>> ELSE <<>>]
<1>1. h \in [Frames -> Seq(Frames)]
  OBVIOUS
<1>2. h[f] = IF f.op = "ping" THEN <<f>> ELSE <<>>
  OBVIOUS
<1>3. ASSUME NEW u \in Seq(Frames)
      PROVE  FlattenSeq([i \in DOMAIN u |-> IF u[i].op = "ping" THEN <<u[i]>> ELSE <<>>])
               = Yield(h, u)
  <2>1. \A i \in DOMAIN u : u[i] \in Frames
    OBVIOUS
  <2>2. \A i \in DOMAIN u : h[u[i]] = IF u[i].op = "ping" THEN <<u[i]>> ELSE <<>>
    BY <2>1
  <2> HIDE DEF h
  <2>3. [i \in DOMAIN u |-> h[u[i]]]
          = [i \in DOMAIN u |-> IF u[i].op = "ping" THEN <<u[i]>> ELSE <<>>]
    BY <2>2
  <2> QED BY <2>3 DEF Yield
<1> HIDE DEF h
<1>4. taken' \in Seq(Frames)
  OBVIOUS
<1>5. Pings = Yield(h, taken) /\ Pings' = Yield(h, taken')
  BY <1>3, <1>4 DEF Pings
<1>6. /\ Yield(h, taken) \in Seq(Frames)
      /\ Yield(h, taken') = Yield(h, taken) \o h[f]
  <2> DEFINE S == Frames
  <2>1. taken \in Seq(S) /\ f \in S /\ h \in [S -> Seq(Frames)]
    BY <1>1
  <2> HIDE DEF S
  <2> QED BY <2>1, YieldAppend
<1>7. \A u \in Seq(Frames) : u \o <<>> = u /\ u \o <<f>> = Append(u, f)
  OBVIOUS
<1> QED BY <1>2, <1>5, <1>6, <1>7

LEMMA PongsAppend ==
    ASSUME out \in Seq(Answers), NEW a \in Answers, out' = Append(out, a)
    PROVE  Pongs' = IF a.op = "pong" THEN Append(Pongs, a.code) ELSE Pongs
<1> DEFINE A == Frames \cup {1000, 1002, 1007, 1011}
<1> DEFINE h == [g \in Answers |-> IF g.op = "pong" THEN <<g.code>> ELSE <<>>]
<1>1. h \in [Answers -> Seq(A)]
  <2>1. \A g \in Answers : g.code \in A
    BY DEF Answers
  <2> HIDE DEF A, Answers
  <2>2. \A g \in Answers : <<g.code>> \in Seq(A) /\ <<>> \in Seq(A)
    BY <2>1
  <2> QED BY <2>2
<1> HIDE DEF A, Answers
<1>2. h[a] = IF a.op = "pong" THEN <<a.code>> ELSE <<>>
  OBVIOUS
<1>3. ASSUME NEW u \in Seq(Answers)
      PROVE  FlattenSeq([i \in DOMAIN u |-> IF u[i].op = "pong" THEN <<u[i].code>> ELSE <<>>])
               = Yield(h, u)
  <2>1. \A i \in DOMAIN u : u[i] \in Answers
    OBVIOUS
  <2>2. \A i \in DOMAIN u : h[u[i]] = IF u[i].op = "pong" THEN <<u[i].code>> ELSE <<>>
    BY <2>1
  <2> HIDE DEF h
  <2>3. [i \in DOMAIN u |-> h[u[i]]]
          = [i \in DOMAIN u |-> IF u[i].op = "pong" THEN <<u[i].code>> ELSE <<>>]
    BY <2>2
  <2> QED BY <2>3 DEF Yield
<1> HIDE DEF h
<1>4. out' \in Seq(Answers)
  BY AppendType
<1>5. Pongs = Yield(h, out) /\ Pongs' = Yield(h, out')
  BY <1>3, <1>4 DEF Pongs
<1>6. /\ Yield(h, out) \in Seq(A)
      /\ Yield(h, out') = Yield(h, out) \o h[a]
  BY <1>1, YieldAppend
<1>7. \A u \in Seq(A) : u \o <<>> = u /\ u \o <<a.code>> = Append(u, a.code)
  OBVIOUS
<1> QED BY <1>2, <1>5, <1>6, <1>7

\* What a result gives to the callback.
Given == [r \in Outcome |-> IF r.kind \in Data THEN r.frames ELSE <<>>]

LEMMA GivenType == Given \in [Outcome -> Seq(Frames)]
<1>1. \A g \in Outcome : g.kind \in Data => g.frames \in Seq(Frames)
  BY DEF Outcome, ErrorType, ResultType, Data
<1> HIDE DEF Outcome
<1> QED BY <1>1 DEF Given

LEMMA GivenYield ==
    ASSUME NEW u \in Seq(Outcome)
    PROVE  FlattenSeq([i \in DOMAIN u |-> IF u[i].kind \in Data THEN u[i].frames ELSE <<>>])
             = Yield(Given, u)
<1> HIDE DEF Outcome
<1>1. \A i \in DOMAIN u : u[i] \in Outcome
  OBVIOUS
<1>2. \A i \in DOMAIN u : Given[u[i]] = IF u[i].kind \in Data THEN u[i].frames ELSE <<>>
  BY <1>1 DEF Given
<1>3. [i \in DOMAIN u |-> Given[u[i]]]
        = [i \in DOMAIN u |-> IF u[i].kind \in Data THEN u[i].frames ELSE <<>>]
  BY <1>2
<1> QED BY <1>3 DEF Yield

LEMMA DeliveredType ==
    ASSUME results \in Seq(Outcome)
    PROVE  Delivered \in Seq(Frames)
<1>1. \E r : r \in Outcome
  <2>1. [kind |-> "error", code |-> 1011] \in Outcome
    BY DEF Outcome, ErrorType
  <2> QED BY <2>1
<1> HIDE DEF Outcome
<1>2. PICK r : r \in Outcome
  BY <1>1
<1>3. Yield(Given, results) \in Seq(Frames)
  BY <1>2, GivenType, YieldAppend
<1> QED BY <1>3, GivenYield DEF Delivered

LEMMA DeliveredAppend ==
    ASSUME results \in Seq(Outcome), NEW r \in Outcome, results' = Append(results, r)
    PROVE  Delivered' = IF r.kind \in Data THEN Delivered \o r.frames ELSE Delivered
<1> HIDE DEF Outcome
<1>1. Given[r] = IF r.kind \in Data THEN r.frames ELSE <<>>
  BY DEF Given
<1>2. results' \in Seq(Outcome)
  BY AppendType
<1>3. Delivered = Yield(Given, results) /\ Delivered' = Yield(Given, results')
  BY <1>2, GivenYield DEF Delivered
<1>4. /\ Yield(Given, results) \in Seq(Frames)
      /\ Yield(Given, results') = Yield(Given, results) \o Given[r]
  BY GivenType, YieldAppend
<1>5. \A u \in Seq(Frames) : u \o <<>> = u
  OBVIOUS
<1> QED BY <1>1, <1>3, <1>4, <1>5

-----------------------------------------------------------------------------
(* What passes, when one more frame is read *)

LEMMA AppendAt ==
    ASSUME NEW s \in Seq(Frames), NEW f \in Frames
    PROVE  /\ Append(s, f) \in Seq(Frames) /\ Len(s) \in Nat
           /\ Len(Append(s, f)) = Len(s) + 1
           /\ DOMAIN s = 1..Len(s) /\ DOMAIN Append(s, f) = 1..(Len(s) + 1)
           /\ Append(s, f)[Len(s) + 1] = f
           /\ \A i \in 1..Len(s) : Append(s, f)[i] = s[i]
OBVIOUS

LEMMA SubSeqAppend ==
    ASSUME NEW s \in Seq(Frames), NEW f \in Frames, NEW j \in 1..Len(s), NEW i \in 1..Len(s)
    PROVE  /\ SubSeq(Append(s, f), j, i) = SubSeq(s, j, i)
           /\ SubSeq(Append(s, f), j, Len(s) + 1) = Append(SubSeq(s, j, Len(s)), f)
           /\ SubSeq(s, j, Len(s)) \in Seq(Frames)
OBVIOUS

LEMMA SubSeqLast ==
    ASSUME NEW s \in Seq(Frames), NEW f \in Frames
    PROVE  SubSeq(Append(s, f), Len(s) + 1, Len(s) + 1) = <<f>>
<1> DEFINE u == Append(s, f)
<1> DEFINE n == Len(s) + 1
<1>1. u \in Seq(Frames) /\ Len(u) = n /\ n \in Nat /\ u[n] = f /\ n >= 1
  OBVIOUS
<1> HIDE DEF u, n
<1>2. Len(SubSeq(u, n, n)) = 1 /\ SubSeq(u, n, n)[1] = f /\ SubSeq(u, n, n) \in Seq(Frames)
  BY <1>1
<1>3. \A x \in Seq(Frames) : Len(x) = 1 /\ x[1] = f => x = <<f>>
  OBVIOUS
<1> QED BY <1>2, <1>3 DEF u, n

\* Whether a frame lies inside a message depends on the frames before it.
LEMMA InsideAppend ==
    ASSUME NEW s \in Seq(Frames), NEW f \in Frames, NEW i \in 1..Len(s) + 1
    PROVE  Inside(Append(s, f), i) <=> Inside(s, i)
<1> DEFINE u == Append(s, f)
<1>1. Len(s) \in Nat /\ \A k \in 1..Len(s) : u[k] = s[k]
  BY AppendAt
<1> HIDE DEF u
<1>2. \A j \in 1..(i - 1) : u[j] = s[j] /\ \A k \in (j + 1)..(i - 1) : u[k] = s[k]
  BY <1>1
<1>3. Inside(u, i) <=> Inside(s, i)
  BY <1>2 DEF Inside
<1> QED BY <1>3 DEF u

LEMMA InsideNext ==
    ASSUME NEW s \in Seq(Frames), NEW f \in Frames
    PROVE  Inside(Append(s, f), Len(s) + 2) <=>
               \/ f.op \in Data /\ ~f.fin
               \/ Inside(s, Len(s) + 1) /\ ~(f.op = "continuation" /\ f.fin)
<1> DEFINE u == Append(s, f)
<1> DEFINE n == Len(s)
<1>1. n \in Nat /\ u[n + 1] = f /\ \A k \in 1..n : u[k] = s[k]
  BY AppendAt
<1> HIDE DEF u, n
<1>2. (n + 2) - 1 = n + 1 /\ (n + 1) - 1 = n
  BY <1>1
<1>3. ASSUME Inside(u, n + 2)
      PROVE  \/ f.op \in Data /\ ~f.fin
             \/ Inside(s, n + 1) /\ ~(f.op = "continuation" /\ f.fin)
  <2>1. PICK j \in 1..n + 1 :
          /\ u[j].op \in Data /\ ~u[j].fin
          /\ \A k \in (j + 1)..(n + 1) : ~(u[k].op = "continuation" /\ u[k].fin)
    BY <1>2, <1>3 DEF Inside
  <2>2. CASE j = n + 1
    BY <1>1, <2>1, <2>2
  <2>3. CASE j # n + 1
    <3>1. j \in 1..n /\ n + 1 \in (j + 1)..(n + 1)
      BY <1>1, <2>3
    <3>2. ~(f.op = "continuation" /\ f.fin)
      BY <1>1, <2>1, <3>1
    <3>3. /\ s[j].op \in Data /\ ~s[j].fin
          /\ \A k \in (j + 1)..n : ~(s[k].op = "continuation" /\ s[k].fin)
      <4>1. \A k \in (j + 1)..n : k \in (j + 1)..(n + 1) /\ k \in 1..n
        BY <1>1, <3>1
      <4> QED BY <1>1, <2>1, <3>1, <4>1
    <3>4. Inside(s, n + 1)
      BY <1>2, <3>1, <3>3 DEF Inside
    <3> QED BY <3>2, <3>4
  <2> QED BY <2>2, <2>3
<1>4. ASSUME f.op \in Data /\ ~f.fin
      PROVE  Inside(u, n + 2)
  <2>1. n + 1 \in 1..((n + 2) - 1) /\ \A k \in (n + 2)..((n + 2) - 1) : FALSE
    BY <1>1
  <2>2. (n + 1) + 1 = n + 2
    BY <1>1
  <2> QED BY <1>1, <1>4, <2>1, <2>2 DEF Inside
<1>5. ASSUME Inside(s, n + 1), ~(f.op = "continuation" /\ f.fin)
      PROVE  Inside(u, n + 2)
  <2>1. PICK j \in 1..n :
          /\ s[j].op \in Data /\ ~s[j].fin
          /\ \A k \in (j + 1)..n : ~(s[k].op = "continuation" /\ s[k].fin)
    BY <1>2, <1>5 DEF Inside
  <2>2. j \in 1..((n + 2) - 1) /\ u[j] = s[j]
    BY <1>1
  <2>3. ASSUME NEW k \in (j + 1)..((n + 2) - 1)
        PROVE  ~(u[k].op = "continuation" /\ u[k].fin)
    <3>1. CASE k = n + 1
      BY <1>1, <1>5, <3>1
    <3>2. CASE k # n + 1
      <4>1. k \in (j + 1)..n /\ k \in 1..n
        BY <1>1, <3>2
      <4> QED BY <1>1, <2>1, <4>1
    <3> QED BY <3>1, <3>2
  <2> QED BY <2>1, <2>2, <2>3 DEF Inside
<1> QED BY <1>3, <1>4, <1>5 DEF u, n

\* What the reading side lets pass.  Besides the sequence it asks something of
\* each frame, not always what RFC 6455 does, and of a Pong that it is outside
\* of messages.
FramePasses(s, i) ==
    LET f == s[i] IN
    /\ ~f.rsv /\ f.key # "zero" /\ f.op # "reserved"
    /\ f.op = "continuation" => Inside(s, i)
    /\ f.op \in Data \cup {"pong"} => ~Inside(s, i)
    /\ f.op = "ping" => f.fin /\ f.body # "big"
    /\ f.op = "close" => f.body \notin {"one byte", "big", "bad code", "bad reason"}
    /\ f.op \notin Control /\ f.fin =>
          \A j \in 1..i : Starts(s, j, i) =>
              s[j].op = "binary" \/ Utf8(DataFrames(SubSeq(s, j, i)))

Passes(s) == \A i \in DOMAIN s : FramePasses(s, i)

\* What passes is in sequence, and what is in sequence passes when its frames
\* are ordinary and its Pongs outside of messages.
LEMMA PassesInSequence ==
    ASSUME NEW s \in Seq(Frames), Passes(s)
    PROVE  InSequence(s)
<1> SUFFICES ASSUME NEW i \in DOMAIN s
             PROVE  /\ s[i].op = "continuation" => Inside(s, i)
                    /\ s[i].op \in Data => ~Inside(s, i)
                    /\ s[i].op \in Data \cup {"continuation"} /\ s[i].fin =>
                          \A j \in 1..i : Starts(s, j, i) =>
                              s[j].op = "binary" \/ Utf8(DataFrames(SubSeq(s, j, i)))
  BY DEF InSequence
<1>1. FramePasses(s, i)
  BY DEF Passes
<1>2. s[i].op \in Data \cup {"continuation"} => s[i].op \notin Control
  BY DEF Data, Control
<1> QED BY <1>1, <1>2 DEF FramePasses

LEMMA SequencePasses ==
    ASSUME NEW s \in Seq(Frames), InSequence(s),
           \A i \in DOMAIN s : Ordinary(s[i]) /\ (s[i].op = "pong" => ~Inside(s, i))
    PROVE  Passes(s)
<1> SUFFICES ASSUME NEW i \in DOMAIN s
             PROVE  FramePasses(s, i)
  BY DEF Passes
<1>1. Ordinary(s[i]) /\ (s[i].op = "pong" => ~Inside(s, i))
  OBVIOUS
<1>2. s[i] \in FrameType
  BY FramesAssumption
<1>3. /\ s[i].op = "continuation" => Inside(s, i)
      /\ s[i].op \in Data => ~Inside(s, i)
      /\ s[i].op \in Data \cup {"continuation"} /\ s[i].fin =>
            \A j \in 1..i : Starts(s, j, i) =>
                s[j].op = "binary" \/ Utf8(DataFrames(SubSeq(s, j, i)))
  BY DEF InSequence
<1>4. s[i].op \notin Control => s[i].op \in Data \cup {"continuation"}
  BY <1>1, <1>2 DEF FrameType, Opcodes, Control, Ordinary
<1>5. "ping" \in Control /\ "close" \in Control
  BY DEF Control
<1> QED BY <1>1, <1>3, <1>4, <1>5 DEF FramePasses, Ordinary

\* A frame that passes does so whatever comes after it.
LEMMA PassesBefore ==
    ASSUME NEW s \in Seq(Frames), NEW f \in Frames, NEW i \in 1..Len(s), FramePasses(s, i)
    PROVE  FramePasses(Append(s, f), i)
<1> DEFINE u == Append(s, f)
<1>1. Len(s) \in Nat /\ u[i] = s[i] /\ \A k \in 1..Len(s) : u[k] = s[k]
  BY AppendAt
<1>2. \A j \in 1..i : SubSeq(u, j, i) = SubSeq(s, j, i)
  <2> SUFFICES ASSUME NEW j \in 1..i PROVE SubSeq(u, j, i) = SubSeq(s, j, i)
    OBVIOUS
  <2>1. j \in 1..Len(s)
    BY <1>1
  <2> QED BY <2>1, SubSeqAppend
<1>3. Inside(u, i) <=> Inside(s, i)
  <2>1. i \in 1..Len(s) + 1
    BY <1>1
  <2> QED BY <2>1, InsideAppend
<1> HIDE DEF u
<1>4. \A j \in 1..i : u[j] = s[j] /\ (Starts(u, j, i) <=> Starts(s, j, i))
  <2> SUFFICES ASSUME NEW j \in 1..i
               PROVE  u[j] = s[j] /\ (Starts(u, j, i) <=> Starts(s, j, i))
    OBVIOUS
  <2>1. j \in 1..Len(s) /\ \A k \in (j + 1)..i : k \in 1..Len(s)
    BY <1>1
  <2> QED BY <1>1, <2>1 DEF Starts
<1>5. FramePasses(u, i)
  BY <1>1, <1>2, <1>3, <1>4 DEF FramePasses
<1> QED BY <1>5 DEF u

LEMMA PassesAppend ==
    ASSUME NEW s \in Seq(Frames), NEW f \in Frames, Passes(s)
    PROVE  Passes(Append(s, f)) <=> FramePasses(Append(s, f), Len(s) + 1)
<1> DEFINE u == Append(s, f)
<1>1. Len(s) \in Nat /\ DOMAIN s = 1..Len(s) /\ DOMAIN u = 1..(Len(s) + 1)
  BY AppendAt
<1>2. \A i \in 1..Len(s) : FramePasses(u, i)
  BY <1>1, PassesBefore DEF Passes
<1> HIDE DEF u
<1>3. \A i \in DOMAIN u : i \in 1..Len(s) \/ i = Len(s) + 1
  BY <1>1
<1>4. Len(s) + 1 \in DOMAIN u
  BY <1>1
<1>5. Passes(u) <=> FramePasses(u, Len(s) + 1)
  BY <1>2, <1>3, <1>4 DEF Passes
<1> QED BY <1>5 DEF u

-----------------------------------------------------------------------------
(* What a reader keeps of a message, against the frames read so far *)

\* The message that goes on at the end of s began with its frame j.
OpenFrom(s, j) ==
    /\ Starts(s, j, Len(s)) /\ ~s[j].fin
    /\ \A k \in (j + 1)..Len(s) : ~(s[k].op = "continuation" /\ s[k].fin)

\* m holds the data frames of the message that goes on at the end of s.
Buffers(s, m) ==
    IF m = <<>>
      THEN ~Inside(s, Len(s) + 1)
      ELSE \E j \in 1..Len(s) : /\ OpenFrom(s, j) /\ m[1] = s[j]
                                /\ m = DataFrames(SubSeq(s, j, Len(s)))

LEMMA BuffersInside ==
    ASSUME NEW s \in Seq(Frames), NEW m \in Seq(Frames), Buffers(s, m)
    PROVE  m # <<>> <=> Inside(s, Len(s) + 1)
<1>1. CASE m = <<>>
  BY <1>1 DEF Buffers
<1>2. CASE m # <<>>
  <2>1. PICK j \in 1..Len(s) : OpenFrom(s, j)
    BY <1>2 DEF Buffers
  <2>2. Len(s) \in Nat /\ (Len(s) + 1) - 1 = Len(s) /\ Len(s) \in j..Len(s)
    OBVIOUS
  <2>3. s[j].op \in Data /\ ~s[j].fin
        /\ \A k \in (j + 1)..Len(s) : ~(s[k].op = "continuation" /\ s[k].fin)
    BY <2>1 DEF OpenFrom, Starts
  <2>4. Inside(s, Len(s) + 1)
    BY <2>2, <2>3 DEF Inside
  <2> QED BY <1>2, <2>4
<1> QED BY <1>1, <1>2

\* The last data frame of s is the last but one of those it starts.
LEMMA StartsLast ==
    ASSUME NEW s \in Seq(Frames), NEW f \in Frames, NEW j \in 1..Len(s) + 1
    PROVE  Starts(Append(s, f), j, Len(s) + 1) <=>
               IF f.op \in Data THEN j = Len(s) + 1
                                ELSE j # Len(s) + 1 /\ Starts(s, j, Len(s))
<1> DEFINE u == Append(s, f)
<1> DEFINE n == Len(s)
<1>1. n \in Nat /\ j \in 1..n + 1 /\ u[n + 1] = f /\ \A k \in 1..n : u[k] = s[k]
  BY AppendAt
<1> HIDE DEF u, n
<1>2. CASE j = n + 1
  <2>1. \A k \in (j + 1)..(n + 1) : FALSE
    BY <1>1, <1>2
  <2> QED BY <1>1, <1>2, <2>1 DEF Starts, u, n
<1>3. CASE j # n + 1
  <2>1. /\ j \in 1..n /\ u[j] = s[j] /\ n + 1 \in (j + 1)..(n + 1)
    BY <1>1, <1>3
  <2>2. /\ \A k \in (j + 1)..n : k \in (j + 1)..(n + 1) /\ k \in 1..n
        /\ \A k \in (j + 1)..(n + 1) : k = n + 1 \/ k \in (j + 1)..n
    BY <1>1, <2>1
  <2>3. Starts(u, j, n + 1) <=> f.op \notin Data /\ Starts(s, j, n)
    BY <1>1, <2>1, <2>2 DEF Starts
  <2> QED BY <1>3, <2>3 DEF u, n
<1> QED BY <1>2, <1>3 DEF n

LEMMA StartsOnce ==
    ASSUME NEW s, NEW n \in Nat, NEW i \in 1..n, NEW j \in 1..n, Starts(s, i, n), Starts(s, j, n)
    PROVE  i = j
<1>1. CASE i < j
  <2>1. j \in (i + 1)..n
    BY <1>1
  <2> QED BY <2>1 DEF Starts
<1>2. CASE j < i
  <2>1. i \in (j + 1)..n
    BY <1>2
  <2> QED BY <2>1 DEF Starts
<1> QED BY <1>1, <1>2

\* The text of the message that frame number n + 1 completes, as FramePasses sees
\* it, is what the reader has kept and that frame.
Judged(u, i) == \A j \in 1..i : Starts(u, j, i) =>
                    u[j].op = "binary" \/ Utf8(DataFrames(SubSeq(u, j, i)))

LEMMA DataFramesOne ==
    ASSUME NEW f \in Frames, f.op \notin Control
    PROVE  DataFrames(<<f>>) = <<f>>
<1>1. <<>> \in Seq(Frames) /\ Append(<<>>, f) = <<f>>
  OBVIOUS
<1> QED BY <1>1, DataFramesAppend, DataFramesEmpty

LEMMA JudgedData ==
    ASSUME NEW s \in Seq(Frames), NEW f \in Frames, f.op \in Data
    PROVE  Judged(Append(s, f), Len(s) + 1) <=> f.op = "binary" \/ Utf8(<<f>>)
<1> DEFINE u == Append(s, f)
<1> DEFINE n == Len(s)
<1>1. n \in Nat /\ u[n + 1] = f /\ n + 1 \in 1..n + 1
  BY AppendAt
<1>2. \A j \in 1..n + 1 : Starts(u, j, n + 1) <=> j = n + 1
  BY StartsLast
<1>3. SubSeq(u, n + 1, n + 1) = <<f>>
  BY SubSeqLast
<1>4. DataFrames(<<f>>) = <<f>>
  BY DataFramesOne DEF Data, Control
<1> HIDE DEF u, n
<1>5. Judged(u, n + 1) <=> f.op = "binary" \/ Utf8(<<f>>)
  BY <1>1, <1>2, <1>3, <1>4 DEF Judged
<1> QED BY <1>5 DEF u, n

LEMMA JudgedContinuation ==
    ASSUME NEW s \in Seq(Frames), NEW m \in Seq(Frames), NEW f \in Frames,
           Buffers(s, m), m # <<>>, f.op = "continuation"
    PROVE  Judged(Append(s, f), Len(s) + 1) <=> m[1].op = "binary" \/ Utf8(Append(m, f))
<1> DEFINE u == Append(s, f)
<1> DEFINE n == Len(s)
<1>1. PICK i \in 1..n : OpenFrom(s, i) /\ m[1] = s[i] /\ m = DataFrames(SubSeq(s, i, n))
  BY DEF Buffers
<1>2. /\ n \in Nat /\ i \in 1..n + 1 /\ i # n + 1 /\ f.op \notin Data /\ f.op \notin Control
      /\ u[i] = s[i] /\ Starts(s, i, n)
  BY <1>1, AppendAt DEF Data, Control, OpenFrom
<1>3. \A j \in 1..n + 1 : Starts(u, j, n + 1) <=> j = i
  <2> SUFFICES ASSUME NEW j \in 1..n + 1 PROVE Starts(u, j, n + 1) <=> j = i
    OBVIOUS
  <2>1. Starts(u, j, n + 1) <=> j # n + 1 /\ Starts(s, j, n)
    BY <1>2, StartsLast
  <2>2. ASSUME j # n + 1, Starts(s, j, n) PROVE j = i
    <3>1. j \in 1..n
      BY <1>2, <2>2
    <3> QED BY <1>2, <2>2, <3>1, StartsOnce
  <2> QED BY <1>2, <2>1, <2>2
<1>4. DataFrames(SubSeq(u, i, n + 1)) = Append(m, f)
  <2>1. SubSeq(u, i, n + 1) = Append(SubSeq(s, i, n), f) /\ SubSeq(s, i, n) \in Seq(Frames)
    BY SubSeqAppend
  <2> QED BY <1>1, <1>2, <2>1, DataFramesAppend
<1> HIDE DEF u, n
<1>5. Judged(u, n + 1) <=> m[1].op = "binary" \/ Utf8(Append(m, f))
  BY <1>1, <1>2, <1>3, <1>4 DEF Judged
<1> QED BY <1>5 DEF u, n

\* What is kept after one more frame.
LEMMA BuffersStart ==
    ASSUME NEW s \in Seq(Frames), NEW f \in Frames, f.op \in Data, ~f.fin
    PROVE  Buffers(Append(s, f), <<f>>)
<1> DEFINE u == Append(s, f)
<1> DEFINE n == Len(s)
<1>1. n \in Nat /\ u[n + 1] = f /\ n + 1 \in 1..n + 1 /\ Len(u) = n + 1
  BY AppendAt
<1>2. Starts(u, n + 1, n + 1)
  BY <1>1, StartsLast
<1>3. SubSeq(u, n + 1, n + 1) = <<f>> /\ DataFrames(<<f>>) = <<f>>
  BY SubSeqLast, DataFramesOne DEF Data, Control
<1>4. \A k \in (n + 1) + 1..n + 1 : FALSE
  BY <1>1
<1>5. <<f>> # <<>> /\ <<f>>[1] = f
  OBVIOUS
<1> HIDE DEF u, n
<1>6. OpenFrom(u, n + 1)
  BY <1>1, <1>2, <1>4 DEF OpenFrom
<1>7. Buffers(u, <<f>>)
  BY <1>1, <1>3, <1>5, <1>6 DEF Buffers
<1> QED BY <1>7 DEF u

LEMMA BuffersMore ==
    ASSUME NEW s \in Seq(Frames), NEW m \in Seq(Frames), NEW f \in Frames,
           Buffers(s, m), m # <<>>, f.op \notin Data, ~(f.op = "continuation" /\ f.fin)
    PROVE  Buffers(Append(s, f), IF f.op \in Control THEN m ELSE Append(m, f))
<1> DEFINE u == Append(s, f)
<1> DEFINE n == Len(s)
<1> DEFINE q == IF f.op \in Control THEN m ELSE Append(m, f)
<1>1. PICK i \in 1..n : OpenFrom(s, i) /\ m[1] = s[i] /\ m = DataFrames(SubSeq(s, i, n))
  BY DEF Buffers
<1>2. /\ n \in Nat /\ i \in 1..n + 1 /\ i # n + 1 /\ Len(u) = n + 1
      /\ u[i] = s[i] /\ Starts(s, i, n) /\ u[n + 1] = f /\ \A k \in 1..n : u[k] = s[k]
  BY <1>1, AppendAt DEF OpenFrom
<1>3. Starts(u, i, n + 1)
  BY <1>2, StartsLast
<1>4. DataFrames(SubSeq(u, i, n + 1)) = q
  <2>1. SubSeq(u, i, n + 1) = Append(SubSeq(s, i, n), f) /\ SubSeq(s, i, n) \in Seq(Frames)
    BY SubSeqAppend
  <2> QED BY <1>1, <1>2, <2>1, DataFramesAppend
<1>5. q # <<>> /\ q[1] = m[1]
  BY AppendType
<1> HIDE DEF u, n, q
<1>6. \A k \in (i + 1)..(n + 1) : ~(u[k].op = "continuation" /\ u[k].fin)
  <2> SUFFICES ASSUME NEW k \in (i + 1)..(n + 1)
               PROVE  ~(u[k].op = "continuation" /\ u[k].fin)
    OBVIOUS
  <2>1. CASE k = n + 1
    BY <1>2, <2>1
  <2>2. CASE k # n + 1
    <3>1. k \in (i + 1)..n /\ k \in 1..n
      BY <1>2, <2>2
    <3> QED BY <1>1, <1>2, <3>1 DEF OpenFrom, n
  <2> QED BY <2>1, <2>2
<1>7. OpenFrom(u, i)
  BY <1>1, <1>2, <1>3, <1>6 DEF OpenFrom
<1>8. Buffers(u, q)
  BY <1>1, <1>2, <1>4, <1>5, <1>7 DEF Buffers
<1> QED BY <1>8 DEF u, q

LEMMA BuffersNone ==
    ASSUME NEW s \in Seq(Frames), NEW f \in Frames,
           ~(f.op \in Data /\ ~f.fin),
           ~Inside(s, Len(s) + 1) \/ (f.op = "continuation" /\ f.fin)
    PROVE  Buffers(Append(s, f), <<>>)
<1>1. ~Inside(Append(s, f), Len(s) + 2)
  BY InsideNext
<1>2. Len(Append(s, f)) + 1 = Len(s) + 2
  OBVIOUS
<1> QED BY <1>1, <1>2 DEF Buffers

-----------------------------------------------------------------------------
(* What the only reader has made of the frames read so far *)

\* It reads on: it has refused nothing, answered every Ping, and returned or
\* kept every data frame.
Quiet(t) ==
    /\ Passes(taken)
    /\ \A i \in DOMAIN results : results[i].kind # "error"
    /\ Pings = Pongs
    /\ Delivered \o message[t] = DataFrames(taken)
    /\ Buffers(taken, message[t])

\* It has stopped: its last result, and no earlier one, may be an error.
Stopped ==
    /\ results # <<>>
    /\ \A i \in 1..Len(results) - 1 : results[i].kind # "error"
    /\ LET r == results[Len(results)] IN
       /\ ~ended /\ r.kind = "error" /\ r.code # 1011 => ~Passes(taken)
       /\ ~Passes(taken) => r.kind = "error"

HistoryInv ==
    /\ pc[First] # "idle"
    /\ pc[First] = "payload" => ~frame[First].rsv
    /\ Alone(First) => IF pc[First] = "done" THEN Stopped ELSE Quiet(First)

\* What read_frame makes of frame f, having kept m of a message.
Accepts(m, f) ==
    /\ f.key # "zero" /\ f.op # "reserved"
    /\ f.op = "continuation" => m # <<>>
    /\ f.op \in Data \cup {"pong"} => m = <<>>
    /\ f.op = "ping" => f.fin /\ f.body # "big"
    /\ f.op = "close" => f.body \notin {"one byte", "big", "bad code", "bad reason"}
    /\ f.op \in Data /\ f.fin => f.op = "binary" \/ Utf8(<<f>>)
    /\ f.op = "continuation" /\ f.fin /\ m # <<>> =>
           m[1].op = "binary" \/ Utf8(Append(m, f))

\* One more frame passes when read_frame, with what it has kept of the
\* message, finds nothing against it.
LEMMA Verdict ==
    ASSUME NEW s \in Seq(Frames), NEW m \in Seq(Frames), NEW f \in Frames, f \in FrameType,
           ~f.rsv, Passes(s), Buffers(s, m)
    PROVE  Passes(Append(s, f)) <=> Accepts(m, f)
<1> DEFINE u == Append(s, f)
<1> DEFINE i == Len(s) + 1
<1>1. Passes(u) <=> FramePasses(u, i)
  BY PassesAppend
<1>2. u[i] = f /\ i \in 1..Len(s) + 1
  BY AppendAt
<1>3. Inside(u, i) <=> m # <<>>
  BY <1>2, InsideAppend, BuffersInside
<1>4. f.op \in Data => (Judged(u, i) <=> f.op = "binary" \/ Utf8(<<f>>))
  BY JudgedData
<1>5. f.op = "continuation" /\ m # <<>> =>
          (Judged(u, i) <=> m[1].op = "binary" \/ Utf8(Append(m, f)))
  BY JudgedContinuation
<1> HIDE DEF u, i
<1>6. FramePasses(u, i) <=>
        /\ ~f.rsv /\ f.key # "zero" /\ f.op # "reserved"
        /\ f.op = "continuation" => Inside(u, i)
        /\ f.op \in Data \cup {"pong"} => ~Inside(u, i)
        /\ f.op = "ping" => f.fin /\ f.body # "big"
        /\ f.op = "close" => f.body \notin {"one byte", "big", "bad code", "bad reason"}
        /\ f.op \notin Control /\ f.fin => Judged(u, i)
  BY <1>2 DEF FramePasses, Judged
<1>7. /\ f.op \in Data \cup {"continuation", "close", "ping", "pong", "reserved"}
      /\ f.op \notin Control <=> f.op \in Data \cup {"continuation", "reserved"}
      /\ ~(f.op \in Data /\ f.op \in {"continuation", "close", "ping", "pong", "reserved"})
  BY DEF FrameType, Opcodes, Data, Control
<1> HIDE DEF Data, Control
<1> QED BY <1>1, <1>3, <1>4, <1>5, <1>6, <1>7 DEF u, Accepts

LEMMA Stops ==
    ASSUME ReaderInv, NEW t \in Readers, Quiet(t), NEW r \in Outcome,
           results' = Append(results, r),
           ~ended' /\ r.kind = "error" /\ r.code # 1011 => ~Passes(taken'),
           ~Passes(taken') => r.kind = "error"
    PROVE  Stopped'
<1>1. results \in Seq(Outcome)
  BY DEF ReaderInv
<1> HIDE DEF Outcome
<1>2. /\ results' # <<>> /\ Len(results') = Len(results) + 1 /\ results'[Len(results')] = r
      /\ \A i \in DOMAIN results : results'[i] = results[i]
  BY <1>1, AppendType
<1>3. Len(results') - 1 = Len(results) /\ DOMAIN results = 1..Len(results)
  BY <1>1, <1>2
<1>4. \A i \in 1..Len(results') - 1 : results'[i].kind # "error"
  BY <1>2, <1>3 DEF Quiet
<1> QED BY <1>2, <1>4 DEF Stopped

LEMMA FailStops ==
    ASSUME ReaderInv, NEW t \in Readers, Quiet(t), NEW code \in {1002, 1007, 1011},
           Fails(t, code), code = 1011 \/ ended' \/ ~Passes(taken')
    PROVE  pc'[t] = "done" /\ Stopped'
<1>1. PICK c \in {code, 1011} : Returns(t, [kind |-> "error", code |-> c], "done")
  BY DEF Fails
<1> DEFINE r == [kind |-> "error", code |-> c]
<1>2. r \in Outcome /\ r.kind = "error" /\ r.code = c
  BY DEF Outcome, ErrorType
<1>3. results' = Append(results, r)
  BY <1>1 DEF Returns
<1> HIDE DEF r, Outcome
<1>4. Stopped'
  BY <1>2, <1>3, Stops
<1>5. pc'[t] = "done"
  BY <1>1 DEF Returns, ReaderInv
<1> QED BY <1>4, <1>5

LEMMA CloseStops ==
    ASSUME ReaderInv, NEW t \in Readers, Quiet(t), NEW f \in Frames,
           AnswersClose(t, f), Passes(taken')
    PROVE  pc'[t] = "done" /\ Stopped'
<1>1. PICK r \in {[kind |-> "close", frames |-> <<f>>], [kind |-> "error", code |-> 1011]} :
        Returns(t, r, "done")
  BY DEF AnswersClose
<1>2. [kind |-> "close", frames |-> <<f>>] \in Outcome
      /\ [kind |-> "error", code |-> 1011] \in Outcome
  <2>1. [kind |-> "error", code |-> 1011] \in Outcome
    BY DEF Outcome, ErrorType
  <2>2. [kind |-> "close", frames |-> <<f>>] \in Outcome
    <3>1. <<f>> \in Seq(Frames)
      OBVIOUS
    <3> QED BY <3>1 DEF Outcome, ResultType
  <2> HIDE DEF Outcome
  <2> QED BY <2>1, <2>2
<1>3. r \in Outcome /\ (r.kind = "error" => r.code = 1011)
  BY <1>1, <1>2
<1>4. results' = Append(results, r) /\ pc'[t] = "done"
  BY <1>1 DEF Returns, ReaderInv
<1> HIDE DEF Outcome
<1> QED BY <1>3, <1>4, Stops

\* What has to be shown of a reader that goes on.
LEMMA StaysQuiet ==
    ASSUME ReaderInv, NEW t \in Readers, Quiet(t), NEW f \in Frames, taken' = Append(taken, f),
           Passes(taken'), Buffers(taken', message'[t]),
           \/ results' = results
           \/ \E r \in Outcome : results' = Append(results, r) /\ r.kind # "error",
           Delivered' \o message'[t] = IF f.op \in Control THEN Delivered \o message[t]
                                       ELSE Append(Delivered \o message[t], f),
           Pongs' = IF f.op = "ping" THEN Append(Pongs, f) ELSE Pongs
    PROVE  Quiet(t)'
<1>1. \A i \in DOMAIN results' : results'[i].kind # "error"
  <2>1. CASE results' = results
    BY <2>1 DEF Quiet
  <2>2. CASE \E r \in Outcome : results' = Append(results, r) /\ r.kind # "error"
    <3>1. PICK r \in Outcome : results' = Append(results, r) /\ r.kind # "error"
      BY <2>2
    <3>2. results \in Seq(Outcome)
      BY DEF ReaderInv
    <3> HIDE DEF Outcome
    <3>3. /\ DOMAIN results' = DOMAIN results \cup {Len(results) + 1}
          /\ results'[Len(results) + 1] = r
          /\ \A i \in DOMAIN results : results'[i] = results[i]
      BY <3>1, <3>2, AppendType
    <3> QED BY <3>1, <3>3 DEF Quiet
  <2> QED BY <2>1, <2>2
<1>2. taken \in Seq(Frames)
  BY DEF ReaderInv
<1>3. Pings' = Pongs'
  <2>1. Pings' = IF f.op = "ping" THEN Append(Pings, f) ELSE Pings
    BY <1>2, PingsAppend
  <2>2. Pings = Pongs
    BY DEF Quiet
  <2> QED BY <2>1, <2>2
<1>4. Delivered' \o message'[t] = DataFrames(taken')
  <2>1. DataFrames(taken')
          = IF f.op \in Control THEN DataFrames(taken) ELSE Append(DataFrames(taken), f)
    BY <1>2, DataFramesAppend
  <2>2. Delivered \o message[t] = DataFrames(taken)
    BY DEF Quiet
  <2> QED BY <2>1, <2>2
<1> QED BY <1>1, <1>3, <1>4 DEF Quiet

\* A data frame goes to the end of what is returned and kept.
LEMMA DataQuiet ==
    ASSUME ReaderInv, NEW t \in Readers, NEW f \in Frames, f.op \notin Control,
           \/ Continues(t, Append(message[t], f))
           \/ \E k \in Data : /\ Returns(t, [kind |-> k, frames |-> Append(message[t], f)], "header")
                              /\ UNCHANGED <<out, writable>>
    PROVE  /\ pc'[t] = "header" /\ out' = out
           /\ \/ results' = results
              \/ \E r \in Outcome : results' = Append(results, r) /\ r.kind # "error"
           /\ Delivered' \o message'[t] = Append(Delivered \o message[t], f)
<1> DEFINE m == message[t]
<1>1. m \in Seq(Frames) /\ Append(m, f) \in Seq(Frames) /\ results \in Seq(Outcome)
  BY DEF ReaderInv
<1>2. Delivered \in Seq(Frames)
  BY DeliveredType DEF ReaderInv
<1> HIDE DEF Outcome
<1>3. CASE Continues(t, Append(m, f))
  <2>1. message'[t] = Append(m, f) /\ results' = results /\ out' = out /\ pc'[t] = "header"
    BY <1>3 DEF Continues, ReaderInv
  <2>2. Delivered' = Delivered
    BY <2>1 DEF Delivered
  <2>3. Delivered \o Append(m, f) = Append(Delivered \o m, f)
    BY <1>1, <1>2
  <2> QED BY <2>1, <2>2, <2>3 DEF m
<1>4. ASSUME NEW k \in Data, Returns(t, [kind |-> k, frames |-> Append(m, f)], "header"),
             UNCHANGED <<out, writable>>
      PROVE  /\ pc'[t] = "header" /\ out' = out
             /\ \E r \in Outcome : results' = Append(results, r) /\ r.kind # "error"
             /\ Delivered' \o message'[t] = Append(Delivered \o message[t], f)
  <2> DEFINE r == [kind |-> k, frames |-> Append(m, f)]
  <2>1. r \in Outcome /\ r.kind = k /\ r.frames = Append(m, f)
    BY <1>1 DEF Outcome, ResultType, Data
  <2>2. k \in Data /\ k # "error"
    BY DEF Data
  <2> HIDE DEF r
  <2>3. results' = Append(results, r) /\ message'[t] = <<>> /\ pc'[t] = "header" /\ out' = out
    BY <1>4 DEF Returns, ReaderInv, r
  <2>4. Delivered' = Delivered \o Append(m, f)
    BY <1>1, <2>1, <2>2, <2>3, DeliveredAppend
  <2>5. (Delivered \o Append(m, f)) \o <<>> = Append(Delivered \o m, f)
    BY <1>1, <1>2
  <2> QED BY <2>1, <2>2, <2>3, <2>4, <2>5 DEF m
<1> QED BY <1>3, <1>4

\* What holds of the only reader after a frame: it has stopped, or reads on.
Judges(t) == IF pc'[t] = "done" THEN Stopped' ELSE pc'[t] = "header" /\ Quiet(t)'

LEMMA FailJudges ==
    ASSUME ReaderInv, NEW t \in Readers, Quiet(t), NEW code \in {1002, 1007, 1011},
           Fails(t, code), code = 1011 \/ ~Passes(taken')
    PROVE  Judges(t)
<1>1. pc'[t] = "done" /\ Stopped'
  BY FailStops
<1> QED BY <1>1 DEF Judges

LEMMA CompleteJudges ==
    ASSUME ReaderInv, NEW t \in Readers, Quiet(t), NEW f \in Frames, f.op \notin Control,
           taken' = Append(taken, f), Completes(t, Append(message[t], f)),
           Buffers(taken', <<>>),
           Passes(taken') <=> \/ Append(message[t], f)[1].op = "binary"
                                \/ Utf8(Append(message[t], f))
    PROVE  Judges(t)
<1> DEFINE fs == Append(message[t], f)
<1>1. CASE \E k \in Data : /\ Returns(t, [kind |-> k, frames |-> fs], "header")
                           /\ UNCHANGED <<out, writable>>
                           /\ Passes(taken')
  <2>1. /\ pc'[t] = "header" /\ out' = out
        /\ \/ results' = results
           \/ \E r \in Outcome : results' = Append(results, r) /\ r.kind # "error"
        /\ Delivered' \o message'[t] = Append(Delivered \o message[t], f)
    BY <1>1, DataQuiet
  <2>2. message'[t] = <<>>
    BY <1>1 DEF Returns, ReaderInv
  <2>3. Pongs' = Pongs
    BY <2>1 DEF Pongs
  <2>4. f.op # "ping"
    BY DEF Control
  <2> HIDE DEF Outcome
  <2>5. Quiet(t)'
    BY <1>1, <2>1, <2>2, <2>3, <2>4, StaysQuiet
  <2> QED BY <2>1, <2>5 DEF Judges
<1>2. CASE Fails(t, 1007) /\ ~Passes(taken')
  BY <1>2, FailJudges
<1>3. "binary" \in Data /\ "text" \in Data
  BY DEF Data
<1>4. CASE fs[1].op = "binary"
  BY <1>1, <1>3, <1>4 DEF Completes
<1>5. CASE fs[1].op # "binary"
  <2>1. PICK verdict \in Decoder(fs) :
          IF verdict = "good" /\ Utf8(fs)
            THEN Returns(t, [kind |-> "text", frames |-> fs], "header")
                 /\ UNCHANGED <<out, writable>>
            ELSE Fails(t, 1007)
    BY <1>5 DEF Completes
  <2>2. CASE Utf8(fs)
    <3>1. verdict = "good"
      BY <2>1, <2>2 DEF Decoder
    <3> QED BY <1>1, <1>3, <2>1, <2>2, <3>1
  <2>3. CASE ~Utf8(fs)
    <3>1. Fails(t, 1007) /\ ~Passes(taken')
      BY <1>5, <2>1, <2>3
    <3> QED BY <1>2, <3>1
  <2> QED BY <2>2, <2>3
<1> QED BY <1>4, <1>5

LEMMA ContinueJudges ==
    ASSUME ReaderInv, NEW t \in Readers, Quiet(t), NEW f \in Frames, f.op \notin Control,
           taken' = Append(taken, f), Continues(t, Append(message[t], f)),
           Buffers(taken', Append(message[t], f)), Passes(taken')
    PROVE  Judges(t)
<1>1. /\ pc'[t] = "header" /\ out' = out
      /\ \/ results' = results
         \/ \E r \in Outcome : results' = Append(results, r) /\ r.kind # "error"
      /\ Delivered' \o message'[t] = Append(Delivered \o message[t], f)
  BY DataQuiet
<1>2. message'[t] = Append(message[t], f)
  BY DEF Continues, ReaderInv
<1>3. Pongs' = Pongs
  BY <1>1 DEF Pongs
<1>4. f.op # "ping"
  BY DEF Control
<1> HIDE DEF Outcome
<1>5. Quiet(t)'
  BY <1>1, <1>2, <1>3, <1>4, StaysQuiet
<1> QED BY <1>1, <1>5 DEF Judges

\* Whether the frame that is read now passes.
LEMMA FrameVerdict ==
    ASSUME ReaderInv, NEW t \in Readers, Quiet(t), NEW f \in Frames, f \in FrameType, ~f.rsv,
           taken' = Append(taken, f)
    PROVE  Passes(taken') <=> Accepts(message[t], f)
<1>1. taken \in Seq(Frames) /\ message[t] \in Seq(Frames)
  BY DEF ReaderInv
<1>2. Passes(taken) /\ Buffers(taken, message[t])
  BY DEF Quiet
<1> QED BY <1>1, <1>2, Verdict

LEMMA ContinuationJudges ==
    ASSUME ReaderInv, NEW t \in Readers, Quiet(t), NEW f \in Frames, f \in FrameType, ~f.rsv,
           f.key # "zero", f.op = "continuation",
           taken' = Append(taken, f), OnContinuation(t, f)
    PROVE  Judges(t)
<1>0. Passes(taken') <=> Accepts(message[t], f)
  BY FrameVerdict
<1>1. taken \in Seq(Frames) /\ message[t] \in Seq(Frames)
  BY DEF ReaderInv
<1>2. Buffers(taken, message[t])
  BY DEF Quiet
<1>3. f.op \notin Data /\ f.op \notin Control /\ f.op \notin {"pong", "ping", "close", "reserved"}
  BY DEF Data, Control
<1>4. CASE ~InMessage(t)
  <2>1. Fails(t, 1002) /\ ~Passes(taken')
    BY <1>4, <1>0 DEF Accepts, InMessage, OnContinuation
  <2> QED BY <2>1, FailJudges
<1>5. CASE InMessage(t) /\ f.fin
  <2>1. Completes(t, Append(message[t], f))
    BY <1>5 DEF OnContinuation
  <2>2. Buffers(taken', <<>>)
    BY <1>1, <1>3, <1>5, BuffersNone
  <2>3. Append(message[t], f)[1] = message[t][1]
    BY <1>1, <1>5 DEF InMessage
  <2>4. Passes(taken') <=> \/ Append(message[t], f)[1].op = "binary"
                             \/ Utf8(Append(message[t], f))
    BY <1>3, <1>5, <2>3, <1>0 DEF Accepts, InMessage
  <2> QED BY <1>3, <2>1, <2>2, <2>4, CompleteJudges
<1>6. CASE InMessage(t) /\ ~f.fin
  <2>1. Continues(t, Append(message[t], f))
    BY <1>6 DEF OnContinuation
  <2>2. Buffers(taken', Append(message[t], f))
    BY <1>1, <1>2, <1>3, <1>6, BuffersMore DEF InMessage
  <2>3. Passes(taken')
    BY <1>3, <1>6, <1>0 DEF Accepts, InMessage
  <2> QED BY <1>3, <2>1, <2>2, <2>3, ContinueJudges
<1> QED BY <1>4, <1>5, <1>6

LEMMA DataJudges ==
    ASSUME ReaderInv, NEW t \in Readers, Quiet(t), NEW f \in Frames, f \in FrameType, ~f.rsv,
           f.key # "zero", f.op \in Data,
           taken' = Append(taken, f), OnData(t, f)
    PROVE  Judges(t)
<1>0. Passes(taken') <=> Accepts(message[t], f)
  BY FrameVerdict
<1>1. taken \in Seq(Frames) /\ message[t] \in Seq(Frames)
  BY DEF ReaderInv
<1>2. f.op \notin Control /\ f.op \notin {"pong", "ping", "close", "reserved", "continuation"}
  BY DEF Data, Control
<1>3. CASE InMessage(t)
  <2>1. Fails(t, 1002) /\ ~Passes(taken')
    BY <1>3, <1>0 DEF Accepts, InMessage, OnData
  <2> QED BY <2>1, FailJudges
<1>4. ~InMessage(t) => Append(message[t], f) = <<f>> /\ <<f>>[1] = f
  <2>1. Append(<<>>, f) = <<f>> /\ <<f>>[1] = f
    OBVIOUS
  <2> QED BY <2>1 DEF InMessage
<1>5. CASE ~InMessage(t) /\ f.fin
  <2>1. Completes(t, Append(message[t], f))
    BY <1>4, <1>5 DEF OnData
  <2>2. Buffers(taken', <<>>)
    <3>1. ~Inside(taken, Len(taken) + 1)
      BY <1>1, <1>5, BuffersInside DEF Quiet, InMessage
    <3> QED BY <1>1, <1>5, <3>1, BuffersNone
  <2>3. Passes(taken') <=> f.op = "binary" \/ Utf8(<<f>>)
    BY <1>2, <1>5, <1>0 DEF Accepts, InMessage
  <2>4. Passes(taken') <=> \/ Append(message[t], f)[1].op = "binary"
                             \/ Utf8(Append(message[t], f))
    BY <1>4, <1>5, <2>3
  <2> QED BY <1>2, <2>1, <2>2, <2>4, CompleteJudges
<1>6. CASE ~InMessage(t) /\ ~f.fin
  <2>1. Continues(t, Append(message[t], f))
    BY <1>4, <1>6 DEF OnData
  <2>2. Buffers(taken', Append(message[t], f))
    BY <1>1, <1>4, <1>6, BuffersStart
  <2>3. Passes(taken')
    BY <1>2, <1>6, <1>0 DEF Accepts, InMessage
  <2> QED BY <1>2, <2>1, <2>2, <2>3, ContinueJudges
<1> QED BY <1>3, <1>5, <1>6

\* A control frame that is answered leaves what is kept of the message.
LEMMA ControlQuiet ==
    ASSUME ReaderInv, NEW t \in Readers, Quiet(t), NEW f \in Frames, f.op \in Control,
           taken' = Append(taken, f), Passes(taken'),
           pc'[t] = "header", message'[t] = message[t],
           \/ results' = results
           \/ \E r \in Outcome : results' = Append(results, r) /\ r.kind \in {"ping", "pong"},
           Pongs' = IF f.op = "ping" THEN Append(Pongs, f) ELSE Pongs
    PROVE  Judges(t)
<1>1. taken \in Seq(Frames) /\ message[t] \in Seq(Frames) /\ results \in Seq(Outcome)
  BY DEF ReaderInv
<1>2. f.op \notin Data /\ f.op # "continuation"
  BY DEF Data, Control
<1>3. Buffers(taken, message[t])
  BY DEF Quiet
<1>4. Buffers(taken', message'[t])
  <2>1. CASE message[t] = <<>>
    <3>1. ~Inside(taken, Len(taken) + 1)
      BY <1>3, <2>1 DEF Buffers
    <3> QED BY <1>1, <1>2, <2>1, <3>1, BuffersNone
  <2>2. CASE message[t] # <<>>
    BY <1>1, <1>2, <1>3, <2>2, BuffersMore
  <2> QED BY <2>1, <2>2
<1>5. Delivered' = Delivered
  <2>1. CASE results' = results
    BY <2>1 DEF Delivered
  <2>2. CASE \E r \in Outcome : results' = Append(results, r) /\ r.kind \in {"ping", "pong"}
    <3>1. PICK r \in Outcome : results' = Append(results, r) /\ r.kind \in {"ping", "pong"}
      BY <2>2
    <3>2. r.kind \notin Data
      BY <3>1 DEF Data
    <3> HIDE DEF Outcome
    <3> QED BY <1>1, <3>1, <3>2, DeliveredAppend
  <2> QED BY <2>1, <2>2
<1> HIDE DEF Outcome
<1>6. \/ results' = results
      \/ \E r \in Outcome : results' = Append(results, r) /\ r.kind # "error"
  OBVIOUS
<1>7. Delivered' \o message'[t] = Delivered \o message[t]
  BY <1>5
<1>8. Quiet(t)'
  BY <1>4, <1>6, <1>7, StaysQuiet
<1> QED BY <1>8 DEF Judges

LEMMA PingJudges ==
    ASSUME ReaderInv, NEW t \in Readers, Quiet(t), NEW f \in Frames, f \in FrameType, ~f.rsv,
           f.key # "zero", f.op = "ping",
           taken' = Append(taken, f), OnPing(t, f)
    PROVE  Judges(t)
<1>0. Passes(taken') <=> Accepts(message[t], f)
  BY FrameVerdict
<1>1. /\ f.op \in Control
      /\ f.op \notin Data /\ f.op \notin {"pong", "close", "reserved", "continuation"}
  BY DEF Data, Control
<1>2. CASE f.body = "big" \/ ~f.fin
  <2>1. Fails(t, 1002) /\ ~Passes(taken')
    BY <1>2, <1>0 DEF Accepts, InMessage, OnPing
  <2> QED BY <2>1, FailJudges
<1>3. ASSUME ~(f.body = "big" \/ ~f.fin) PROVE Passes(taken')
  BY <1>1, <1>3, <1>0 DEF Accepts, InMessage
<1>4. CASE ~(f.body = "big" \/ ~f.fin) /\ ~writable
  <2>1. CASE Fails(t, 1011)
    BY <2>1, FailJudges
  <2>2. CASE Returns(t, [kind |-> "error", code |-> 1011], "done")
    <3> DEFINE r == [kind |-> "error", code |-> 1011]
    <3>1. r \in Outcome /\ r.kind = "error" /\ r.code = 1011
      BY DEF Outcome, ErrorType
    <3>2. results' = Append(results, r) /\ pc'[t] = "done"
      BY <2>2 DEF Returns, ReaderInv
    <3> HIDE DEF r, Outcome
    <3>3. Stopped'
      BY <3>1, <3>2, Stops
    <3> QED BY <3>2, <3>3 DEF Judges
  <2> QED BY <1>4, <2>1, <2>2 DEF OnPing
<1>5. CASE ~(f.body = "big" \/ ~f.fin) /\ writable
  <2> DEFINE a == [op |-> "pong", code |-> f]
  <2>1. a \in Answers /\ a.op = "pong" /\ a.code = f /\ out \in Seq(Answers)
    BY DEF Answers, ReaderInv
  <2>2. out' = Append(out, a)
    BY <1>5 DEF OnPing
  <2> HIDE DEF a
  <2>3. Pongs' = Append(Pongs, f)
    BY <2>1, <2>2, PongsAppend
  <2>4. CASE InMessage(t)
    <3>1. /\ pc' = [pc EXCEPT ![t] = "header"]
          /\ UNCHANGED <<message, results>>
      BY <1>5, <2>4 DEF OnPing
    <3>2. pc'[t] = "header" /\ message'[t] = message[t] /\ results' = results
      BY <3>1 DEF ReaderInv
    <3> QED BY <1>1, <1>3, <1>5, <2>3, <3>2, ControlQuiet
  <2>5. CASE ~InMessage(t)
    <3> DEFINE r == [kind |-> "ping", frames |-> <<f>>]
    <3>1. Returns(t, r, "header")
      BY <1>5, <2>5 DEF OnPing
    <3>2. r \in Outcome /\ r.kind = "ping"
      BY PlainType
    <3> HIDE DEF r, Outcome
    <3>3. results' = Append(results, r) /\ pc'[t] = "header" /\ message'[t] = message[t]
      BY <2>5, <3>1 DEF Returns, ReaderInv, InMessage
    <3> QED BY <1>1, <1>3, <1>5, <2>3, <3>2, <3>3, ControlQuiet
  <2> QED BY <2>4, <2>5
<1> QED BY <1>2, <1>4, <1>5

LEMMA PongJudges ==
    ASSUME ReaderInv, NEW t \in Readers, Quiet(t), NEW f \in Frames, f \in FrameType, ~f.rsv,
           f.key # "zero", f.op = "pong",
           taken' = Append(taken, f), OnPong(t, f)
    PROVE  Judges(t)
<1>0. Passes(taken') <=> Accepts(message[t], f)
  BY FrameVerdict
<1>1. /\ f.op \in Control
      /\ f.op \notin Data /\ f.op \notin {"ping", "close", "reserved", "continuation"}
  BY DEF Data, Control
<1>2. CASE InMessage(t)
  <2>1. Fails(t, 1002) /\ ~Passes(taken')
    BY <1>2, <1>0 DEF Accepts, InMessage, OnPong
  <2> QED BY <2>1, FailJudges
<1>3. CASE ~InMessage(t)
  <2> DEFINE r == [kind |-> "pong", frames |-> <<f>>]
  <2>1. Returns(t, r, "header") /\ out' = out
    BY <1>3 DEF OnPong
  <2>2. r \in Outcome /\ r.kind = "pong"
    BY PlainType
  <2>3. Pongs' = Pongs
    BY <2>1 DEF Pongs
  <2>4. Passes(taken')
    BY <1>1, <1>3, <1>0 DEF Accepts, InMessage
  <2> HIDE DEF r, Outcome
  <2>5. results' = Append(results, r) /\ pc'[t] = "header" /\ message'[t] = message[t]
    BY <1>3, <2>1 DEF Returns, ReaderInv, InMessage
  <2> QED BY <1>1, <2>2, <2>3, <2>4, <2>5, ControlQuiet
<1> QED BY <1>2, <1>3

LEMMA CloseJudges ==
    ASSUME ReaderInv, NEW t \in Readers, Quiet(t), NEW f \in Frames, f \in FrameType, ~f.rsv,
           f.key # "zero", f.op = "close",
           taken' = Append(taken, f), OnClose(t, f)
    PROVE  Judges(t)
<1>0. Passes(taken') <=> Accepts(message[t], f)
  BY FrameVerdict
<1>1. f.op \notin Data /\ f.op \notin {"ping", "pong", "reserved", "continuation"}
  BY DEF Data
<1>2. Passes(taken') <=> f.body \notin {"one byte", "big", "bad code", "bad reason"}
  BY <1>1, <1>0 DEF Accepts, InMessage
<1>3. CASE (Fails(t, 1002) \/ Fails(t, 1007)) /\ ~Passes(taken')
  BY <1>3, FailJudges
<1>4. CASE AnswersClose(t, f) /\ Passes(taken')
  BY <1>4, CloseStops DEF Judges
<1>5. \/ (Fails(t, 1002) \/ Fails(t, 1007))
           /\ f.body \in {"one byte", "big", "bad code", "bad reason"}
      \/ AnswersClose(t, f) /\ f.body \notin {"one byte", "big", "bad code", "bad reason"}
  <2>1. CASE f.body \in {"one byte", "big", "bad code"}
    <3>1. f.body \in {"one byte", "big", "bad code", "bad reason"}
      BY <2>1
    <3>2. Fails(t, 1002)
      BY <2>1, Zenon DEF OnClose
    <3> QED BY <3>1, <3>2, Zenon
  <2>2. CASE f.body = "bad reason"
    <3>1. f.body \in {"one byte", "big", "bad code", "bad reason"} /\ Fails(t, 1007)
      BY <2>2 DEF OnClose
    <3> QED BY <3>1
  <2>3. CASE f.body \notin {"one byte", "big", "bad code", "bad reason"}
    <3>1. f.body \notin {"one byte", "big", "bad code"} /\ f.body # "bad reason"
      BY <2>3
    <3>2. AnswersClose(t, f)
      BY <3>1, Zenon DEF OnClose
    <3> QED BY <2>3, <3>2, Zenon
  <2>4. f.body \in {"one byte", "big", "bad code", "bad reason"} =>
            f.body \in {"one byte", "big", "bad code"} \/ f.body = "bad reason"
    OBVIOUS
  <2> QED BY <2>1, <2>2, <2>3, <2>4, Zenon
<1> QED BY <1>2, <1>3, <1>4, <1>5, Zenon

\* Whatever the frame, the reader refuses it when it does not pass.
LEMMA FrameJudges ==
    ASSUME ReaderInv, NEW t \in Readers, Quiet(t), NEW f \in Frames, f \in FrameType, ~f.rsv,
           taken' = Append(taken, f),
           IF f.key = "zero" THEN Fails(t, 1002) ELSE OnFrame(t, f)
    PROVE  Judges(t)
<1>0. Passes(taken') <=> Accepts(message[t], f)
  BY FrameVerdict
<1>1. CASE f.key = "zero"
  <2>1. Fails(t, 1002) /\ ~Passes(taken')
    BY <1>1, <1>0 DEF Accepts, InMessage
  <2> QED BY <2>1, FailJudges
<1>2. CASE f.key # "zero" /\ OnFrame(t, f)
  <2>1. CASE f.op = "continuation" /\ OnContinuation(t, f)
    BY <1>2, <2>1, ContinuationJudges
  <2>2. CASE f.op \in Data /\ OnData(t, f)
    BY <1>2, <2>2, DataJudges
  <2>3. CASE f.op = "ping" /\ OnPing(t, f)
    BY <1>2, <2>3, PingJudges
  <2>4. CASE f.op = "pong" /\ OnPong(t, f)
    BY <1>2, <2>4, PongJudges
  <2>5. CASE f.op = "close" /\ OnClose(t, f)
    BY <1>2, <2>5, CloseJudges
  <2>6. CASE f.op = "reserved" /\ Fails(t, 1002)
    <3>1. ~Passes(taken')
      BY <2>6, <1>0 DEF Accepts, InMessage
    <3> QED BY <2>6, <3>1, FailJudges
  <2>7. f.op \in Data \cup {"continuation", "close", "ping", "pong", "reserved"}
    BY DEF FrameType, Opcodes
  <2>8. f.op \in Data => f.op \notin {"continuation", "close", "ping", "pong", "reserved"}
    BY DEF Data
  <2> QED BY <1>2, <2>1, <2>2, <2>3, <2>4, <2>5, <2>6, <2>7, <2>8 DEF OnFrame
<1> QED BY <1>1, <1>2

-----------------------------------------------------------------------------
(* The steps, for the task that reads from the start *)

\* What HistoryInv speaks of has not changed.
LEMMA HistoryKept ==
    ASSUME HistoryInv,
           UNCHANGED <<frame, message, taken, results, out, ended>>,
           pc'[First] = pc[First], Alone(First)' => Alone(First)
    PROVE  HistoryInv'
<1>1. /\ Pings' = Pings /\ Pongs' = Pongs /\ Delivered' = Delivered
      /\ Passes(taken)' <=> Passes(taken)
  BY DEF Pings, Pongs, Delivered
<1>2. Quiet(First) => Quiet(First)'
  BY <1>1 DEF Quiet
<1>3. Stopped => Stopped'
  BY <1>1 DEF Stopped
<1> QED BY <1>2, <1>3 DEF HistoryInv

\* Once another task has read, First is not alone any more.
LEMMA OthersRead ==
    ASSUME ReaderInv, HistoryInv, NEW u \in Readers, u # First, Begins(u) \/ Step(u)
    PROVE  HistoryInv'
<1>1. First \in Readers
  BY FramesAssumption
<1>2. CASE Alone(First)
  <2>1. pc[u] = "idle" /\ ~Step(u)
    <3>1. pc[u] = "idle"
      BY <1>2 DEF Alone
    <3> QED BY <3>1 DEF Step, ReadHeader, ReadPayload, ReadsEnd, ReadTorn
  <2>2. /\ pc' = [pc EXCEPT ![u] = "header"] /\ UNCHANGED frame
        /\ pc \in [Readers -> {"idle", "header", "payload", "done"}]
    BY <2>1 DEF Begins, ReaderInv
  <2>3. pc'[First] = pc[First] /\ pc'[u] # "idle"
    BY <1>1, <2>2
  <2>4. ~Alone(First)'
    BY <2>3 DEF Alone
  <2> QED BY <2>2, <2>3, <2>4 DEF HistoryInv
<1>3. CASE ~Alone(First)
  <2>1. /\ pc'[First] = pc[First] /\ frame'[First] = frame[First]
        /\ \A v \in Readers : pc[v] # "idle" => pc'[v] # "idle"
    <3>1. /\ pc \in [Readers -> {"idle", "header", "payload", "done"}]
          /\ frame \in [Readers -> Frames \cup {Null}]
      BY DEF ReaderInv
    <3>2. ASSUME Reaction(u), frame' = frame \/ frame' = [frame EXCEPT ![u] = Null]
          PROVE  /\ pc'[First] = pc[First] /\ frame'[First] = frame[First]
                 /\ \A v \in Readers : pc[v] # "idle" => pc'[v] # "idle"
      BY <1>1, <3>1, <3>2 DEF Reaction
    <3>3. CASE Begins(u)
      BY <1>1, <3>1, <3>3 DEF Begins
    <3>4. CASE ReadHeader(u)
      <4>1. CASE Fails(u, 1002) /\ UNCHANGED frame
        BY <3>2, <4>1, FailType
      <4>2. CASE /\ pc' = [pc EXCEPT ![u] = "payload"]
                 /\ \E f : frame' = [frame EXCEPT ![u] = f]
        BY <1>1, <3>1, <4>2
      <4> QED BY <3>4, <4>1, <4>2 DEF ReadHeader
    <3>5. CASE ReadPayload(u)
      <4>1. frame[u] \in Frames /\ frame[u] \in FrameType
        BY <3>5, FramesAssumption DEF ReadPayload, ReaderInv
      <4>2. /\ Fails(u, 1002) \/ OnFrame(u, frame[u])
            /\ frame' = [frame EXCEPT ![u] = Null]
        BY <3>5 DEF ReadPayload
      <4>3. Reaction(u)
        BY <4>1, <4>2, FailType, FrameReaction
      <4> QED BY <3>2, <4>2, <4>3
    <3>6. CASE ReadsEnd(u)
      <4>1. Fails(u, 1002) /\ frame' = [frame EXCEPT ![u] = Null]
        BY <3>6 DEF ReadsEnd
      <4> QED BY <3>2, <4>1, FailType
    <3>7. CASE ReadTorn(u)
      BY <3>7 DEF ReadTorn
    <3> QED BY <3>3, <3>4, <3>5, <3>6, <3>7 DEF Step
  <2>2. ~Alone(First)'
    BY <1>3, <2>1 DEF Alone
  <2> QED BY <2>1, <2>2 DEF HistoryInv
<1> QED BY <1>2, <1>3

\* A step of First itself.
LEMMA FirstReads ==
    ASSUME ReaderInv, HistoryInv, Step(First)
    PROVE  HistoryInv'
<1>1. First \in Readers
  BY FramesAssumption
<1>2. CASE ReadHeader(First)
  <2> DEFINE f == Head(stream).of
  <2>1. f \in Frames /\ f \in FrameType
    <3>1. stream \in Seq(HalfType) /\ stream # <<>>
      BY <1>2 DEF ReadHeader, ReaderInv
    <3>2. Head(stream) \in HalfType
      BY <3>1, TailType
    <3> QED BY <3>2, FramesAssumption DEF HalfType
  <2>2. pc[First] = "header" /\ taken \in Seq(Frames)
    BY <1>2 DEF ReadHeader, ReaderInv
  <2>3. CASE f.rsv
    <3>1. Fails(First, 1002) /\ taken' = Append(taken, f) /\ UNCHANGED <<frame, ended>>
      BY <1>2, <2>3 DEF ReadHeader
    <3> HIDE DEF f
    <3>2. Reaction(First)
      BY <1>1, <3>1, FailType
    <3>3. Alone(First)' => Alone(First)
      BY <1>1, <3>2 DEF Alone, Reaction
    <3>4. ~Passes(taken')
      <4>1. Append(taken, f)[Len(taken) + 1] = f /\ Len(taken) + 1 \in DOMAIN Append(taken, f)
        BY <2>1, <2>2, AppendAt
      <4> QED BY <2>3, <3>1, <4>1 DEF Passes, FramePasses
    <3>5. pc'[First] = "done"
      BY <1>1, <3>1 DEF Fails, Returns, ReaderInv
    <3>6. ASSUME Alone(First)' PROVE Stopped'
      <4>1. Quiet(First)
        BY <2>2, <3>3, <3>6 DEF HistoryInv
      <4> QED BY <1>1, <3>1, <3>4, <4>1, FailStops
    <3> QED BY <3>5, <3>6 DEF HistoryInv
  <2>4. CASE ~f.rsv
    <3> HIDE DEF f
    <3>1. /\ frame' = [frame EXCEPT ![First] = f] /\ pc' = [pc EXCEPT ![First] = "payload"]
          /\ UNCHANGED <<message, taken, results, out, writable, ended>>
      BY <1>2, <2>4 DEF ReadHeader, f
    <3>2. pc'[First] = "payload" /\ frame'[First] = f
          /\ \A v \in Readers : v # First => pc'[v] = pc[v]
      BY <1>1, <3>1 DEF ReaderInv
    <3>3. Alone(First)' => Alone(First)
      BY <3>2 DEF Alone
    <3>4. Pings' = Pings /\ Pongs' = Pongs /\ Delivered' = Delivered
      BY <3>1 DEF Pings, Pongs, Delivered
    <3>5. Quiet(First) => Quiet(First)'
      BY <3>1, <3>4 DEF Quiet
    <3> QED BY <2>2, <2>4, <3>2, <3>3, <3>5 DEF HistoryInv
  <2> QED BY <2>3, <2>4
<1>3. CASE ReadPayload(First)
  <2> DEFINE f == frame[First]
  <2>1. /\ pc[First] = "payload" /\ f \in Frames /\ f \in FrameType /\ ~f.rsv
    BY <1>1, <1>3, FramesAssumption DEF ReadPayload, ReaderInv, HistoryInv
  <2>2. /\ taken' = Append(taken, f) /\ UNCHANGED ended
        /\ IF f.key = "zero" THEN Fails(First, 1002) ELSE OnFrame(First, f)
    BY <1>3 DEF ReadPayload
  <2> HIDE DEF f
  <2>3. Reaction(First)
    BY <1>1, <2>1, <2>2, FailType, FrameReaction
  <2>4. Alone(First)' => Alone(First)
    BY <1>1, <2>3 DEF Alone, Reaction
  <2>5. pc'[First] \in {"header", "done"}
    BY <2>3 DEF Reaction
  <2>6. ASSUME Alone(First)' PROVE Judges(First)
    <3>1. Quiet(First)
      BY <2>1, <2>4, <2>6 DEF HistoryInv
    <3> QED BY <1>1, <2>1, <2>2, <3>1, FrameJudges
  <2> QED BY <2>5, <2>6 DEF HistoryInv, Judges
<1>4. CASE ReadsEnd(First)
  <2>1. /\ Fails(First, 1002) /\ ended /\ UNCHANGED <<ended, taken>>
        /\ pc[First] \in {"header", "payload"}
    BY <1>4 DEF ReadsEnd
  <2>2. Reaction(First)
    BY <1>1, <2>1, FailType
  <2>3. pc'[First] = "done"
    BY <1>1, <2>1 DEF Fails, Returns, ReaderInv
  <2>4. Alone(First)' => Alone(First)
    BY <1>1, <2>2 DEF Alone, Reaction
  <2>5. ASSUME Alone(First)' PROVE Stopped'
    <3>1. Quiet(First)
      BY <2>1, <2>4, <2>5 DEF HistoryInv
    <3> QED BY <1>1, <2>1, <3>1, FailStops
  <2> QED BY <2>3, <2>5 DEF HistoryInv
<1>5. CASE ReadTorn(First)
  <2>1. UNCHANGED <<frame, message, taken, results, out, ended, pc>>
    BY <1>5 DEF ReadTorn
  <2> QED BY <2>1, HistoryKept DEF Alone
<1> QED BY <1>2, <1>3, <1>4, <1>5 DEF Step

LEMMA HistoryInit == Init => HistoryInv
<1> SUFFICES ASSUME Init PROVE HistoryInv
  OBVIOUS
<1>1. First \in Readers
  BY FramesAssumption
<1>2. pc[First] = "header" /\ taken = <<>> /\ results = <<>> /\ out = <<>>
      /\ message[First] = <<>>
  BY <1>1 DEF Init
<1>3. Passes(taken) /\ \A i \in DOMAIN results : FALSE
  <2>1. DOMAIN <<>> = {}
    OBVIOUS
  <2> QED BY <1>2, <2>1 DEF Passes
<1>4. Pings = <<>> /\ Pongs = <<>> /\ Delivered = <<>> /\ DataFrames(taken) = <<>>
  <2>1. Pings = <<>>
    <3>1. [i \in DOMAIN <<>> |-> IF <<>>[i].op = "ping" THEN <<<<>>[i]>> ELSE <<>>] = <<>>
      OBVIOUS
    <3> QED BY <1>2, <3>1, FlattenSeqEmpty DEF Pings
  <2>2. Pongs = <<>>
    <3>1. [i \in DOMAIN <<>> |-> IF <<>>[i].op = "pong" THEN <<<<>>[i].code>> ELSE <<>>] = <<>>
      OBVIOUS
    <3> QED BY <1>2, <3>1, FlattenSeqEmpty DEF Pongs
  <2>3. Delivered = <<>>
    <3>1. [i \in DOMAIN <<>> |-> IF <<>>[i].kind \in Data THEN <<>>[i].frames ELSE <<>>] = <<>>
      OBVIOUS
    <3> QED BY <1>2, <3>1, FlattenSeqEmpty DEF Delivered
  <2> QED BY <1>2, <2>1, <2>2, <2>3, DataFramesEmpty
<1>5. Buffers(taken, message[First])
  <2>1. 1..((Len(<<>>) + 1) - 1) = {}
    OBVIOUS
  <2> QED BY <1>2, <2>1 DEF Buffers, Inside
<1>6. <<>> \o <<>> = <<>>
  OBVIOUS
<1> QED BY <1>2, <1>3, <1>4, <1>5, <1>6 DEF HistoryInv, Quiet

LEMMA HistoryStep ==
    ASSUME ReaderInv, HistoryInv, [Next]_vars
    PROVE  HistoryInv'
<1>1. First \in Readers
  BY FramesAssumption
<1>2. CASE \/ \E f \in Frames : ClientSends(f)
           \/ ClientResets
           \/ UNCHANGED vars
  <2>1. UNCHANGED <<pc, frame, message, taken, results, out, ended>>
    BY <1>2 DEF ClientSends, ClientResets, vars
  <2> QED BY <2>1, HistoryKept DEF Alone
<1>3. CASE ClientEnds
  <2>1. UNCHANGED <<pc, frame, message, taken, results, out>> /\ ended'
    BY <1>3 DEF ClientEnds
  <2>2. Pings' = Pings /\ Pongs' = Pongs /\ Delivered' = Delivered
    BY <2>1 DEF Pings, Pongs, Delivered
  <2>3. (Quiet(First) => Quiet(First)') /\ (Stopped => Stopped')
    BY <2>1, <2>2 DEF Quiet, Stopped
  <2> QED BY <2>1, <2>3 DEF HistoryInv, Alone
<1>4. ASSUME NEW t \in Readers, Begins(t) \/ Step(t) PROVE HistoryInv'
  <2>1. CASE t # First
    BY <1>4, <2>1, OthersRead
  <2>2. CASE t = First
    <3>1. Step(First)
      BY <1>4, <2>2 DEF Begins, HistoryInv
    <3> QED BY <3>1, FirstReads
  <2> QED BY <2>1, <2>2
<1> QED BY <1>2, <1>3, <1>4 DEF Next

LEMMA HistoryInvariant == Spec => [](ReaderInv /\ HistoryInv)
<1>1. Init => HistoryInv
  BY HistoryInit
<1>2. ReaderInv /\ HistoryInv /\ [Next]_vars => HistoryInv'
  BY HistoryStep
<1> QED BY <1>1, <1>2, ReaderInvariant, PTL DEF Spec

\* Only First can be alone: it has been reading from the start.
LEMMA AloneFirst ==
    ASSUME HistoryInv, NEW t \in Readers, Alone(t)
    PROVE  t = First
BY FramesAssumption DEF Alone, HistoryInv

\* For any frames in any order, while one task reads: what continues nothing,
\* begins a message in another or completes a text that is not UTF-8 over its
\* fragments fails the connection, and ordinary frames in sequence do not.
THEOREM Sequencing == Spec => []SequenceJudged
<1>1. ReaderInv /\ HistoryInv => SequenceJudged
  <2> SUFFICES ASSUME ReaderInv, HistoryInv, NEW t \in Readers, Alone(t)
               PROVE  /\ ~InSequence(taken) => pc[t] = "done" /\ Last(results).kind = "error"
                      /\ /\ ~ended /\ (Errors(1002) \/ Errors(1007))
                         /\ \A i \in DOMAIN taken :
                               Ordinary(taken[i]) /\ (taken[i].op = "pong" => ~Inside(taken, i))
                         => ~InSequence(taken)
    BY DEF SequenceJudged
  <2>0. taken \in Seq(Frames)
    BY DEF ReaderInv
  <2>1. t = First
    BY AloneFirst
  <2>2. ~InSequence(taken) => ~Passes(taken)
    BY <2>0, PassesInSequence
  <2>3. /\ ~Passes(taken)
        /\ \A i \in DOMAIN taken :
              Ordinary(taken[i]) /\ (taken[i].op = "pong" => ~Inside(taken, i))
        => ~InSequence(taken)
    BY <2>0, SequencePasses
  <2>4. CASE pc[First] # "done"
    <3>1. Quiet(First)
      BY <2>1, <2>4 DEF HistoryInv
    <3>2. ~Errors(1002) /\ ~Errors(1007)
      BY <3>1 DEF Quiet, Errors
    <3> QED BY <2>2, <3>1, <3>2 DEF Quiet
  <2>5. CASE pc[First] = "done"
    <3>1. Stopped
      BY <2>1, <2>5 DEF HistoryInv
    <3>2. DOMAIN results = 1..Len(results) /\ Len(results) \in Nat
      BY DEF ReaderInv
    <3>3. \A i \in DOMAIN results : i \in 1..Len(results) - 1 \/ i = Len(results)
      BY <3>2
    <3>4. ASSUME NEW code \in {1002, 1007}, Errors(code), ~ended
          PROVE  ~Passes(taken)
      <4>1. PICK i \in DOMAIN results : results[i] = [kind |-> "error", code |-> code]
        BY <3>4 DEF Errors
      <4>2. results[i].kind = "error" /\ results[i].code = code
        BY <4>1
      <4>3. i = Len(results)
        BY <3>1, <3>3, <4>2 DEF Stopped
      <4> QED BY <3>1, <3>4, <4>2, <4>3 DEF Stopped
    <3>5. Last(results) = results[Len(results)]
      BY DEF Last
    <3>6. ~InSequence(taken) => pc[t] = "done" /\ Last(results).kind = "error"
      BY <2>1, <2>2, <2>5, <3>1, <3>5 DEF Stopped
    <3>7. ~ended /\ (Errors(1002) \/ Errors(1007)) => ~Passes(taken)
      BY <3>4
    <3> QED BY <2>3, <3>6, <3>7
  <2> QED BY <2>4, <2>5
<1> QED BY <1>1, HistoryInvariant, PTL

\* Control frames between the fragments, any number of them, lose, double and
\* move no data frame, for messages of any number of frames.
THEOREM Reassembly == Spec => []NothingLost
<1>1. HistoryInv => NothingLost
  BY AloneFirst DEF HistoryInv, NothingLost, Quiet
<1> QED BY <1>1, HistoryInvariant, PTL

\* Every Ping is answered once and in order, however many there are, inside and
\* outside of messages.
THEOREM Answering == Spec => []PingsAnswered
<1>1. HistoryInv => PingsAnswered
  BY AloneFirst DEF HistoryInv, PingsAnswered, Quiet
<1> QED BY <1>1, HistoryInvariant, PTL
=============================================================================
