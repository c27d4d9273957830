----------------------------- MODULE FrameReader -----------------------------
(***************************************************************************)
(* The read side of one WebSocket connection: read_header and              *)
(* read_and_unmask_payload (ws/frame.rs), read_frame, handle_close_frame,  *)
(* read and handle_error_close (ws/socket/read.rs).                        *)
(*                                                                         *)
(* A frame is read in two steps, each under a reader lock of its own: the  *)
(* header, then the payload.  A frame's payload is one of a few classes    *)
(* (Bodies): what read_frame can tell apart about it.                      *)
(*                                                                         *)
(* A reader is a task with a loop around Socket::read, as in the README: it*)
(* stops at the first error and after a Close.  One reads from the start,  *)
(* others (the application has the socket in its table and its rooms) may  *)
(* begin at any time.                                                      *)
(***************************************************************************)
EXTENDS Integers, Sequences, SequencesExt

CONSTANTS
    Readers,     \* the tasks that may read this connection
    First,       \* the one that does from the start, in the on_connect callback
    Frames,      \* the frames the client may send
    MaxFrames,   \* bound: how many of them it sends
    MaxUnread,   \* bound: headers and payloads sent and not read yet
    Null         \* no frame

Data    == {"text", "binary"}
Opcodes == Data \cup {"continuation", "close", "ping", "pong", "reserved"}

\* "head" ends inside a UTF-8 character that a "tail" completes; "big" is text
\* of more than 125 bytes; "one byte", "bad code" (1004 to 1006, and what is not
\* in 1000 to 1015 or 3000 to 4999) and "bad reason" are Close payloads.
Bodies == {"empty", "whole", "head", "tail", "big",
           "one byte", "code", "bad code", "bad reason"}

\* key: a frame without a masking key and one whose key is zero look alike.
FrameType == [op : Opcodes, fin : BOOLEAN, rsv : BOOLEAN,
              key : {"random", "zero"}, body : Bodies]

ASSUME FramesAssumption ==
    /\ First \in Readers
    /\ Frames \subseteq FrameType
    /\ Null \notin Frames
    /\ MaxFrames \in Nat /\ MaxUnread \in Nat

VARIABLES
    stream,     \* what the client sent and nobody read: headers and payloads
    sent,       \* the frames the client has sent
    ended,      \* the client sends no more: end of file after `stream`
    pc,         \* pc[t]: "idle", "header", "payload" or "done"
    frame,      \* frame[t]: the frame whose header t has read
    message,    \* message[t]: the data frames of the message t is in
    taken,      \* history: the frames read in full, oldest first
    results,    \* what Socket::read returned
    out,        \* the control frames written back
    writable,   \* the write half of the connection works
    torn        \* a payload was read as a header, or the reverse

vars == <<stream, sent, ended, pc, frame, message, taken, results, out, writable, torn>>

Init ==
    /\ stream = <<>>
    /\ sent = 0
    /\ ended = FALSE
    /\ pc = [t \in Readers |-> IF t = First THEN "header" ELSE "idle"]
    /\ frame = [t \in Readers |-> Null]
    /\ message = [t \in Readers |-> <<>>]
    /\ taken = <<>>
    /\ results = <<>>
    /\ out = <<>>
    /\ writable = TRUE
    /\ torn = FALSE

-----------------------------------------------------------------------------
(* The client *)

Header(f)  == <<[part |-> "header", of |-> f]>>
Payload(f) == IF f.body = "empty" THEN <<>> ELSE <<[part |-> "payload", of |-> f]>>

ClientSends(f) ==
    /\ ~ended
    /\ sent < MaxFrames
    /\ Len(stream) < MaxUnread
    /\ sent' = sent + 1
    /\ stream' = stream \o Header(f) \o Payload(f)
    /\ UNCHANGED <<ended, pc, frame, message, taken, results, out, writable, torn>>

\* The client closes its half, perhaps in the middle of a frame.
ClientEnds ==
    /\ ~ended
    /\ ended' = TRUE
    /\ \E f \in Frames : f.body # "empty" /\ stream' \in {stream, stream \o Header(f)}
    /\ UNCHANGED <<sent, pc, frame, message, taken, results, out, writable, torn>>

\* The connection is reset: writes fail from now on.
ClientResets ==
    /\ writable
    /\ writable' = FALSE
    /\ UNCHANGED <<stream, sent, ended, pc, frame, message, taken, results, out, torn>>

-----------------------------------------------------------------------------
(* What a step of a reader leads to *)

\* The text of some frames is valid: every "head" has its "tail".
Utf8(fs) ==
    LET s == SelectSeq(fs, LAMBDA f : f.body # "empty") IN
    \A i \in DOMAIN s :
        /\ s[i].body = "tail" <=> (i > 1 /\ s[i - 1].body = "head")
        /\ s[i].body = "head" => i < Len(s) /\ s[i + 1].body = "tail"

\* encoding_rs: may miss bad text, never objects to good text.
Decoder(fs) == IF Utf8(fs) THEN {"good"} ELSE {"good", "bad"}

\* read returns r to the loop of task t; next is "header" or "done".
Returns(t, r, next) ==
    /\ results' = Append(results, r)
    /\ pc' = [pc EXCEPT ![t] = next]
    /\ message' = [message EXCEPT ![t] = <<>>]

\* perform_close as far as the read side sees it: a Close frame, if it can
\* still be written, and the write half is shut down, maybe not before another
\* reader has written once more: SocketClose has the steps.
Closes(code) ==
    /\ out' = IF writable THEN Append(out, [op |-> "close", code |-> code]) ELSE out
    /\ writable' \in BOOLEAN
    /\ writable' => writable

\* handle_error_close: all codes read_frame gives lead to a Close.  A shutdown
\* that fails turns the error into 1011.
Fails(t, code) ==
    /\ Closes(code)
    /\ \E c \in {code, 1011} : Returns(t, [kind |-> "error", code |-> c], "done")

\* Mutated form: the text of each fragment is checked for itself.
CompletesEach(t, fs) ==
    IF fs[1].op = "binary" \/ \A i \in DOMAIN fs : Utf8(<<fs[i]>>)
      THEN Returns(t, [kind |-> fs[1].op, frames |-> fs], "header")
           /\ UNCHANGED <<out, writable>>
      ELSE Fails(t, 1007)

\* A complete message: the decoder's verdict, then read's own UTF-8 check.
Completes(t, fs) ==
    IF fs[1].op = "binary"
      THEN Returns(t, [kind |-> "binary", frames |-> fs], "header")
           /\ UNCHANGED <<out, writable>>
      ELSE \E verdict \in Decoder(fs) :
              IF verdict = "good" /\ Utf8(fs)
                THEN Returns(t, [kind |-> "text", frames |-> fs], "header")
                     /\ UNCHANGED <<out, writable>>
                ELSE Fails(t, 1007)

\* The frame is part of a message that goes on.
Continues(t, fs) ==
    /\ pc' = [pc EXCEPT ![t] = "header"]
    /\ message' = [message EXCEPT ![t] = fs]
    /\ UNCHANGED <<results, out, writable>>

InMessage(t) == message[t] # <<>>

OnContinuation(t, f) ==
    LET fs == Append(message[t], f) IN
    IF ~InMessage(t) THEN Fails(t, 1002)
    ELSE IF f.fin THEN Completes(t, fs) ELSE Continues(t, fs)

OnData(t, f) ==
    IF InMessage(t) THEN Fails(t, 1002)
    ELSE IF f.fin THEN Completes(t, <<f>>) ELSE Continues(t, <<f>>)

\* Mutated form: read_frame returns a Ping also from inside a message, and
\* loses what it has of the message.
OnPingReturns(t, f) ==
    IF f.body = "big" \/ ~f.fin THEN Fails(t, 1002)
    ELSE /\ out' = IF writable THEN Append(out, [op |-> "pong", code |-> f]) ELSE out
         /\ Returns(t, [kind |-> "ping", frames |-> <<f>>], "header")
         /\ UNCHANGED writable

\* Mutated form: a Ping inside a message is not answered.
OnPingIgnored(t, f) ==
    IF f.body = "big" \/ ~f.fin THEN Fails(t, 1002)
    ELSE IF InMessage(t) THEN Continues(t, message[t])
    ELSE /\ out' = IF writable THEN Append(out, [op |-> "pong", code |-> f]) ELSE out
         /\ Returns(t, [kind |-> "ping", frames |-> <<f>>], "header")
         /\ UNCHANGED writable

\* Inside a message the Pong is sent by read_frame, which goes on reading;
\* outside by read, whose error does not close the connection.
OnPing(t, f) ==
    IF f.body = "big" \/ ~f.fin THEN Fails(t, 1002)
    ELSE IF ~writable
      THEN IF InMessage(t) THEN Fails(t, 1011)
           ELSE Returns(t, [kind |-> "error", code |-> 1011], "done")
                /\ UNCHANGED <<out, writable>>
    ELSE /\ out' = Append(out, [op |-> "pong", code |-> f])
         /\ UNCHANGED writable
         /\ IF InMessage(t)
              THEN /\ pc' = [pc EXCEPT ![t] = "header"]
                   /\ UNCHANGED <<message, results>>
              ELSE Returns(t, [kind |-> "ping", frames |-> <<f>>], "header")

OnPong(t, f) ==
    IF InMessage(t) THEN Fails(t, 1002)
    ELSE Returns(t, [kind |-> "pong", frames |-> <<f>>], "header")
         /\ UNCHANGED <<out, writable>>

\* read's answer to a Close: one with the same code, and the shutdown.
AnswersClose(t, f) ==
    /\ Closes(1000)
    /\ \/ Returns(t, [kind |-> "close", frames |-> <<f>>], "done")
       \/ Returns(t, [kind |-> "error", code |-> 1011], "done")

\* handle_close_frame.
OnClose(t, f) ==
    IF f.body \in {"one byte", "big", "bad code"} THEN Fails(t, 1002)
    ELSE IF f.body = "bad reason" THEN Fails(t, 1007)
    ELSE AnswersClose(t, f)

\* The match of read_frame.
OnFrame(t, f) ==
    CASE f.op = "continuation" -> OnContinuation(t, f)
      [] f.op \in Data         -> OnData(t, f)
      [] f.op = "ping"         -> OnPing(t, f)
      [] f.op = "pong"         -> OnPong(t, f)
      [] f.op = "close"        -> OnClose(t, f)
      [] OTHER                 -> Fails(t, 1002)

-----------------------------------------------------------------------------
(* The steps of a reader *)

\* Another task calls read: nothing in the socket keeps it from that.
Begins(t) ==
    /\ pc[t] = "idle"
    /\ pc' = [pc EXCEPT ![t] = "header"]
    /\ UNCHANGED <<stream, sent, ended, frame, message, taken, results, out, writable, torn>>

\* read_header, under the reader lock; the RSV bits are looked at after it.
ReadHeader(t) ==
    /\ pc[t] = "header"
    /\ stream # <<>>
    /\ Head(stream).part = "header"
    /\ stream' = Tail(stream)
    /\ LET f == Head(stream).of IN
       IF f.rsv
         THEN /\ Fails(t, 1002)
              /\ taken' = Append(taken, f)
              /\ UNCHANGED frame
         ELSE /\ frame' = [frame EXCEPT ![t] = f]
              /\ pc' = [pc EXCEPT ![t] = "payload"]
              /\ UNCHANGED <<message, taken, results, out, writable>>
    /\ UNCHANGED <<sent, ended, torn>>

\* Mutated form: read_exact waits for a byte even when the payload is empty.
ReadPayloadWaits(t) ==
    /\ pc[t] = "payload"
    /\ stream # <<>>
    /\ LET f == frame[t] IN
       /\ stream' = IF f.body = "empty" THEN stream ELSE Tail(stream)
       /\ taken' = Append(taken, f)
       /\ IF f.key = "zero" THEN Fails(t, 1002) ELSE OnFrame(t, f)
    /\ frame' = [frame EXCEPT ![t] = Null]
    /\ UNCHANGED <<sent, ended, torn>>

\* read_and_unmask_payload, under the reader lock, and the match on the opcode.
ReadPayload(t) ==
    /\ pc[t] = "payload"
    /\ LET f == frame[t] IN
       /\ f.body # "empty" => stream # <<>> /\ Head(stream) = Payload(f)[1]
       /\ stream' = IF f.body = "empty" THEN stream ELSE Tail(stream)
       /\ taken' = Append(taken, f)
       /\ IF f.key = "zero" THEN Fails(t, 1002) ELSE OnFrame(t, f)
    /\ frame' = [frame EXCEPT ![t] = Null]
    /\ UNCHANGED <<sent, ended, torn>>

\* Mutated form: the end of the stream has an error code of its own.
ReadsEndEof(t) ==
    /\ pc[t] = "header"
    /\ stream = <<>>
    /\ ended
    /\ Fails(t, 10054)
    /\ UNCHANGED <<stream, sent, ended, frame, taken, torn>>

\* Any failed read_exact is a protocol error, also the end of the stream.
ReadsEnd(t) ==
    /\ pc[t] \in {"header", "payload"}
    /\ pc[t] = "payload" => frame[t].body # "empty"
    /\ stream = <<>>
    /\ ended
    /\ Fails(t, 1002)
    /\ frame' = [frame EXCEPT ![t] = Null]
    /\ UNCHANGED <<stream, sent, ended, taken, torn>>

\* Another reader took the other half of the frame: this one takes payload for
\* a header, or a header for payload.  What it makes of them is anybody's guess
\* and not modelled: everything stops here.
ReadTorn(t) ==
    /\ stream # <<>>
    /\ \/ pc[t] = "header" /\ Head(stream).part = "payload"
       \/ pc[t] = "payload" /\ frame[t].body # "empty" /\ Head(stream) # Payload(frame[t])[1]
    /\ torn' = TRUE
    /\ UNCHANGED <<stream, sent, ended, pc, frame, message, taken, results, out, writable>>

Step(t) == ReadHeader(t) \/ ReadPayload(t) \/ ReadsEnd(t) \/ ReadTorn(t)

Next ==
    /\ ~torn
    /\ \/ \E f \in Frames : ClientSends(f)
       \/ ClientEnds
       \/ ClientResets
       \/ \E t \in Readers : Begins(t) \/ Step(t)

Spec == Init /\ [][Next]_vars

\* A reader whose bytes have arrived is woken and polled (tokio).
Fairness == \A t \in Readers : WF_vars(~torn /\ Step(t))

FairSpec == Spec /\ Fairness

-----------------------------------------------------------------------------
(* Properties *)

\* t is the only task that has read from the connection so far.
Alone(t) == \A u \in Readers \ {t} : pc[u] = "idle"

ErrorType  == [kind : {"error"}, code : {1002, 1007, 1011}]
ResultType == [kind : {"text", "binary", "ping", "pong", "close"}, frames : Seq(Frames)]

TypeOK ==
    /\ \A i \in DOMAIN stream : stream[i] \in [part : {"header", "payload"}, of : Frames]
    /\ sent \in 0..MaxFrames
    /\ {ended, writable, torn} \subseteq BOOLEAN
    /\ pc \in [Readers -> {"idle", "header", "payload", "done"}]
    /\ frame \in [Readers -> Frames \cup {Null}]
    /\ \A t \in Readers : pc[t] = "payload" => frame[t] # Null
    /\ message \in [Readers -> Seq(Frames)]
    /\ taken \in Seq(Frames)
    /\ \A i \in DOMAIN results : results[i] \in ErrorType \cup ResultType
    /\ \A i \in DOMAIN out : out[i].op \in {"pong", "close"}

Errors(code) == \E i \in DOMAIN results : results[i] = [kind |-> "error", code |-> code]

(* How the frames of messages may follow each other (RFC 6455, 5.4 and 8.1), *)
(* said about the whole sequence instead of one frame after the other.       *)

Control == {"close", "ping", "pong"}

\* Frame i of s lies inside a fragmented message.
Inside(s, i) ==
    \E j \in 1..(i - 1) :
        /\ s[j].op \in Data /\ ~s[j].fin
        /\ \A k \in (j + 1)..(i - 1) : ~(s[k].op = "continuation" /\ s[k].fin)

DataFrames(s) ==
    FlattenSeq([i \in DOMAIN s |-> IF s[i].op \in Control THEN <<>> ELSE <<s[i]>>])

\* Frame j of s starts the message that data frame i of s belongs to.
Starts(s, j, i) == s[j].op \in Data /\ \A k \in (j + 1)..i : s[k].op \notin Data

\* Only a message that was begun is continued, none begins in another, and a
\* complete text is UTF-8 over all its fragments.
InSequence(s) ==
    \A i \in DOMAIN s :
        /\ s[i].op = "continuation" => Inside(s, i)
        /\ s[i].op \in Data => ~Inside(s, i)
        /\ s[i].op \in Data \cup {"continuation"} /\ s[i].fin =>
              \A j \in 1..i : Starts(s, j, i) =>
                  s[j].op = "binary" \/ Utf8(DataFrames(SubSeq(s, j, i)))

\* A frame that nobody objects to for itself, neither RFC 6455 nor the code.
\* On some the two disagree: a masking key that is zero and Pongs between
\* fragments are refused, Pongs and Closes that are unfinished and Pongs that
\* are too long are not.
Ordinary(f) ==
    /\ ~f.rsv /\ f.key # "zero" /\ f.op # "reserved"
    /\ f.op \in Control => f.fin /\ f.body # "big"
    /\ f.op = "close" => f.body \notin {"one byte", "bad code", "bad reason"}

\* Whatever frames come, one that is out of sequence ends the connection, and
\* nothing is delivered from it on; and ordinary frames never fail it when
\* they are in sequence and have no Pongs between fragments (PongsAreHarmless),
\* whatever other control frames lie between the reads and in the decoder.
SequenceJudged ==
    \A t \in Readers : Alone(t) =>
        /\ ~InSequence(taken) => pc[t] = "done" /\ Last(results).kind = "error"
        /\ /\ ~ended /\ (Errors(1002) \/ Errors(1007))
           /\ \A i \in DOMAIN taken :
                 Ordinary(taken[i]) /\ (taken[i].op = "pong" => ~Inside(taken, i))
           => ~InSequence(taken)

Delivered ==
    FlattenSeq([i \in DOMAIN results |->
                   IF results[i].kind \in Data THEN results[i].frames ELSE <<>>])

\* No data frame is lost, doubled or moved between messages by the control
\* frames around it: what read has returned, with what is still buffered, is
\* what the client sent.
NothingLost ==
    \A t \in Readers : Alone(t) /\ pc[t] # "done" =>
        Delivered \o message[t] = DataFrames(taken)

Pings ==
    FlattenSeq([i \in DOMAIN taken |-> IF taken[i].op = "ping" THEN <<taken[i]>> ELSE <<>>])

Pongs ==
    FlattenSeq([i \in DOMAIN out |-> IF out[i].op = "pong" THEN <<out[i].code>> ELSE <<>>])

\* Every Ping is answered once, in order, inside and outside of messages.
PingsAnswered ==
    \A t \in Readers : Alone(t) /\ pc[t] # "done" => Pings = Pongs

\* Everything the client sends is read, or a reader has come to its end, unless
\* two of them tear a frame apart.
EverythingRead ==
    Len(taken) < sent ~> Len(taken) = sent \/ torn \/ \E t \in Readers : pc[t] = "done"

\* All frame types are supported: a Pong does no harm, also between fragments.
PongsAreHarmless ==
    \A t \in Readers :
        pc[t] = "done" /\ ~ended /\ Errors(1002) =>
            \/ \E i \in DOMAIN taken : ~Ordinary(taken[i])
            \/ ~InSequence(SelectSeq(taken, LAMBDA f : f.op # "pong"))
=============================================================================
