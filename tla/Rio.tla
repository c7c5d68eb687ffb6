-------------------------------- MODULE Rio --------------------------------
(***************************************************************************)
(* The robust I/O of webserver/common.c at the two ends of a connection:   *)
(* reading by lines through a buffer (rio_readlineb, rio_readb) and        *)
(* writing everything (rio_write).  read() and write() transfer as many    *)
(* bytes as they like, and may be interrupted.  Each end is one process,   *)
(* in one call at a time.                                                  *)
(*                                                                         *)
(* Definitions marked "fault" are variants of the next definition with a   *)
(* plausible bug; no specification uses them.                              *)
(***************************************************************************)
EXTENDS Integers, Sequences

CONSTANTS
    Ends, Peer,     \* the ends of connections; Peer[e]: the end opposite to e
    Byte, LF,       \* the bytes; '\n'
    BufSize,        \* RIO_BUFSIZE
    MaxLine         \* maxlen; MAXLINE and MAXBUF are equal

ASSUME EndsAssumption == Peer \in [Ends -> Ends] /\ \A e \in Ends : Peer[Peer[e]] = e
ASSUME SizesAssumption == BufSize \in Nat \ {0} /\ MaxLine \in Nat \ {0}

VARIABLES
    stream,     \* stream[e]: the bytes sent to end e so far
    closed,     \* closed[e]: the peer has closed, no more will be sent
    taken,      \* taken[e]: how many of them read() has delivered
    rio,        \* rio[e]: struct rio (the bytes of rio_buf, the index
                \*    rio_bufptr and rio_cnt), usrbuf so far and the result
    unsent      \* unsent[e]: what rio_write has still to write

vars == <<stream, closed, taken, rio, unsent>>

Results == {"none", "busy", "line", "eof", "error"}

Reader == [buf : Seq(Byte), ptr : Nat, cnt : Int, line : Seq(Byte), ret : Results]

RioTypeOK ==
    /\ stream \in [Ends -> Seq(Byte)]
    /\ closed \in [Ends -> BOOLEAN]
    /\ taken \in [Ends -> Nat]
    /\ rio \in [Ends -> Reader]
    /\ unsent \in [Ends -> Seq(Byte)]

\* Rio_init, on a new connection.
RioInit ==
    /\ stream = [e \in Ends |-> <<>>]
    /\ closed = [e \in Ends |-> FALSE]
    /\ taken = [e \in Ends |-> 0]
    /\ rio = [e \in Ends |-> [buf |-> <<>>, ptr |-> 1, cnt |-> 0,
                              line |-> <<>>, ret |-> "none"]]
    /\ unsent = [e \in Ends |-> <<>>]

----------------------------------------------------------------------------
(* Reading.                                                                *)

\* Rio_readlineb is called; Rio_readlineb exits after an error.
Call(e) ==
    /\ rio[e].ret \notin {"busy", "error"}
    /\ rio' = [rio EXCEPT ![e].line = <<>>, ![e].ret = "busy"]
    /\ UNCHANGED <<stream, closed, taken, unsent>>

Reading(e) == rio[e].ret = "busy"

\* The loop ends with c as the byte after n others.
LineEnds_OneMore(n, c) == c = LF \/ n = MaxLine     \* fault: n <= maxlen
LineEnds(n, c) == c = LF \/ n + 1 = MaxLine

\* rio_readb from a buffer that is not empty.
Take(e) ==
    /\ Reading(e) /\ rio[e].cnt > 0
    /\ LET c == rio[e].buf[rio[e].ptr] IN
       rio' = [rio EXCEPT ![e].ptr = @ + 1, ![e].cnt = @ - 1,
                          ![e].line = Append(@, c),
                          ![e].ret = IF LineEnds(Len(rio[e].line), c)
                                     THEN "line" ELSE "busy"]
    /\ UNCHANGED <<stream, closed, taken, unsent>>

\* A read() for a buffer that is empty.
Reads(e) == Reading(e) /\ rio[e].cnt <= 0

Refilled_KeepsPtr(r, bytes) ==                      \* fault: ptr is not reset
    [r EXCEPT !.buf = bytes, !.cnt = Len(bytes)]
Refilled(r, bytes) == [r EXCEPT !.buf = bytes, !.cnt = Len(bytes), !.ptr = 1]

Refill(e) ==
    /\ Reads(e)
    /\ \E k \in 1 .. BufSize :
        /\ taken[e] + k <= Len(stream[e])
        /\ rio' = [rio EXCEPT ![e] =
                Refilled(@, SubSeq(stream[e], taken[e] + 1, taken[e] + k))]
        /\ taken' = [taken EXCEPT ![e] = @ + k]
    /\ UNCHANGED <<stream, closed, unsent>>

\* EINTR: read() is called again.
Interrupted(e) ==
    /\ Reads(e)
    /\ rio' = [rio EXCEPT ![e].cnt = -1]
    /\ UNCHANGED <<stream, closed, taken, unsent>>

\* read() returns 0.
AtEof_Forgets(line) == "eof"                        \* fault: whatever was read
AtEof(line) == IF line = <<>> THEN "eof" ELSE "line"

Eof(e) ==
    /\ Reads(e)
    /\ closed[e] /\ taken[e] = Len(stream[e])
    /\ rio' = [rio EXCEPT ![e].cnt = 0, ![e].ret = AtEof(rio[e].line)]
    /\ UNCHANGED <<stream, closed, taken, unsent>>

\* The peer closed without having read what it was sent: the connection is
\* reset.
IsReset(e) == closed[e] /\ taken[Peer[e]] < Len(stream[Peer[e]])

\* read() fails; Rio_readlineb calls unix_error.
ReadFails(e) ==
    /\ Reads(e) /\ IsReset(e)
    /\ rio' = [rio EXCEPT ![e].cnt = -1, ![e].ret = "error"]
    /\ UNCHANGED <<stream, closed, taken, unsent>>

----------------------------------------------------------------------------
(* Writing.  An interrupted write() is repeated and changes nothing.       *)

BeginWrite(e, bytes) ==
    /\ unsent[e] = <<>>
    /\ unsent' = [unsent EXCEPT ![e] = bytes]
    /\ UNCHANGED <<stream, closed, taken, rio>>

\* What is left once write() has taken k bytes.
Left_All(e, k) == <<>>                              \* fault: not repeated
Left(e, k) == SubSeq(unsent[e], k + 1, Len(unsent[e]))

Write(e) ==
    /\ ~closed[Peer[e]]
    /\ \E k \in 1 .. Len(unsent[e]) :
        /\ stream' = [stream EXCEPT ![Peer[e]] = @ \o SubSeq(unsent[e], 1, k)]
        /\ unsent' = [unsent EXCEPT ![e] = Left(e, k)]
    /\ UNCHANGED <<closed, taken, rio>>

\* The end is closed, by close() or by the end of its process.
Close(e) ==
    /\ closed' = [closed EXCEPT ![Peer[e]] = TRUE]
    /\ unsent' = [unsent EXCEPT ![e] = <<>>]
    /\ UNCHANGED <<stream, taken, rio>>

----------------------------------------------------------------------------
\* A step of the connection, for the processes at its ends to take.
RioNext ==
    \E e \in Ends :
        \/ Call(e) \/ Take(e) \/ Refill(e) \/ Interrupted(e) \/ Eof(e) \/ ReadFails(e)
        \/ (\E bytes \in Seq(Byte) : BeginWrite(e, bytes)) \/ Write(e) \/ Close(e)

RioSpec == RioInit /\ [][RioNext]_vars

----------------------------------------------------------------------------
(* Properties.                                                             *)

\* How many bytes of the buffer are unread.
Unread(r) == IF r.cnt > 0 THEN r.cnt ELSE 0
\* How many bytes the caller has been given, when read() has delivered t.
Given(t, r) ==
    t - Unread(r) - (IF r.ret \in {"busy", "error"} THEN Len(r.line) ELSE 0)

\* What is unread is in the buffer, and is what read() delivered last of s, and
\* a line under way is what came before it.
InOrder(s, t, r) ==
    /\ t <= Len(s)
    /\ Unread(r) > 0 => r.ptr \in 1 .. Len(r.buf) /\ r.ptr + Unread(r) - 1 <= Len(r.buf)
    /\ \A i \in 1 .. Unread(r) : r.buf[r.ptr + i - 1] = s[t - Unread(r) + i]
    /\ r.ret = "busy" => \A i \in 1 .. Len(r.line) : r.line[i] = s[Given(t, r) + i]

\* Nothing is lost, repeated or reordered on the way from the peer through
\* read() and rio_buf to the line, however the reads fall.
Conserved == \A e \in Ends : InOrder(stream[e], taken[e], rio[e])

\* What a reader's caller has been answered.
AnswerOf(r) == [ret |-> r.ret, line |-> IF r.ret = "line" THEN r.line ELSE <<>>]

Position == [e \in Ends |-> Given(taken[e], rio[e])]
Answers == [e \in Ends |-> AnswerOf(rio[e])]

\* The reader of lines implements its promise.
Lines == INSTANCE LineStream WITH pos <- Position, answer <- Answers

ImplementsLineStream == Lines!Spec
=============================================================================
