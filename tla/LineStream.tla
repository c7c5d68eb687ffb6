----------------------------- MODULE LineStream -----------------------------
(***************************************************************************)
(* What a reader of lines promises its caller, at each end of a            *)
(* connection: every call is answered with the next bytes of the stream,   *)
(* none lost and none twice, up to and with the first newline, or MaxLine  *)
(* of them, or all that is left when the peer has closed; and with the end *)
(* of the stream only at its end.  How the bytes came in is not to be      *)
(* seen.  Rio implements it.                                               *)
(***************************************************************************)
EXTENDS Integers, Sequences

CONSTANTS Ends, MaxLine, LF

VARIABLES
    stream,     \* stream[e]: the bytes sent to end e so far
    closed,     \* closed[e]: no more will be sent to it
    pos,        \* pos[e]: how many of them its caller was given
    answer      \* answer[e]: the last call's answer, or that it has none yet

vars == <<stream, closed, pos, answer>>

\* r is "none", "busy", "line", "eof" or "error".
Answer(r, l) == [ret |-> r, line |-> l]

\* The next n bytes are the answer to a call.
IsNextLine(e, n) ==
    /\ pos[e] + n <= Len(stream[e])
    /\ \A i \in 1 .. n - 1 : stream[e][pos[e] + i] # LF
    /\ \/ stream[e][pos[e] + n] = LF
       \/ n = MaxLine
       \/ closed[e] /\ pos[e] + n = Len(stream[e])

Init ==
    /\ stream = [e \in Ends |-> <<>>]
    /\ closed = [e \in Ends |-> FALSE]
    /\ pos = [e \in Ends |-> 0]
    /\ answer = [e \in Ends |-> Answer("none", <<>>)]

Ask(e) ==
    /\ answer[e].ret \notin {"busy", "error"}
    /\ answer' = [answer EXCEPT ![e] = Answer("busy", <<>>)]
    /\ UNCHANGED <<stream, closed, pos>>

Deliver(e) ==
    /\ answer[e].ret = "busy"
    /\ \E n \in 1 .. MaxLine :
        /\ IsNextLine(e, n)
        /\ pos' = [pos EXCEPT ![e] = @ + n]
        /\ answer' = [answer EXCEPT ![e] =
                Answer("line", SubSeq(stream[e], pos[e] + 1, pos[e] + n))]
    /\ UNCHANGED <<stream, closed>>

End(e) ==
    /\ answer[e].ret = "busy"
    /\ closed[e] /\ pos[e] = Len(stream[e])
    /\ answer' = [answer EXCEPT ![e] = Answer("eof", <<>>)]
    /\ UNCHANGED <<stream, closed, pos>>

\* The connection is broken, and the process gives up.
Fail(e) ==
    /\ answer[e].ret = "busy"
    /\ answer' = [answer EXCEPT ![e] = Answer("error", <<>>)]
    /\ UNCHANGED <<stream, closed, pos>>

\* A peer sends, or closes; nothing is sent after that.
Environment ==
    /\ \A e \in Ends :
        /\ \/ stream'[e] = stream[e]
           \/ /\ ~closed[e] /\ Len(stream[e]) < Len(stream'[e])
              /\ SubSeq(stream'[e], 1, Len(stream[e])) = stream[e]
        /\ closed[e] => closed'[e]
    /\ UNCHANGED <<pos, answer>>

Next ==
    \/ \E e \in Ends : Ask(e) \/ Deliver(e) \/ End(e) \/ Fail(e)
    \/ Environment

Spec == Init /\ [][Next]_vars
=============================================================================
