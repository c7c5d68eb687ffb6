---------------------------- MODULE HttpExchange ----------------------------
(***************************************************************************)
(* One connection of the web server: a worker in do_server_request         *)
(* (webserver/request.c, server_thread.c) and its client (client.c), over  *)
(* the robust I/O of module Rio.  The file cache is module FileCache; here *)
(* every file is read from the disk.                                       *)
(*                                                                         *)
(* Text is shortened: a word, a name or a number written in decimal is one *)
(* symbol; line ends, the buffers' bounds and a file's bytes are kept.     *)
(*                                                                         *)
(* Definitions marked "fault" are variants of the next definition with a   *)
(* plausible bug; no specification uses them.                              *)
(***************************************************************************)
EXTENDS Rio, SequencesExt

CONSTANTS
    Server, Client,     \* the ends
    CR,                 \* '\r'
    GET,                \* the method that is served
    TagLength, TagCsum, \* "Content-Length:", "Content-Csum:"
    OK, NotFound, NotImplemented,       \* status lines
    ErrorText,          \* the body of an error reply
    Decimal(_),         \* the text of a number
    Disk,               \* Disk[f]: the bytes of file f
    Missing,            \* the name of no file
    Requests            \* what clients send

Bodies == {ErrorText, <<>>} \cup {Disk[f] : f \in DOMAIN Disk}

VARIABLES srv, cl

httpVars == <<vars, srv, cl>>

Sum(bytes) == SumFunction(bytes)
Blank == <<CR, LF>>

Reply_CountsOne(status, body) ==        \* fault: a size one too small
    <<status, CR, LF, TagLength, Decimal(Len(body) - 1), CR, LF,
      TagCsum, Decimal(Sum(body)), CR, LF>> \o Blank \o body
\* The header lines, a blank line and the body, of request_sendfile; and of
\* request_error below.
Reply(status, body) ==
    <<status, CR, LF, TagLength, Decimal(Len(body)), CR, LF,
      TagCsum, Decimal(Sum(body)), CR, LF>> \o Blank \o body

ErrorReply(status) == Reply(status, ErrorText)

Names == DOMAIN Disk \cup {Missing}

ASSUME EndsNamed == {Server, Client} \subseteq Ends /\ Server # Client /\ Peer[Client] = Server
ASSUME TextIsBytes ==
    /\ Byte \subseteq Nat /\ Requests \cup Bodies \subseteq Seq(Byte)
    /\ {CR, LF, TagLength, TagCsum, OK, NotFound, NotImplemented} \subseteq Byte
    /\ \A body \in Bodies : {Decimal(Len(body)), Decimal(Sum(body))} \subseteq Byte
\* Words and numbers are not ends of lines, and a header line of a reply fits.
ASSUME WordsDiffer ==
    /\ LF \notin {CR, TagLength, TagCsum, OK, GET} \cup DOMAIN Disk
    /\ \A body \in Bodies : LF \notin {Decimal(Len(body)), Decimal(Sum(body))}
    /\ CR # TagLength /\ CR # TagCsum /\ TagLength # TagCsum /\ Missing \notin DOMAIN Disk
    /\ MaxLine >= 4
\* A request ends where its first blank line does.
ASSUME RequestsEnd ==
    \A r \in Requests : \A i \in 1 .. Len(r) - 2 :
        r[i] = LF /\ r[i + 1] = CR /\ r[i + 2] = LF => i + 2 = Len(r)

HttpTypeOK ==
    /\ RioTypeOK
    /\ srv \in [at : {"line", "header", "read", "unread", "reply", "closed", "exited"},
                blank : BOOLEAN, file : Names]
    /\ cl \in [at : {"send", "sent", "first", "head", "body", "done", "exited", "gone"},
               request : Requests \cup {<<>>}, length : Byte, csum : Byte,
               length_received : Nat, csum_received : Nat]

HttpInit ==
    /\ RioInit
    /\ srv = [at |-> "line", blank |-> FALSE, file |-> Missing]
    /\ cl = [at |-> "send", request |-> <<>>, length |-> Decimal(0), csum |-> Decimal(0),
             length_received |-> 0, csum_received |-> 0]

\* A read or a write makes progress.
IO(e) == Take(e) \/ Refill(e) \/ Interrupted(e) \/ Eof(e) \/ ReadFails(e) \/ Write(e)

Answered(e) == rio[e].ret \in {"line", "eof"}
\* unix_error: a call failed, because the peer has gone, and the process exits.
MustExit(e) == rio[e].ret = "error" \/ (unsent[e] # <<>> /\ closed[e])

----------------------------------------------------------------------------
(* The server.                                                             *)

\* request_init: the request line.
ReadLine ==
    /\ srv.at = "line" /\ rio[Server].ret = "none"
    /\ Call(Server)
    /\ UNCHANGED <<srv, cl>>

\* What sscanf finds in the line.  A word that is not there stays
\* uninitialized, and so does the buffer if the client closed at once.
Methods(line) == IF line = <<>> THEN {GET, Missing} ELSE {line[1]}
URIs(line) == IF Len(line) > 1 /\ line[2] \in Names THEN {line[2]} ELSE Names

\* A GET: request_read_headers begins, with its own uninitialized buffer.
AcceptLine ==
    /\ srv.at = "line" /\ Answered(Server)
    /\ GET \in Methods(rio[Server].line)
    /\ \E f \in URIs(rio[Server].line), b \in BOOLEAN :
          srv' = [at |-> "header", blank |-> b, file |-> f]
    /\ Call(Server)
    /\ UNCHANGED cl

\* Anything else is answered without reading on.
RejectLine ==
    /\ srv.at = "line" /\ Answered(Server)
    /\ Methods(rio[Server].line) # {GET}
    /\ srv' = [srv EXCEPT !.at = "reply"]
    /\ BeginWrite(Server, ErrorReply(NotImplemented))
    /\ UNCHANGED cl

\* Whether the buffer now holds the blank line.  At the end of the stream it
\* holds what it held.
SeesBlank_AnyEmpty ==                   \* fault: tests for a lone newline
    rio[Server].ret = "line" /\ rio[Server].line = <<LF>>
SeesBlank ==
    IF rio[Server].ret = "line" THEN rio[Server].line = Blank ELSE srv.blank

NextHeader ==
    /\ srv.at = "header" /\ Answered(Server)
    /\ ~SeesBlank
    /\ srv' = [srv EXCEPT !.blank = FALSE]
    /\ Call(Server)
    /\ UNCHANGED cl

EndHeaders ==
    /\ srv.at = "header" /\ Answered(Server)
    /\ SeesBlank
    /\ srv' = [srv EXCEPT !.at = "read"]
    /\ UNCHANGED <<vars, cl>>

\* request_readfile answers with an error if it cannot; its result is not
\* looked at, and request_sendfile sends an empty file.
ReadFile ==
    /\ srv.at = "read"
    /\ IF srv.file = Missing
       THEN /\ BeginWrite(Server, ErrorReply(NotFound))
            /\ srv' = [srv EXCEPT !.at = "unread"]
       ELSE /\ BeginWrite(Server, Reply(OK, Disk[srv.file]))
            /\ srv' = [srv EXCEPT !.at = "reply"]
    /\ UNCHANGED cl

SendEmpty ==
    /\ srv.at = "unread"
    /\ BeginWrite(Server, Reply(OK, <<>>))
    /\ srv' = [srv EXCEPT !.at = "reply"]
    /\ UNCHANGED cl

\* request_destroy, once the last write is done.
Destroy ==
    /\ srv.at = "reply" /\ unsent[Server] = <<>>
    /\ Close(Server)
    /\ srv' = [srv EXCEPT !.at = "closed"]
    /\ UNCHANGED cl

ServerExits ==
    /\ MustExit(Server)
    /\ Close(Server)
    /\ srv' = [srv EXCEPT !.at = "exited"]
    /\ UNCHANGED cl

ServerStep ==
    /\ srv.at \notin {"closed", "exited"}
    /\ \/ ReadLine \/ AcceptLine \/ RejectLine \/ NextHeader \/ EndHeaders
       \/ ReadFile \/ SendEmpty \/ Destroy \/ ServerExits
       \/ IO(Server) /\ UNCHANGED <<srv, cl>>

----------------------------------------------------------------------------
(* The client.                                                             *)

Send ==
    /\ cl.at = "send"
    /\ \E r \in Requests :
        /\ BeginWrite(Client, r)
        /\ cl' = [cl EXCEPT !.at = "sent", !.request = r]
    /\ UNCHANGED srv

\* client_print: the first line is not searched for tags.
ReadReply ==
    /\ cl.at = "sent" /\ unsent[Client] = <<>>
    /\ Call(Client)
    /\ cl' = [cl EXCEPT !.at = "first"]
    /\ UNCHANGED srv

Tagged(line, tag) == Len(line) > 1 /\ line[1] = tag

WithTags(line) ==
    [cl EXCEPT !.length = IF Tagged(line, TagLength) THEN line[2] ELSE @,
               !.csum = IF Tagged(line, TagCsum) THEN line[2] ELSE @]

\* A header line, or its blank end, or the end of the stream.
ReadHead ==
    /\ cl.at \in {"first", "head"} /\ Answered(Client)
    /\ LET line == rio[Client].line
           next == IF rio[Client].ret = "eof" \/ line = Blank THEN "body" ELSE "head"
       IN cl' = [(IF cl.at = "head" THEN WithTags(line) ELSE cl) EXCEPT !.at = next]
    /\ Call(Client)
    /\ UNCHANGED srv

ReadBody ==
    /\ cl.at = "body" /\ rio[Client].ret = "line"
    /\ cl' = [cl EXCEPT !.length_received = @ + Len(rio[Client].line),
                        !.csum_received = @ + Sum(rio[Client].line)]
    /\ Call(Client)
    /\ UNCHANGED srv

\* The assertions, which ClientServed states, and close.
Finish ==
    /\ cl.at = "body" /\ rio[Client].ret = "eof"
    /\ Close(Client)
    /\ cl' = [cl EXCEPT !.at = "done"]
    /\ UNCHANGED srv

ClientExits ==
    /\ MustExit(Client)
    /\ Close(Client)
    /\ cl' = [cl EXCEPT !.at = "exited"]
    /\ UNCHANGED srv

ClientActive == cl.at \notin {"done", "exited", "gone"}

ClientStep ==
    /\ ClientActive
    /\ \/ Send \/ ReadReply \/ ReadHead \/ ReadBody \/ Finish \/ ClientExits
       \/ IO(Client) /\ UNCHANGED <<srv, cl>>

\* A client may be killed, or be another program that does not wait.
GoesAway ==
    /\ ClientActive
    /\ Close(Client)
    /\ cl' = [cl EXCEPT !.at = "gone"]
    /\ UNCHANGED srv

HttpNext == ServerStep \/ ClientStep \/ GoesAway

\* The processes run, and the network delivers.
HttpSpec ==
    /\ HttpInit /\ [][HttpNext]_httpVars
    /\ WF_httpVars(ServerStep) /\ WF_httpVars(ClientStep)

----------------------------------------------------------------------------
(* Properties.                                                             *)

Asks(f) == IsPrefix(<<GET, f>>, cl.request)

\* No line of the request is longer than the server's buffer.
FitsLines ==
    \A i \in 1 .. Len(cl.request) - MaxLine :
        \E j \in i .. i + MaxLine - 1 : cl.request[j] = LF

\* The assertions of client_print hold for a file that is there, and a client
\* with a request as client.c writes it is never cut off: the server closes
\* only when it has read all of it and the client has been sent everything.
ClientServed ==
    \A f \in DOMAIN Disk : Asks(f) =>
        /\ cl.at = "done" =>
            /\ cl.length = Decimal(Len(Disk[f])) /\ cl.csum = Decimal(Sum(Disk[f]))
            /\ cl.length_received = Len(Disk[f])
            /\ cl.csum_received = Sum(Disk[f])
        /\ FitsLines => cl.at # "exited"

\* The client has sent the end of its headers.
HeadersSent ==
    \E i \in 1 .. Len(stream[Server]) - 3 :
        SubSeq(stream[Server], i, i + 3) = Blank \o Blank

\* A worker whose client has sent a whole request comes back (or its process
\* exits), whatever the client does then, and a client that waits gets its reply.  (Without the
\* blank line a client that closes keeps the worker in request_read_headers.)
RequestServed ==
    HeadersSent ~> srv.at \in {"closed", "exited"} /\ ~ClientActive
=============================================================================
