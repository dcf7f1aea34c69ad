---------------------------- MODULE HttpReceive ----------------------------
(***************************************************************************)
(* The HTTP service that receives requests from one connection, a          *)
(* coroutine that is suspended whenever the socket has no more to read:    *)
(* src/src/lucy/net/http/httpd_receive_service.c and http_socket_util.c.   *)
(*                                                                         *)
(* A client sends a stream of characters, a few at a time.  The socket is  *)
(* watched with edge triggered events, which the master collects in the    *)
(* service's event mask and a worker handles.  A step of the worker is a   *)
(* mask that it takes, a turn of one of the loops that read, or what it    *)
(* does when the coroutine comes back; the client and the master go on     *)
(* between any two of them.                                                *)
(***************************************************************************)
EXTENDS StringMatch, Coroutine

CONSTANTS
    Streams,      \* what a client may send
    LineLength,   \* L_HTTP_ESTIMATED_LINE_LENGTH
    RxLimit,      \* rx_limit
    BodyLength,   \* the number in a Content-Length header
    MaxConns,     \* bound: connections, one after the other
    MaxPlain      \* bound: services without a coroutine that are closed

\* Characters.  A line is named by its first: "g", "o" and "v" are GET requests
\* of HTTP/1.1, of HTTP/1.0 and without a version, "p" a POST request of
\* HTTP/1.1, "c" a Content-Length and "k" a Transfer-Encoding header.
CR == "\r"
LF == "\n"
ReqLines == {"g", "o", "v", "p"}

\* l_stringmap_newline: a separator of several bytes is "u", "v".
Newlines ==
    [strings |-> << <<LF, CR>>, <<CR, LF>>, <<LF>>, <<CR>>, <<"u", "v">> >>,
     cased |-> TRUE]

ASSUME HttpAssumption ==
    /\ Streams \subseteq Seq(STRING)
    /\ LineLength \in Nat \ {0, 1} /\ RxLimit \in Nat /\ BodyLength \in Nat

VARIABLES
    stream,   \* what the client sends
    sent,     \* how much of it
    line,     \* "open", "half" (the client shut down), "reset"
    watched,  \* the service's event is set: epoll reports of the socket
    edge,     \* events that epoll has to report
    evmk,     \* the mask of the service
    conn,     \* the service: "none", "open", "closed"
    stage,    \* ssrx->stage
    run,      \* the coroutine as it runs: its function and what the last read of
              \* the socket asked for and got, of the locals of the loops that read
    rd,       \* the buffer and the positions of l_http_read_common, the request
    c, reg,   \* the coroutine and the registry
    answers,  \* responses written so far
    requests, \* requests read so far
    held,     \* places in the registry of services that nothing reaches any more
    conns, plain  \* counters

client == <<stream, sent, line, watched>>
counts == <<held, conns, plain>>
server == <<stage, run, rd, c, reg, answers, requests, counts>>
vars == <<client, edge, evmk, conn, server>>

RdReq == 1    \* L_HTTP_RDREQ_STAGE
WrRes == 2    \* L_HTTP_WRRES_STAGE

\* A new connection: nothing is read.  lines counts the lines that were read,
\* halved says that a line end was taken before its second character came.
NothingRead ==
    [buf |-> <<>>, lstart |-> 0, lnewline |-> 0, lend |-> 0, mstart |-> 0, body |-> 0,
     method |-> "", bodylen |-> 0, chunked |-> FALSE, lines |-> 0, halved |-> FALSE]

Functions == {"read_request", "read_headers", "read_body", "write_response"}

\* No event is handled, and a function that begins.
Idle == [at |-> "", count |-> 0, n |-> 0]
Enters(f) == [at |-> f, count |-> 0, n |-> 0]

-----------------------------------------------------------------------------
(* The client and the kernel.                                              *)

\* Events become ready, which epoll keeps if it knows of the socket.
Raise(events) == edge' = IF watched THEN edge \union events ELSE edge

Send ==
    /\ conn = "open" /\ line = "open"
    /\ sent < Len(stream)
    /\ sent' = sent + 1
    /\ Raise({"READ"})
    /\ UNCHANGED <<stream, line, watched, evmk, conn, server>>

\* The client shuts the connection down, or resets it.
HangUp(how) ==
    /\ conn = "open" /\ line = "open"
    /\ line' = how
    /\ Raise(IF how = "half" THEN {"READ", "RDH"} ELSE {"READ", "RDH", "HUP"})
    /\ UNCHANGED <<stream, sent, watched, evmk, conn, server>>

\* The master collects what epoll reports.
Collect ==
    /\ conn = "open" /\ edge # {}
    /\ evmk' = evmk \union edge
    /\ edge' = {}
    /\ UNCHANGED <<client, conn, server>>

-----------------------------------------------------------------------------
(* The service and its events.                                             *)

\* l_httpd_receive_conn, with memory in which no flag is set: the service, whose
\* coroutine begins to read.  set says whether l_service_setEvent takes the
\* socket.  Its test, flagw | L_SERVICE_STARTED, refuses every service; one that
\* were not refused would first be told that the socket can be written.  A service
\* that was refused is told nothing and stays: the next connection leaves it
\* behind, with the place of its coroutine.
Connect(s, set) ==
    /\ conn # "open" \/ ~watched
    /\ conns < MaxConns
    /\ conns' = conns + 1
    /\ held' = IF conn = "open" THEN held \union {c.ref} ELSE held
    /\ stream' = s /\ sent' = 0 /\ line' = "open"
    /\ watched' = set
    /\ edge' = (IF set THEN {"WRITE"} ELSE {}) /\ evmk' = {}
    /\ conn' = "open"
    /\ stage' = 0
    /\ run' = Idle
    /\ rd' = NothingRead
    /\ c' = SetResume(Zeroed, reg, "read_request")
    /\ reg' = Referred(reg)
    /\ answers' = 0 /\ requests' = 0
    /\ UNCHANGED plain

\* The same with a buffer that is not cleared and says L_SERVICE_CLOSING: that of
\* a closed receiving service, or of a connection message, whose address lies over
\* flagw.  The worker drops every message to the service, so that nothing else of
\* what it inherits is looked at and its coroutine is never freed.
ConnectClosing ==
    /\ conns < MaxConns
    /\ conns' = conns + 1
    /\ held' = held \union {NextRef(reg)}
    /\ reg' = Referred(reg)
    /\ UNCHANGED <<client, edge, evmk, conn, stage, run, rd, c, answers, requests, plain>>

\* l_service_close, and what the worker does with a service that is closing.
Close ==
    /\ conn' = "closed"
    /\ run' = Idle
    /\ reg' = FreeState(c, reg)
    /\ c' = [c EXCEPT !.ref = NoRef, !.status = "none"]

\* A worker takes the mask.
Take ==
    /\ conn = "open" /\ run.at = "" /\ evmk # {}
    /\ evmk' = {}
    /\ UNCHANGED <<client, edge, counts>>

HandleGone ==
    /\ Take
    /\ evmk \intersect {"ERR", "HUP", "RDH"} # {}
    /\ Close
    /\ UNCHANGED <<stage, rd, answers, requests>>

\* Seeded fault: only a mask of one event is looked at.
OnlyReadable(masks) == masks = {"READ"}

Readable(masks) == "READ" \in masks

\* Nothing to read.
HandleOther ==
    /\ Take
    /\ evmk \intersect {"ERR", "HUP", "RDH"} = {} /\ ~Readable(evmk)
    /\ UNCHANGED <<conn, server>>

\* What l_http_read_line and l_http_read_length begin with: "move forward to last
\* line end".
Forward(r) == [r EXCEPT !.lstart = r.lend]

\* The coroutine is resumed.
HandleReadable ==
    /\ Take
    /\ evmk \intersect {"ERR", "HUP", "RDH"} = {} /\ Readable(evmk)
    /\ run' = Enters(Resumes(c))
    /\ c' = Resumed(c)
    /\ rd' = IF Resumes(c) = "write_response" THEN rd ELSE Forward(rd)
    /\ UNCHANGED <<conn, stage, reg, answers, requests>>

-----------------------------------------------------------------------------
(* The coroutine, until it returns or yields to the handler.               *)

\* Seeded fault: a coroutine that yields is taken for finished.
FinishedAlways(out) == out # "error"

Finished(out) == out = "done"

\* The coroutine has come back to l_httpd_receive_service_proc, as co, with an
\* error, suspended or done.  When a request was read the response is written at
\* once, by the same coroutine, which is set to l_httpd_write_response from then
\* on; when it is written the connection goes on unless the request is of an old
\* version.
Back(out, co) ==
    /\ IF out = "error" \/ (Finished(out) /\ stage = WrRes /\ rd.method \in {"o", "v"})
       THEN Close
       ELSE /\ c' = IF Finished(out) /\ stage # WrRes
                    THEN SetResume(co, reg, "write_response") ELSE co
            /\ run' = IF Finished(out) /\ stage # WrRes
                      THEN Enters("write_response") ELSE Idle
            /\ UNCHANGED <<conn, reg>>
    /\ stage' = IF ~Finished(out) THEN stage ELSE IF stage = WrRes THEN RdReq ELSE WrRes
    /\ requests' = requests + (IF Finished(out) /\ run.at # "write_response" THEN 1 ELSE 0)

\* What no step of the coroutine touches.
Meanwhile == UNCHANGED <<client, edge, evmk, counts>>

\* l_socket_read of count characters, behind what is in the buffer of r: as many
\* as have come.
ReadSocket(r, count) ==
    LET buf == SubSeq(stream, 1, Min({Len(r.buf) + count, sent}))
    IN  /\ rd' = [r EXCEPT !.buf = buf]
        /\ run' = [run EXCEPT !.count = count, !.n = Len(buf) - Len(r.buf)]
        /\ UNCHANGED <<conn, stage, c, reg, requests>>

\* Seeded fault: one read is enough.
ReadOnce(count, n) == count > 0

\* "last time socket read indicates there is no more data".
NoMoreData(count, n) == count > 0 /\ n < count

\* Seeded fault: the search for a line end goes on behind what was searched.
BehindAll(r, f) == Len(r.buf)

SearchFrom(r, f) == f.at

\* The first character of a two character line end is taken for a whole one,
\* since the second has not come.
Halves(r, end) ==
    /\ end = Len(r.buf) /\ end < Len(stream)
    /\ <<r.buf[end], stream[end + 1]>> \in {<<CR, LF>>, <<LF, CR>>}

\* The search of l_http_read_line.
LineFound == MatchUntil(Newlines, rd.buf, rd.mstart)

\* A line has ended, as the search f says.
AfterLine(f) ==
    [rd EXCEPT !.lnewline = f.at, !.lend = f.end, !.mstart = f.end,
               !.lines = @ + 1, !.halved = @ \/ Halves(rd, f.end)]

\* The line that was read, without its end.
Line(r) == SubSeq(r.buf, r.lstart + 1, r.lnewline)

\* l_http_read_line: the line has not ended.
ReadLine(f) ==
    LET r == [rd EXCEPT !.mstart = SearchFrom(rd, f)]
        waits == NoMoreData(run.count, run.n)
        fails == Len(rd.buf) + LineLength > RxLimit \/ line = "reset"
    IN  /\ run.at \in {"read_request", "read_headers"} /\ f.end = 0
        /\ \/ waits /\ Back("yield", Yielded(c, run.at)) /\ rd' = r
           \/ ~waits /\ fails /\ Back("error", c) /\ rd' = r
           \/ ~waits /\ ~fails /\ ReadSocket(r, LineLength - 1)
        /\ Meanwhile /\ UNCHANGED answers

\* l_httpd_read_request has a line.  A request without a version has no headers.
ReadRequest(f) ==
    LET r == AfterLine(f)
        method == Line(r)[1]
        named == Line(r) # <<>> /\ method \in ReqLines
    IN  /\ run.at = "read_request" /\ f.end # 0
        /\ \/ ~named /\ Back("error", c) /\ rd' = r
           \/ /\ named /\ method = "v"
              /\ Back("done", c) /\ rd' = [r EXCEPT !.method = method]
           \/ /\ named /\ method # "v"
              /\ rd' = Forward([r EXCEPT !.method = method])
              /\ run' = Enters("read_headers")
              /\ UNCHANGED <<conn, stage, c, reg, requests>>
        /\ Meanwhile /\ UNCHANGED answers

\* l_httpd_read_headers has a line, which is a header if it is not empty.
ReadHeader(f) ==
    LET r == AfterLine(f)
        name == Line(r)[1]
    IN  /\ run.at = "read_headers" /\ f.end # 0 /\ Line(r) # <<>>
        /\ rd' = Forward([r EXCEPT !.bodylen = IF name = "c" THEN BodyLength ELSE @,
                                   !.chunked = @ \/ name = "k"])
        /\ run' = Enters("read_headers")
        /\ UNCHANGED <<conn, stage, c, reg, requests, answers>>
        /\ Meanwhile

\* An empty line ends the headers.  Only a POST request has a body, and
\* l_http_read_chunked_body reads none.
EndHeaders(f) ==
    LET r == IF rd.method = "p" THEN [AfterLine(f) EXCEPT !.body = f.end]
         ELSE AfterLine(f)
        empty == rd.method # "p" \/ rd.chunked \/ rd.bodylen = 0
    IN  /\ run.at = "read_headers" /\ f.end # 0 /\ Line(r) = <<>>
        /\ \/ empty /\ Back("done", c) /\ rd' = r
           \/ /\ ~empty /\ rd' = Forward(r) /\ run' = Enters("read_body")
              /\ UNCHANGED <<conn, stage, c, reg, requests>>
        /\ Meanwhile /\ UNCHANGED answers

\* Seeded fault: a body that is not longer than the headers is taken for come.
BodyBehind(r) == Len(r.buf) >= r.bodylen

BodyCame(r) == Len(r.buf) - r.lstart >= r.bodylen

\* l_http_read_body, with the loop of l_http_read_length.
ReadBody ==
    LET behind == rd.lstart + rd.bodylen
        waits == NoMoreData(run.count, run.n)
        fails == behind + 1 > RxLimit \/ line = "reset"
    IN  /\ run.at = "read_body"
        /\ \/ BodyCame(rd) /\ Back("done", c) /\ rd' = [rd EXCEPT !.lend = behind]
           \/ /\ ~BodyCame(rd)
              /\ \/ waits /\ Back("yield", Yielded(c, "read_body")) /\ rd' = rd
                 \/ ~waits /\ fails /\ Back("error", c) /\ rd' = rd
                 \/ ~waits /\ ~fails /\ ReadSocket(rd, behind - Len(rd.buf))
        /\ Meanwhile /\ UNCHANGED answers

\* l_httpd_write_response has an empty body: the value it returns is any.
WriteResponse ==
    /\ run.at = "write_response"
    /\ \E out \in {"done", "error"} : Back(out, c)
    /\ answers' = answers + 1
    /\ Meanwhile /\ UNCHANGED rd

\* A service that has no coroutine, such as the one that listens, is closed.
ClosePlain ==
    /\ plain < MaxPlain
    /\ plain' = plain + 1
    /\ reg' = FreeState(Zeroed, reg)
    /\ UNCHANGED <<client, edge, evmk, conn, stage, run, rd, c, answers, requests, held, conns>>

-----------------------------------------------------------------------------
Init ==
    /\ stream = <<>> /\ sent = 0 /\ line = "open" /\ watched = FALSE
    /\ edge = {} /\ evmk = {}
    /\ conn = "none"
    /\ stage = 0 /\ run = Idle
    /\ rd = NothingRead
    /\ c = Zeroed /\ reg = EmptyRegistry
    /\ answers = 0 /\ requests = 0
    /\ held = {} /\ conns = 0 /\ plain = 0

\* The worker's part: a mask that it takes, and what follows of it.
Handle ==
    \/ HandleGone \/ HandleOther \/ HandleReadable
    \/ LET f == LineFound IN ReadLine(f) \/ ReadRequest(f) \/ ReadHeader(f) \/ EndHeaders(f)
    \/ ReadBody \/ WriteResponse

Next ==
    \/ Send
    \/ HangUp("half") \/ HangUp("reset")
    \/ \E s \in Streams, set \in BOOLEAN : Connect(s, set)
    \/ ConnectClosing
    \/ Collect
    \/ Handle
    \/ ClosePlain

Spec == Init /\ [][Next]_vars

\* The worker has something to do, and does it: the mask of an open connection is
\* emptied by Handle and no other action, and run, rd and stage are changed by no
\* other while the coroutine runs.
CanHandle == conn = "open" /\ (run.at # "" \/ evmk # {})
Handles ==
    IF run.at = "" THEN conn = "open" /\ evmk # {} /\ evmk' = {}
    ELSE <<run, rd, stage>>' # <<run, rd, stage>>

\* The master and the worker go on; the client need not.  The second conjunct is
\* WF_vars(Handle) with its ENABLED and its steps spelled out, which spares TLC
\* the search for line ends.
FairSpec ==
    /\ Spec /\ WF_vars(Collect)
    /\ []<>~CanHandle \/ []<><<Handles>>_vars

-----------------------------------------------------------------------------
(* Properties.                                                             *)

\* The types of the variables, and the order of the positions of the reader.
TypeOK ==
    /\ stream \in Streams \union {<<>>} /\ sent \in 0..Len(stream)
    /\ line \in {"open", "half", "reset"} /\ watched \in BOOLEAN
    /\ edge \subseteq {"READ", "WRITE", "RDH", "HUP"}
    /\ evmk \subseteq {"READ", "WRITE", "RDH", "HUP"}
    /\ conn \in {"none", "open", "closed"}
    /\ stage \in {0, RdReq, WrRes}
    /\ run.at \in Functions \union {""} /\ run.count \in Nat /\ run.n \in 0..run.count
    /\ rd.buf \in Seq(STRING) /\ rd.method \in ReqLines \union {""}
    /\ rd.lstart \in 0..rd.lend /\ rd.lnewline \in 0..rd.lend
    /\ rd.lend \in 0..Len(rd.buf) /\ rd.mstart \in 0..Len(rd.buf)
    /\ rd.body = 0 => rd.lend <= rd.mstart
    /\ rd.body \in 0..rd.lend /\ rd.bodylen \in {0, BodyLength}
    /\ rd.chunked \in BOOLEAN /\ rd.halved \in BOOLEAN /\ rd.lines \in Nat
    /\ c.ref \in Nat \union {NoRef} /\ c.status \in {"none", "ok", "yield"}
    /\ c.func \in Functions \union {""} /\ c.kfunc \in Functions \union {""}
    /\ c.misused \in BOOLEAN
    /\ reg.free \in Seq(Nat) /\ reg.top \in Nat /\ held \subseteq Nat
    /\ answers \in Nat /\ requests \in {0, 1}

\* The end of the line that begins at n: the longest line end that comes first.
EndOfLine(s, n) ==
    LET ends(i) == {k \in DOMAIN Newlines.strings : IsPrefix(Newlines.strings[k], From(s, i))}
        at == {i \in n..Len(s) : ends(i) # {}}
    IN  IF at = {} THEN Len(s) + 1
        ELSE Min(at) + Max({Len(Newlines.strings[k]) : k \in ends(Min(at))})

\* The ends of the lines of a stream.
LineEnds(s) ==
    LET end[i \in 0..Len(s)] ==
          IF i = 0 THEN {0}
          ELSE LET e == end[i - 1]
               IN  e \union {EndOfLine(s, n) : n \in {m \in e : m < Len(s)}}
    IN  end[Len(s)]

Begin(s, n) == Max({m \in LineEnds(s) : m < n})

\* The empty line that ends the headers.
IsBlank(s, n) ==
    LET b == Begin(s, n) IN
      b > 0 /\ \E k \in DOMAIN Newlines.strings :
                 Newlines.strings[k] = SubSeq(s, b + 1, n)

\* Where a request ends: its first line, its headers, or its body.
RequestEnd(s) ==
    LET blank == {n \in LineEnds(s) \ {0} : n <= Len(s) /\ IsBlank(s, n)}
        header(n) == s[Begin(s, n) + 1]
        headers == {header(n) : n \in {m \in LineEnds(s) \ {0} : blank # {} /\ m < Min(blank)}}
    IN  IF s # <<>> /\ s[1] = "v" THEN EndOfLine(s, 0)
        ELSE IF blank = {} THEN Len(s) + 1
        ELSE IF s[1] = "p" /\ "c" \in headers /\ "k" \notin headers
             THEN Min(blank) + BodyLength
        ELSE Min(blank)

\* Both, of the streams there are.
EndsOf == [s \in Streams \union {<<>>} |-> LineEnds(s)]
RequestEndOf == [s \in Streams \union {<<>>} |-> RequestEnd(s)]

\* However the stream is cut into pieces, lines are read from each line end to
\* the next, none left out, unless the two characters of one came apart, and the
\* body follows them; the positions of the reader keep their types and their
\* order.
LinesRead ==
    /\ TypeOK
    /\ rd.buf = SubSeq(stream, 1, Len(rd.buf)) /\ Len(rd.buf) <= sent
    /\ ~rd.halved =>
         LET last == IF rd.body = 0 THEN rd.lend ELSE rd.body IN
           /\ last \in EndsOf[stream]
           /\ rd.lines = Cardinality(EndsOf[stream] \intersect 1..last)
           /\ rd.lend \in {last, RequestEndOf[stream]}

\* A response is written after the whole request has come, with its body.
AnsweredComplete ==
    answers > 0 /\ ~rd.halved => Len(rd.buf) >= RequestEndOf[stream]

\* A suspended coroutine has read everything that epoll will not report any
\* more, though events are edge triggered: it is not left waiting for
\* characters that are there.
Drained ==
    conn = "open" /\ c.status = "yield" /\ edge = {} /\ evmk = {} => Len(rd.buf) = sent

\* "lua_State is not in LUA_OK status" is never said: the function of the
\* coroutine is only set when it is not suspended.
NeverMisused == ~c.misused

\* The places of the coroutines there are.
Taken == held \union ({c.ref} \ {0, NoRef})

\* No two coroutines have the same place of the registry, and none has a place that
\* is reserved or can be given out, even if services without a coroutine give
\* back place 0.  While none of these was closed no place is lost either: each is
\* that of a coroutine or can be given out again.
RefsKept ==
    /\ c.ref \notin held /\ IsInjective(reg.free) /\ ToSet(reg.free) \intersect Taken = {}
    /\ ToSet(reg.free) \union Taken \subseteq LastReserved + 1..reg.top
    /\ plain = 0 => LastReserved + 1..reg.top = ToSet(reg.free) \union Taken

\* A request that has come as a whole is answered, or the connection closed, by a
\* service whose event is set and whose memory was clean.
Answered ==
    conn = "open" /\ watched /\ answers = 0 /\ sent >= RequestEndOf[stream]
      ~> answers > 0 \/ conn # "open"

\* "current request handled finished, prepare for next request or disconnect":
\* a response is written for each request that was read, and for no other.
AnswersRead == answers <= requests
=============================================================================
