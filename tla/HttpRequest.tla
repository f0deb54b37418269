----------------------------- MODULE HttpRequest -----------------------------
(***************************************************************************)
(* The HTTP request parser: http_request::read_http_status_machine, fed by *)
(* read_conn with whatever each read returns, and its copy in              *)
(* http_server.cpp, which gets a request in one piece.                     *)
(*                                                                         *)
(* The parser keeps rhs from one call to the next, but not begin, the      *)
(* place where the current field starts, and it looks one or two           *)
(* characters past the end of the line it is in without asking for nread.  *)
(* What it finds there is a zero, or what an earlier, longer read of the   *)
(* same read_conn has left in the buffer.                                  *)
(*                                                                         *)
(* A request is a sequence of tokens.  The words the parser compares with  *)
(* are two tokens each, so that a read can end inside one; "x" is any      *)
(* other character, SP a space, and "0" the NUL byte.  A method is any     *)
(* word of such letters: GETX is <<"GE", "T", "x">>.                       *)
(***************************************************************************)
EXTENDS Integers, Sequences, FiniteSets

CONSTANTS Methods,       \* the words clients use for a method
          Names, Values, \* what a parameter is called and what it is
          Queries,       \* the lists of parameters clients send
          MaxHeaders,    \* bound of the model: header lines of a request
          MaxReads,      \* bound of the model: reads that return a part of it
          BUFSIZE,       \* the size of read_conn's _buf, 1024 in the code
          ContentSize    \* the size of get_params' t_content, 128 in the code

Word(m) == CASE m = "GET" -> <<"GE", "T">> [] m = "POST" -> <<"PO", "ST">>
             [] m = "HTTP" -> <<"HT", "TP">>
Letter == {"GE", "T", "PO", "ST", "x"}
Sign == {"HT", "TP", "SP", "SLASH", "CR", "LF", "AND", "EQ", "0"}

(* What a client sends: "GET /x HTTP/x", its headers, and for a POST its   *)
(* parameters, "xa=v&b=w", of four tokens each.                            *)
Request == [method : Methods, url : {<<"SLASH">>, <<"SLASH", "x">>},
            headers : 0 .. MaxHeaders, params : Queries]
Version == <<"SP", "HT", "TP", "SLASH", "x", "CR", "LF">>
Header == <<"x", "CR", "LF">>
Blank == <<"CR", "LF">>
Upto(q) == q.method \o <<"SP">> \o q.url \o Version
HeaderLines(q) == [k \in 1 .. 3 * q.headers |-> Header[((k - 1) % 3) + 1]]
Params(q) == [k \in 1 .. 4 * Len(q.params) |->
                CASE k = 1 -> "x" [] k > 1 /\ k % 4 = 1 -> "AND"
                  [] k % 4 = 2 -> q.params[(k \div 4) + 1][1]
                  [] k % 4 = 3 -> "EQ"
                  [] OTHER -> q.params[k \div 4][2]]
Tokens(q) == Upto(q) \o HeaderLines(q) \o Blank \o Params(q)
Len0(q) == Len(Tokens(q))

(* Requests are made of these tokens, and fit into the buffer with what is *)
(* looked at behind them.                                                  *)
Fits == /\ Methods \subseteq Seq(Letter) \ {<<>>}
        /\ Queries \subseteq Seq(Names \X Values)
        /\ (Names \cup Values) \cap (Letter \cup Sign) = {}
        /\ MaxHeaders \in Nat /\ BUFSIZE \in Nat /\ ContentSize \in Nat
        /\ \A q \in Request : Len0(q) + 2 < BUFSIZE
ASSUME HttpAssumption == Fits

VARIABLES
    code,        \* whose parser it is: http_request's, or the copy in http_server.cpp
    req,         \* the request the client sends
    pos,         \* how much of it was read
    buf,         \* read_conn's _buf, from 0
    parser,      \* the fields of http_request, and nread, i and begin of the last call
    cuts         \* history: where reads ended before the end of the request

vars == <<code, req, pos, buf, parser, cuts>>

Slots == 0 .. BUFSIZE - 1
Zeros == [k \in Slots |-> "0"]

(* The constructor; method and proto are not set.  peeked says that a byte *)
(* of an earlier read was looked at, ub that a NULL pointer was used or    *)
(* t_content written past its end.                                         *)
NewRequest == [rhs |-> "START", method |-> "unset", proto |-> "unset", url |-> <<>>,
               content |-> {}, nread |-> 0, i |-> 0, begin |-> 0,
               peeked |-> FALSE, ub |-> FALSE]

Init ==
    /\ req \in {q \in Request : q.params # <<>> => q.method = Word("POST")}
    /\ code \in {"http_request", "http_server"}
    /\ pos = 0 /\ buf = Zeros /\ cuts = {} /\ parser = NewRequest

-----------------------------------------------------------------------------
(* memcmp(buf + begin, word, strlen(word)) == 0 *)
Starts(b, begin, m) == <<b[begin], b[begin + 1]>> = Word(m)
Piece(b, from, to) == [k \in 1 .. to - from |-> b[from + k - 1]]

(* get_params from `from': all that was read from there on is copied into  *)
(* t_content, of which nothing is used.  Up to the first NUL there are     *)
(* pieces between ANDs, of which one without EQ makes param NULL.  In the  *)
(* content map, empty before, the first of two equal names counts.         *)
First(S) == CHOOSE k \in S : \A j \in S : k <= j
GetParams(s, b, from) ==
    LET end == First({e \in Slots : e >= from /\ b[e] = "0"})
        starts == {from} \cup {k + 1 : k \in {a \in from .. end - 1 : b[a] = "AND"}}
        To(k) == First({e \in k .. end : e = end \/ b[e] = "AND"})
        Equals(k) == {e \in k .. To(k) - 1 : b[e] = "EQ"}
        pairs == {k \in starts : Equals(k) # {}}
        Name(k) == Piece(b, k, First(Equals(k)))
        New(k) == \A j \in pairs : j < k => Name(j) # Name(k)
    IN  [s EXCEPT !.ub = s.nread - from > ContentSize \/ pairs # starts,
                  !.peeked = @ \/ end > s.nread,
                  !.content = {<<Name(k), Piece(b, First(Equals(k)) + 1, To(k))>> :
                                  k \in {k \in pairs : New(k)}}]

(* A carriage return and a line feed, which may lie beyond nread. *)
IsEol(b, k) == b[k] = "CR" /\ b[k + 1] = "LF"
Peek(s, b, k) == [s EXCEPT !.peeked = @ \/ (k >= s.nread /\ b[k] # "0")]

(* One iteration of the loop, without the ++i of its head.  An unknown     *)
(* method sets rhs to READ_HTTP_ERROR, and to URL three lines further on.  *)
(* The mutant takes every other word for GET.                              *)
MethodOrGet(b, begin, old) ==
    CASE Starts(b, begin, "GET") -> "GET" [] Starts(b, begin, "POST") -> "POST" [] OTHER -> "GET"
Method(b, begin, old) ==
    CASE Starts(b, begin, "GET") -> "GET" [] Starts(b, begin, "POST") -> "POST" [] OTHER -> old
METHORD(s, b) ==
    IF b[s.i] # "SP" THEN [s EXCEPT !.rhs = "METHORD"]
    ELSE [s EXCEPT !.rhs = "URL", !.begin = s.i + 1,
                   !.method = Method(b, s.begin, @)]
URL(s, b) ==
    IF b[s.i] # "SP" THEN s
    ELSE [s EXCEPT !.rhs = "PROTO", !.begin = s.i + 1, !.url = Piece(b, s.begin, s.i)]
Proto(b, begin, to, old) ==
    CASE Starts(b, begin, "HTTP") /\ to - begin = 2 -> "HTTP"
      [] Starts(b, begin, "HTTP") /\ to - begin = 3 -> "HTTPS" [] OTHER -> old
PROTO(s, b) ==
    IF b[s.i] # "SLASH" THEN s
    ELSE [s EXCEPT !.rhs = "VERSION", !.begin = s.i + 1, !.proto = Proto(b, s.begin, s.i, @)]
VERSION(s, b) ==
    IF b[s.i] # "CR" THEN s
    ELSE LET p == [Peek(s, b, s.i + 1) EXCEPT !.i = s.i + 1]
         IN  IF IsEol(b, s.i) THEN [p EXCEPT !.rhs = "REQUEST_HEAD", !.begin = s.i + 2] ELSE p

(* The header ends with an empty line, which must be in the same buffer;   *)
(* it is the end of the request if nothing follows it there.  One mutant   *)
(* misses the case that the line ends exactly at nread, the other takes    *)
(* the end of what was read for the end of the header.                     *)
EndsNoFit(begin, nread) == IF begin = nread THEN "FINISH" ELSE "CONTENT"
Ends(begin, nread) == IF begin \in {nread - 1, nread} THEN "FINISH" ELSE "CONTENT"
IsBlankOrEnd(b, k, nread) == IsEol(b, k) \/ k = nread
IsBlank(b, k, nread) == IsEol(b, k)
REQUEST_HEAD(s, b) ==
    LET next == s.i + 2
        p == [Peek(s, b, s.i + 1) EXCEPT !.i = s.i + 1]
        q == [Peek(p, b, next) EXCEPT !.begin = next]
        r == [Peek(q, b, next + 1) EXCEPT !.begin = next + 1]
    IN  CASE b[s.i] # "CR" -> s
          [] b[s.i] = "CR" /\ ~ IsEol(b, s.i) -> p
          [] IsEol(b, s.i) /\ ~ IsBlank(b, next, s.nread) ->
                IF b[next] = "CR" THEN r ELSE q
          [] OTHER -> [r EXCEPT !.rhs = Ends(next + 1, s.nread)]
CONTENT(s, b) ==
    LET p == IF b[s.i] = "LF" THEN s ELSE GetParams(s, b, s.i + 1)
    IN  [p EXCEPT !.rhs = "FINISH"]

Iterate(s, b) ==
    CASE s.rhs \in {"START", "METHORD"} -> METHORD(s, b)
      [] s.rhs = "URL" -> URL(s, b)
      [] s.rhs = "PROTO" -> PROTO(s, b)
      [] s.rhs = "VERSION" -> VERSION(s, b)
      [] s.rhs = "REQUEST_HEAD" -> REQUEST_HEAD(s, b)
      [] s.rhs = "CONTENT" -> CONTENT(s, b)
      [] OTHER -> s

(* A call: begin and i start at 0.  The mutant keeps begin from the call   *)
(* before, as if the buffer had been kept with it.                         *)
EnterKeepBegin(s, n) == [s EXCEPT !.i = 0, !.nread = n]
Enter(s, n) == [s EXCEPT !.i = 0, !.nread = n, !.begin = 0]

(* The loop ends at nread, or with a crash; its head has the ++i.  In      *)
(* http_server.cpp the status is a local variable that is not stored.      *)
Running(s) == s.i < s.nread /\ ~ s.ub
Bumped(s) == [s EXCEPT !.i = @ + 1]
Returned(s) == IF s.i >= s.nread THEN [s EXCEPT !.rhs = "START"] ELSE s

-----------------------------------------------------------------------------
(* The buffer after a read of n tokens into b. *)
Filled(b, n) == [k \in Slots |-> IF k < n THEN Tokens(req)[pos + k + 1] ELSE b[k]]

(* A read of read_conn, and the call of the parser: in a call of its own,  *)
(* with _buf cleared, or one more in the loop of the call that made the    *)
(* last one.  http_server.cpp has one call with nread = strlen(buf).       *)
Feed(n, fresh) ==
    /\ ~ Running(parser) /\ ~ parser.ub /\ pos + n <= Len0(req)
    /\ pos + n = Len0(req) \/ (Cardinality(cuts) < MaxReads /\ code = "http_request")
    /\ buf' = Filled(IF fresh THEN Zeros ELSE buf, n)
    /\ parser' = Enter(parser, n)
    /\ pos' = pos + n
    /\ cuts' = cuts \cup ({pos'} \ {Len0(req)})
    /\ UNCHANGED <<code, req>>

(* An iteration of the loop, in either copy. *)
read_http_status_machine ==
    /\ code = "http_request" /\ Running(parser)
    /\ parser' = Bumped(Iterate(parser, buf))
    /\ UNCHANGED <<code, req, pos, buf, cuts>>

readHttpRequestStatusMachine ==
    /\ code = "http_server" /\ Running(parser)
    /\ parser' = Returned(Bumped(Iterate(parser, buf)))
    /\ UNCHANGED <<code, req, pos, buf, cuts>>

Next ==
    \/ \E n \in 1 .. Len0(req), fresh \in BOOLEAN : Feed(n, fresh)
    \/ read_http_status_machine \/ readHttpRequestStatusMachine

Spec == Init /\ [][Next]_vars

-----------------------------------------------------------------------------
Status == {"START", "METHORD", "URL", "PROTO", "VERSION", "REQUEST_HEAD", "CONTENT", "FINISH"}
TypeOK ==
    /\ req \in Request /\ pos \in 0 .. Len0(req)
    /\ parser.rhs \in Status /\ parser.method \in {"unset", "GET", "POST"}
    /\ parser.nread \in Slots /\ parser.i \in Slots /\ parser.begin \in Slots
    /\ cuts \subseteq 1 .. Len0(req) - 1

(* A request the parser is made for, with parameters that fit into        *)
(* t_content behind the line feed that is copied with them.                *)
Parsable ==
    /\ req.method \in {Word("GET"), Word("POST")} /\ req.headers > 0
    /\ Len(Params(req)) < ContentSize

(* What the map holds for the parameters ps: each value under its name, of *)
(* two with the same name the first.  The first name does not come as it   *)
(* was sent: the line feed of the empty line is in front of it.            *)
Key(ps, j) == IF j = 1 THEN <<"LF", "x", ps[1][1]>> ELSE <<ps[j][1]>>
Counts(ps, j) == \A i \in 1 .. j - 1 : Key(ps, i) # Key(ps, j)
Stored(ps) == {<<Key(ps, j), <<ps[j][2]>>>> : j \in {j \in 1 .. Len(ps) : Counts(ps, j)}}

(* p is what the request says: method, URL, protocol, and the names and    *)
(* values of the parameters, but for that line feed.                       *)
Agrees(p) ==
    /\ ~ p.ub /\ p.method \in {"GET", "POST"} /\ Word(p.method) = req.method
    /\ p.url = req.url /\ p.proto = "HTTP" /\ p.content = Stored(req.params)

(* Where a read may end: just before the URL, the protocol or the version, *)
(* or from there on to the end of the last header's text; but among the    *)
(* lines before the last header at least one must keep its "\r\n" together,*)
(* for the parser to learn that the request line is over.                  *)
GoodCuts ==
    LET url == Len(req.method) + 1
        proto == url + Len(req.url) + 1
        version == proto + Len(Word("HTTP")) + 1
        EndOfLine(k) == Len(Upto(req)) + 3 * k
    IN  /\ cuts \subseteq {url, proto} \cup (version .. EndOfLine(req.headers) - 2)
        /\ \E k \in 0 .. req.headers - 1 : EndOfLine(k) - 1 \notin cuts

(* The whole request was read, and the last call has returned. *)
Complete == pos = Len0(req) /\ ~ Running(parser)

(* How a request reaches the parser must not change what it says.  It does *)
(* if a read ends in the wrong place, and exactly then: a request that     *)
(* arrives complete is parsed as it is in one piece, see Agrees, if and    *)
(* only if the cuts are good ones, unless bytes of an earlier read were    *)
(* looked at; that a cut lost the last parameter does not show if its name *)
(* is a repetition.                                                        *)
CutsDecide ==
    Complete /\ code = "http_request" /\ Parsable /\ ~ parser.peeked =>
        LET read == parser.rhs = "FINISH" /\ Agrees(parser)
        IN  /\ GoodCuts => read
            /\ read /\ Counts(req.params, Len(req.params)) => GoodCuts

(* In one piece, and with a cleared buffer, both copies of the parser read *)
(* the fields the client sent, the first parameter's name with a line feed *)
(* too many, and read_conn sees that the request is complete.              *)
OnePiece ==
    Complete /\ cuts = {} /\ Parsable =>
        Agrees(parser) /\ (code = "http_request" => parser.rhs = "FINISH")

(* No request is answered early: whatever the cuts, the parser does not    *)
(* say FINISH before it has seen the empty line, unless it looked at bytes *)
(* of an earlier read.                                                     *)
NotEarly ==
    parser.rhs \in {"CONTENT", "FINISH"} /\ ~ parser.peeked =>
        pos >= Len(Upto(req)) + 3 * req.headers + 2

(* A method is not made up: the parser says GET or POST only if that word  *)
(* stands in the client's method at its start, or where a read was cut.    *)
(* More is not true: GETX is taken for GET, and XGET if it is cut behind   *)
(* the X, because only as many characters as GET has are compared          *)
(* (http_request.cpp:16).  For all other words the status of the error is  *)
(* overwritten (http_request.cpp:23), but the method stays unset.          *)
MethodIsFound ==
    parser.method = "unset" \/
        \E p \in {0} \cup cuts : /\ p + 2 <= Len(req.method)
                                /\ <<req.method[p + 1], req.method[p + 2]>> = Word(parser.method)

=============================================================================
