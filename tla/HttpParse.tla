------------------------------- MODULE HttpParse -------------------------------
(* The request parser of HttpHandler: praseUrl, praseHeader, praseBody, and   *)
(* what they leave in keepAlive_.  A buffer is a sequence of line contents    *)
(* and line ends, so that a request may be cut, into the segments it arrives  *)
(* in, at the end of a line or in front of its CRLF.                          *)
EXTENDS Naturals, Sequences, FiniteSetsExt

CRLF == [end |-> TRUE]
RequestLine(m, p, v) == [method |-> m, path |-> p, version |-> v]
HeaderLine(k, v) == [key |-> k, value |-> v]

IsRequestLine(t) == "method" \in DOMAIN t
IsHeaderLine(t) == "key" \in DOMAIN t

(* What a peer may send in one piece.  "first" and "last" are the two halves  *)
(* of one request; "cut" ends inside a header line and "rest" completes it.   *)
Text ==
  [keep    |-> <<RequestLine("GET", "/", "HTTP/1.1"), CRLF, CRLF>>,
   close   |-> <<RequestLine("GET", "/", "HTTP/1.1"), CRLF,
                 HeaderLine("Connection", "close"), CRLF, CRLF>>,
   old     |-> <<RequestLine("HEAD", "/", "HTTP/1.0"), CRLF,
                 HeaderLine("Connection", "keep-alive"), CRLF, CRLF>>,
   missing |-> <<RequestLine("PUT", "/none", "HTTP/1.1"), CRLF, CRLF>>,
   bad     |-> <<RequestLine("GET", "none", "HTTP/1.1"), CRLF, CRLF>>,
   first   |-> <<RequestLine("GET", "/none", "HTTP/1.1"), CRLF>>,
   last    |-> <<HeaderLine("Connection", "close"), CRLF, CRLF>>,
   cut     |-> <<RequestLine("GET", "/a:b", "HTTP/1.1"), CRLF,
                 HeaderLine("Host", "h")>>,
   rest    |-> <<CRLF, CRLF>>]

Segments == DOMAIN Text

-----------------------------------------------------------------------------
(* std::string::find from position i: npos is 0 here.                         *)
FindCrlf(buf, i) ==
  LET ends == {j \in i .. Len(buf) : buf[j] = CRLF}
  IN  IF ends = {} THEN 0 ELSE Min(ends)

(* Which lines hold a colon; of the paths, only "/a:b" does.                  *)
HasColon(t) == IsHeaderLine(t) \/ (IsRequestLine(t) /\ t.path = "/a:b")

Colons(buf, i, j) == {k \in i .. j : HasColon(buf[k])}

(* HttpHandler::setMethod: its search leaves out the last entry, "Unknown",   *)
(* and a method that it does not find becomes entry 0.                        *)
SetMethod(m) == IF m \in {"GET", "POST", "HEAD"} THEN m ELSE "GET"

(* HttpHandler::praseUrl: where the headers begin, or 0 for its -1.  A header *)
(* line has one space, too few for a request line.                            *)
PraseUrl(buf) ==
  IF /\ FindCrlf(buf, 1) = 2 /\ IsRequestLine(buf[1])
     /\ SetMethod(buf[1].method) # "Unknown"
     /\ buf[1].path \notin {"", "none"}
     /\ buf[1].version \in {"HTTP/1.0", "HTTP/1.1"}
    THEN 3 ELSE 0

(* Mutant: the loop forgets bpos = epos + 2.                                  *)
NextLineStays(i, epos) == i

(* bpos = epos + 2: the place after the CRLF.                                 *)
NextLine(i, epos) == epos + 1

(* HttpHandler::praseHeader from the line at i: "end" at the empty line,      *)
(* "error" at a line without colon.  In a last line without CRLF epos is      *)
(* npos, and epos + 2 wraps to 1, the second byte of the buffer: the walk     *)
(* begins again in the request line.  A walk of as many turns as there are    *)
(* places comes back to one and is "forever".                                 *)
HeaderWalk(buf) ==
  LET walk[at \in (1 .. Len(buf) + 1) \X (0 .. Len(buf) + 1)] ==
        LET i == at[1]
            turns == at[2]
            epos == FindCrlf(buf, i)
            last == IF epos = 0 THEN Len(buf) ELSE epos
            next == IF epos = 0 THEN 1 ELSE NextLine(i, epos)
        IN  CASE epos = i -> "end"
              [] epos # i /\ Colons(buf, i, last) = {} -> "error"
              [] epos # i /\ Colons(buf, i, last) # {} ->
                   IF turns = 0 THEN "forever" ELSE walk[<<next, turns - 1>>]
  IN  walk

(* How far handleHttpReq gets with a buffer; praseBody always returns 0, and  *)
(* what follows the empty line is not looked at.                              *)
Outcome(buf) ==
  IF PraseUrl(buf) = 0 THEN "error" ELSE HeaderWalk(buf)[<<PraseUrl(buf), Len(buf) + 1>>]

EmptyLines(buf) ==
  {i \in 2 .. Len(buf) : buf[i] = CRLF /\ buf[i - 1] = CRLF}

(* The lines setHeader saw with key Connection; the last of them counts.      *)
ConnectionLines(buf) ==
  {i \in 1 .. Min(EmptyLines(buf)) : IsHeaderLine(buf[i]) /\ buf[i].key = "Connection"}

(* keepAlive_ after parsing: HTTP/1.1 sets it, the Connection header of a     *)
(* complete request overrides that, and otherwise it stays what it was.       *)
KeepAliveAfter(buf, keepAlive_) ==
  LET byVersion == keepAlive_ \/ (PraseUrl(buf) # 0 /\ buf[1].version = "HTTP/1.1")
      connection == IF Outcome(buf) # "end" \/ ConnectionLines(buf) = {}
                      THEN "" ELSE buf[Max(ConnectionLines(buf))].value
  IN  /\ connection \notin {"close", "Close"}
      /\ byVersion \/ connection \in {"keep-alive", "Keep-Alive"}

(* responseReq looks the path up: of the paths, only "/" names a file.        *)
NotFound(buf) == Outcome(buf) = "end" /\ buf[1].path # "/"
=============================================================================
