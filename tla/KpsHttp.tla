------------------------------ MODULE KpsHttp -------------------------------
(***************************************************************************)
(* KPS-HTTP/1 (kps/http1.ts): the request as it is written to a stream,    *)
(* and the response as it is read from the chunks the stream is cut into.  *)
(*                                                                         *)
(* A stream is a sequence of symbols.  CR and LF are bytes; a status line  *)
(* and a header line are one symbol each, named by what parseResponseHead  *)
(* distinguishes; any other byte is "text".                                *)
(***************************************************************************)
EXTENDS Integers, Sequences, FiniteSets, SequencesExt

MaxHead == 11         \* maxHeadBytes, in symbols: two header lines fit
MaxBody == 4          \* maxBodyBytes
MaxInterim == 1       \* MAX_INTERIM_RESPONSES

Sym(kind, n) == [kind |-> kind, n |-> n]
CR == Sym("CR", 0)
LF == Sym("LF", 0)
CRLF == <<CR, LF>>
Text == Sym("text", 0)

-----------------------------------------------------------------------------
(* Requests. *)

ManagedFields == {"host", "content-length", "transfer-encoding", "expect"}
BodyMethods == {"POST", "PUT"}

\* A name or a value that is not made of the characters it may have is "bad"
EncodesRequest(r) ==
  /\ r.method # "bad" /\ r.certhash # "bad"
  /\ r.method \in {"GET", "HEAD"} => r.body = <<>>
  /\ \A h \in Range(r.headers) : h.name \notin ManagedFields \cup {"bad"} /\ h.value # "bad"

EncodeKpsHttpRequest(r) ==
  LET lines == <<Sym(r.method, 0), Sym("host", 0)>>
                 \o [i \in DOMAIN r.headers |-> Sym(r.headers[i].name, 0)]
                 \o (IF r.body # <<>> \/ r.method \in BodyMethods
                     THEN <<Sym("content-length", Len(r.body))>> ELSE <<>>)
  IN FlattenSeq([i \in DOMAIN lines |-> <<lines[i]>> \o CRLF]) \o CRLF \o r.body

-----------------------------------------------------------------------------
(* Responses. *)

\* findHeadEnd(): the symbols before the first empty line, -1 if there is none
HeadEnd(buf) ==
  LET ends == {i \in 0..Len(buf) - 4 : SubSeq(buf, i + 1, i + 4) = CRLF \o CRLF}
  IN IF ends = {} THEN -1 ELSE CHOOSE i \in ends : \A j \in ends : i <= j

\* text.split("\r\n")
Lines(head) ==
  LET cuts == SetToSortSeq({i \in 1..Len(head) - 1 : SubSeq(head, i, i + 1) = CRLF}, LAMBDA i, j : i < j)
      from == <<0>> \o [k \in DOMAIN cuts |-> cuts[k] + 1]
      to   == [k \in DOMAIN cuts |-> cuts[k] - 1] \o <<Len(head)>>
  IN [k \in DOMAIN from |-> SubSeq(head, from[k] + 1, to[k])]

\* parseResponseHead(): a status line and header lines, none of them folded or
\* with a bare CR or LF, no Transfer-Encoding and at most one Content-Length
NoHead == [status |-> 0, length |-> <<>>]
ParseResponseHead(head) ==
  LET lines == Lines(head)
      fields == Tail(lines)
      lengths == SelectSeq(fields, LAMBDA l : l[1].kind = "length")
  IN IF /\ \A i \in DOMAIN lines : Len(lines[i]) = 1
        /\ lines[1][1].kind = "status"
        /\ \A i \in DOMAIN fields : fields[i][1].kind \in {"field", "length"}
        /\ Len(lengths) <= 1
     THEN [status |-> lines[1][1].n, length |-> [i \in DOMAIN lengths |-> lengths[i][1].n]]
     ELSE NoHead

VARIABLES
  peer,         \* the response the peer has for the request, and what of it came
  reader        \* in the head with the bytes it has, in the body with the bytes
                \* of the body, done, or given up with the kind of the error
httpVars == <<peer, reader>>

Reading == [mode |-> "head", bytes |-> <<>>, interim |-> 0, head |-> NoHead]
Error(kind) == [Reading EXCEPT !.mode = kind]

Bodyless(method, head) == method = "HEAD" \/ head.status \in {204, 304}

\* The body begins with a new chunk: what came with the head is lost
EnterBodyAnew(r, head, rest, method) ==
  IF ~Bodyless(method, head) /\ \E n \in Range(head.length) : n > MaxBody THEN Error("too-large")
  ELSE [r EXCEPT !.mode = "body", !.bytes = <<>>, !.head = head]

\* readKpsHttpResponseBody() before its loop
EnterBody(r, head, rest, method) ==
  IF ~Bodyless(method, head) /\ \E n \in Range(head.length) : n > MaxBody THEN Error("too-large")
  ELSE IF Len(rest) > MaxBody THEN Error("too-large")
  ELSE [r EXCEPT !.mode = "body", !.bytes = rest, !.head = head]

\* readKpsHttpResponseHead(): the heads that are complete in the buffer
RECURSIVE TakeHeads(_, _)
TakeHeads(r, method) ==
  LET end  == HeadEnd(r.bytes)
      head == ParseResponseHead(SubSeq(r.bytes, 1, end))
      rest == SubSeq(r.bytes, end + 5, Len(r.bytes))
  IN IF end < 0 THEN IF Len(r.bytes) >= MaxHead THEN Error("too-large") ELSE r
     ELSE IF end + 4 > MaxHead THEN Error("too-large")
     ELSE IF head = NoHead THEN Error("protocol-error")
     ELSE IF head.status >= 200 THEN EnterBody(r, head, rest, method)
     ELSE IF head.status = 101 \/ r.interim = MaxInterim THEN Error("protocol-error")
     ELSE TakeHeads([r EXCEPT !.bytes = rest, !.interim = @ + 1], method)

\* One chunk; readChunk() skips empty ones
ReadChunk(r, chunk, method) ==
  IF r.mode = "head" THEN TakeHeads([r EXCEPT !.bytes = @ \o chunk], method)
  ELSE IF Len(r.bytes) + Len(chunk) > MaxBody THEN Error("too-large")
  ELSE [r EXCEPT !.bytes = @ \o chunk]

\* The end of the stream
ReadEnd(r, method) ==
  IF \/ r.mode = "head"
     \/ Bodyless(method, r.head) /\ r.bytes # <<>>
     \/ ~Bodyless(method, r.head) /\ \E n \in Range(r.head.length) : n # Len(r.bytes)
  THEN Error("protocol-error") ELSE [r EXCEPT !.mode = "done"]

-----------------------------------------------------------------------------
(* What a peer may send, cut into chunks anywhere and ended at any time. *)

Field == <<Sym("field", 0)>>
LengthOf(n) == <<Sym("length", n)>>
HeaderLines == {<<>>, <<Field>>, <<LengthOf(1)>>, <<LengthOf(MaxBody)>>, <<LengthOf(MaxBody + 1)>>,
                <<<<Sym("encoding", 0)>>>>, <<<<Sym("fold", 0)>>>>, <<<<Sym("field", 0), CR, Text>>>>,
                <<Field, LengthOf(1)>>, <<LengthOf(1), LengthOf(1)>>, <<Field, Field, Field>>}
Responses == [interim : {<<>>, <<100>>, <<101>>, <<100, 103>>}, status : {200, 204}, lines : HeaderLines,
              body : {<<>>, <<Text>>, CRLF \o CRLF, <<Text, Text, Text, Text, Text>>}]

HeadOf(status, lines) ==
  <<Sym("status", status)>> \o FlattenSeq([i \in DOMAIN lines |-> CRLF \o lines[i]]) \o CRLF \o CRLF
HeadsOf(p) ==
  FlattenSeq([i \in DOMAIN p.interim |-> HeadOf(p.interim[i], <<>>)]) \o HeadOf(p.status, p.lines)

\* No response is being read
NoPeer == [response |-> <<>>, method |-> "none", came |-> 0, wire |-> <<>>]
Idle == peer.method = "none"

HttpInit ==
  /\ \E p \in Responses, method \in {"GET", "HEAD"} :
       peer = [response |-> p, method |-> method, came |-> 0, wire |-> HeadsOf(p) \o p.body]
  /\ reader = Reading

Waiting == reader.mode \in {"head", "body"}

\* The next n bytes arrive as one chunk
Chunk(n) ==
  /\ Waiting /\ peer.came + n <= Len(peer.wire)
  /\ peer' = [peer EXCEPT !.came = @ + n]
  /\ reader' = ReadChunk(reader, SubSeq(peer.wire, peer.came + 1, peer.came + n), peer.method)

\* The stream ends, maybe early
StreamEnds ==
  /\ Waiting
  /\ reader' = ReadEnd(reader, peer.method)
  /\ UNCHANGED peer

HttpNext == ~Idle /\ ((\E n \in 1..Len(peer.wire) - peer.came : Chunk(n)) \/ StreamEnds)

-----------------------------------------------------------------------------

\* Of the response only n bytes of the body came (below 0: not all of its head)
Acceptable(p, n, method) ==
  LET declared == SelectSeq(p.lines, LAMBDA l : l[1].kind = "length")
      bodyless == method = "HEAD" \/ p.status = 204
  IN /\ n >= 0
     /\ Len(p.interim) <= MaxInterim /\ 101 \notin Range(p.interim)
     /\ Len(HeadOf(p.status, p.lines)) <= MaxHead
     /\ \A l \in Range(p.lines) : Len(l) = 1 /\ l[1].kind \in {"field", "length"}
     /\ Len(declared) <= 1
     /\ IF bodyless THEN n = 0 ELSE n <= MaxBody /\ \A l \in Range(declared) : l[1].n = n

ResponseRead ==
  LET p == peer.response
      n == peer.came - Len(HeadsOf(p))
  IN /\ reader.mode = "done" => /\ Acceptable(p, n, peer.method)
                                 /\ reader.head.status = p.status /\ reader.bytes = SubSeq(p.body, 1, n)
     /\ reader.mode \in {"too-large", "protocol-error"} =>
          /\ ~Acceptable(p, n, peer.method)
          /\ reader.mode = "too-large" => ~\E k \in 0..Len(p.body) : k >= n /\ Acceptable(p, k, peer.method)

\* A standard server reads the body by Content-Length
Requests == [method : {"GET", "POST", "DELETE", "bad"}, certhash : {"token", "bad"},
             headers : UNION {[1..n -> [name : {"accept", "content-length", "host", "bad"}, value : {"good", "bad"}]] :
                                n \in 0..2},
             body : {<<>>, <<Text>>, CRLF \o CRLF}]
ServerReads(wire, r) ==
  LET end     == HeadEnd(wire)
      head    == SubSeq(wire, 1, end)
      lengths == SelectSeq(head, LAMBDA s : s.kind = "content-length")
      body    == SubSeq(wire, end + 5, Len(wire))
  IN /\ Len(lengths) <= 1
     /\ Len(body) = IF lengths = <<>> THEN 0 ELSE lengths[1].n
     /\ body = r.body
     /\ Len(SelectSeq(head, LAMBDA s : s.kind = "host")) = 1
RequestsAgreed == \A r \in Requests : EncodesRequest(r) => ServerReads(EncodeKpsHttpRequest(r), r)

\* A response is accepted exactly when its head came whole, the client allows it
\* and its body is as long as it declares, and is then the peer's status and body,
\* wherever the stream is cut into chunks and whenever it ends; it is given up as
\* too large only when no more bytes could have made it acceptable.  A server that
\* reads a request by its length sees the body the client sent (http1.ts)
HttpFaithful == ~Idle => ResponseRead /\ RequestsAgreed
=============================================================================
