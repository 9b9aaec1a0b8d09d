------------------------------- MODULE Bincode -------------------------------
(***************************************************************************)
(* The wire formats between client, entry and exit: bincode.ts, the exit's *)
(* HTTP reply of http_response.ts and the binary claim batch of            *)
(* transport.ts.  Writers and readers are translated apart, each in the    *)
(* order of the code, so that they can disagree as the code's could.       *)
(*                                                                         *)
(* Bytes are scaled: a byte is a digit below Base, a uN has N/8 of them,   *)
(* and the fixed lengths 16, 20, 32 and 65 become 1 to 4.  As text a byte  *)
(* is a control character (0), printable (1, 2) or not UTF-8 (3).  An      *)
(* optional value is a sequence of none or one.                            *)
(***************************************************************************)
EXTENDS Integers, Sequences, FiniteSets, SequencesExt

Base == 4
Version == 1
Len16 == 1
Len20 == 2
Len32 == 3
Len65 == 4

\* Scaled MAX_SUBMIT_REJECTION_DETAIL_BYTES and TUNNEL_REJECT_DETAIL_MAX, and
\* TUNNEL_PART_MAX_DATA.
DetailMax == 2
PartMax == 3

PaidCodes == 17
TunnelCodes == 15
TunnelFins == 3

-----------------------------------------------------------------------------
(* Writer. *)

Digits(v, n) == [i \in 1..n |-> (v \div Base^(i - 1)) % Base]

PutU8(v) == Digits(v, 1)
PutU16(v) == Digits(v, 2)
PutU32(v) == Digits(v, 4)
PutU64(v) == Digits(v, 8)
PutBytes(b) == PutU64(Len(b)) \o b
PutBool(v) == PutU8(IF v THEN 1 ELSE 0)
PutOption(o, Put(_)) == IF o = <<>> THEN PutU8(0) ELSE PutU8(1) \o Put(o[1])
PutAll(s, Put(_)) == PutU64(Len(s)) \o FlattenSeq([i \in DOMAIN s |-> Put(s[i])])

PutFec(f) == PutU32(f.dataShardCount) \o PutU64(f.originalDataLen)

WriteFragmentWire(f) ==
  PutU64(f.messageId) \o PutU32(f.totalFragments) \o PutU32(f.sequence)
    \o PutBytes(f.data) \o PutOption(f.fec, PutFec)

\* Reply blocks go inline, without a length.
PutSurbs(s) == PutU64(Len(s)) \o FlattenSeq(s)

WriteRelayerPayload(p) ==
  CASE p.tag = "SubmitTransaction" -> PutU32(0) \o p.to \o PutBytes(p.data)
    [] p.tag = "Dummy"             -> PutU32(1) \o PutBytes(p.padding)
    [] p.tag = "Heartbeat"         -> PutU32(2) \o PutU64(p.id) \o PutU64(p.timestamp)
    [] p.tag = "Fragment"          -> PutU32(3) \o WriteFragmentWire(p.frag)
    [] p.tag = "AnonymousRequest"  -> PutU32(4) \o PutBytes(p.inner) \o PutSurbs(p.replySurbs)
    [] p.tag = "ServiceResponse"   -> PutU32(5) \o PutU64(p.requestId) \o WriteFragmentWire(p.fragment)
    [] p.tag = "NeedMoreSurbs"     -> PutU32(6) \o PutU64(p.requestId) \o PutU32(p.fragmentsRemaining)

PutHeader(h) == PutBytes(h[1]) \o PutBytes(h[2])
PutOpen(o) == PutBytes(o.host) \o PutU16(o.port)

WritePaidQuoteRequest(q) ==
  PutU64(q.chainId) \o q.entryPoint \o q.clientIntentId \o q.paymentAdapter \o q.paymentId
    \o q.feeAsset \o PutU64(q.paymentGasLimit) \o q.actionTarget \o q.actionCalldataHash
    \o PutU64(q.actionGasLimit) \o q.trackedAssetsHash \o PutU64(q.maximumTransactionGas)
    \o PutU32(q.returnDataLimit) \o PutU64(q.validUntilUnix)

\* Bug: the data goes before the acknowledged offset.
WriteTunnelRequestDataFirst(t) ==
  t.tunnelId \o PutU32(t.seq) \o PutOption(t.open, PutOpen) \o PutBytes(t.data)
    \o PutU64(t.ackOffset) \o PutBool(t.close) \o PutU32(t.holdMs)

WriteTunnelRequest(t) ==
  t.tunnelId \o PutU32(t.seq) \o PutOption(t.open, PutOpen) \o PutU64(t.ackOffset)
    \o PutBytes(t.data) \o PutBool(t.close) \o PutU32(t.holdMs)

WriteServiceRequest(q) ==
  CASE q.tag = "Echo"               -> PutU32(0) \o PutBytes(q.data)
    [] q.tag = "HttpRequest"        -> PutU32(1) \o PutBytes(q.method) \o PutBytes(q.url)
                                         \o PutAll(q.headers, PutHeader) \o PutBytes(q.body)
    [] q.tag = "RpcRequest"         -> PutU32(2) \o PutBytes(q.method) \o PutBytes(q.params)
                                         \o PutU64(q.id) \o PutOption(q.rpcUrl, PutBytes)
    [] q.tag = "SubmitTransaction"  -> PutU32(3) \o q.to \o PutBytes(q.data)
    [] q.tag = "BroadcastSignedTransaction" ->
         PutU32(4) \o PutBytes(q.signedTx) \o PutOption(q.rpcUrl, PutBytes)
           \o PutOption(q.rpcMethod, PutBytes)
    [] q.tag = "ReplenishSurbs"     -> PutU32(5) \o PutU64(q.requestId) \o PutSurbs(q.surbs)
    [] q.tag = "PaidTransactionV2"  -> PutU32(6) \o PutU64(q.chainId) \o q.entryPoint
                                         \o PutBytes(q.calldata) \o q.executionId
                                         \o PutU64(q.validUntilUnix)
    [] q.tag = "PaidQuoteRequestV2" -> PutU32(7) \o WritePaidQuoteRequest(q)
    [] q.tag = "TunnelV1"           -> PutU32(8) \o WriteTunnelRequest(q)

\* What the writers refuse besides wrong lengths: an `open` elsewhere than in
\* the first exchange, and a rejection whose detail is not a short text.
IsDetail(b) == Len(b) \in 1..DetailMax /\ \A i \in DOMAIN b : b[i] \notin {0, 3}

Encodable(q) ==
  CASE q.tag = "TunnelV1"     -> (q.open # <<>>) = (q.seq = 0)
    [] q.tag = "PaidRejected" -> q.code < PaidCodes /\ IsDetail(q.detail)
    [] OTHER                  -> TRUE

WritePaidV2Rejection(o) == PutU32(o.code) \o PutBool(o.retryable) \o PutBytes(o.detail)

WriteExecutionQuoteV1(q) ==
  PutU8(q.quoteVersion) \o q.chainId \o q.entryPoint \o q.exitAddress \o q.clientIntentId
    \o q.paymentAdapter \o q.paymentId \o q.feeAsset \o q.exitFee \o q.networkFee
    \o q.paymentGasLimit \o q.actionTarget \o q.actionCalldataHash \o q.actionGasLimit
    \o q.trackedAssetsHash \o q.maximumTransactionGas \o q.maximumFeePerGas
    \o q.returnDataLimit \o PutU64(q.validAfterUnix) \o PutU64(q.validUntilUnix) \o q.quoteNonce

WritePaidTransactionOutcome(o) ==
  IF o.tag = "submitted"
    THEN PutU32(0) \o o.executionId \o o.transactionHash
    ELSE PutU32(1) \o PutOption(o.executionId, LAMBDA id : id) \o WritePaidV2Rejection(o)

WritePaidQuoteOutcome(o) ==
  IF o.tag = "issued"
    THEN PutU32(0) \o WriteExecutionQuoteV1(o.quote) \o o.executionId \o PutBytes(o.exitSignature)
    ELSE PutU32(1) \o WritePaidV2Rejection(o)

WriteTunnelReply(p) ==
  IF p.tag = "Data"
    THEN PutU32(0) \o PutU32(p.seq) \o PutU64(p.offset) \o PutBytes(p.data)
           \o PutOption(p.fin, PutU32)
    ELSE PutU32(1) \o PutU32(p.seq) \o PutU32(p.code) \o PutBool(p.retryable) \o PutBytes(p.detail)

\* The exit's serialization of an HTTP reply and of an RPC reply.
WriteHttpResponse(h) ==
  PutU16(h.status) \o PutAll(h.headers, PutHeader) \o PutBytes(h.body) \o PutBool(h.truncated)

WriteRpcResponse(p) == PutU64(p.id) \o PutU32(p.tag) \o PutBytes(p.data)

-----------------------------------------------------------------------------
(* Reader: what is read at a position of a buffer, or Bad when it throws. *)

Bad == [ok |-> FALSE, val |-> 0, pos |-> 0]
Good(v, pos) == [ok |-> TRUE, val |-> v, pos |-> pos]

Number(b) == FoldRight(LAMBDA d, rest : d + Base * rest, b, 0)

\* What is read after r; an exception ends the reading
Then(r, More(_)) == IF r.ok THEN More(r) ELSE Bad
Require(r, P(_)) == IF r.ok /\ P(r.val) THEN r ELSE Bad
AtEnd(r, buf) == IF r.ok /\ r.pos = Len(buf) THEN r ELSE Bad

GetFixed(buf, pos, n) ==
  IF pos + n > Len(buf) THEN Bad ELSE Good(SubSeq(buf, pos + 1, pos + n), pos + n)

GetInt(buf, pos, n) == Then(GetFixed(buf, pos, n), LAMBDA b : Good(Number(b.val), b.pos))

GetBytes(buf, pos) == Then(GetInt(buf, pos, 8), LAMBDA n : GetFixed(buf, n.pos, n.val))

\* TextDecoder puts a replacement character, 4, for what is not UTF-8.
Lossy(r) == IF r.ok THEN [r EXCEPT !.val = [i \in DOMAIN @ |-> IF @[i] = 3 THEN 4 ELSE @[i]]] ELSE r

\* ReplyReader.utf8: a fatal decoder.
GetUtf8(buf, pos) == Require(GetBytes(buf, pos), LAMBDA t : 3 \notin Range(t))

GetFlag(buf, pos) == Require(GetInt(buf, pos, 1), LAMBDA v : v <= 1)

\* The optional value after a tag.
GetUnless(isNull, pos, Get(_)) ==
  IF isNull THEN Good(<<>>, pos) ELSE Then(Get(pos), LAMBDA r : Good(<<r.val>>, r.pos))

GetOption(buf, pos, Get(_, _)) ==
  Then(GetFlag(buf, pos), LAMBDA tag : GetUnless(tag.val = 0, tag.pos, LAMBDA p : Get(buf, p)))

\* The fields of a structure, one after another.
GetFields(Get(_, _, _), fields, buf, pos) ==
  FoldLeft(LAMBDA c, f : Then(c, LAMBDA d :
             Then(Get(f[2], buf, d.pos), LAMBDA r : Good(d.val @@ (f[1] :> r.val), r.pos))),
           Good(<<>>, pos), fields)

\* So many elements.
GetAll(count, buf, pos, Get(_, _)) ==
  IF count > Len(buf) THEN Bad
  ELSE FoldLeft(LAMBDA c, i : Then(c, LAMBDA d :
                  Then(Get(buf, d.pos), LAMBDA r : Good(Append(d.val, r.val), r.pos))),
                Good(<<>>, pos), [i \in 1..count |-> i])

\* A count and so many pairs of texts.
GetPair(buf, pos, GetText(_, _)) ==
  Then(GetText(buf, pos), LAMBDA k : Then(GetText(buf, k.pos), LAMBDA v : Good(<<k.val, v.val>>, v.pos)))
GetPairs(buf, pos, GetText(_, _)) ==
  Then(GetInt(buf, pos, 8), LAMBDA n : GetAll(n.val, buf, n.pos, LAMBDA b, p : GetPair(b, p, GetText)))

GetSimple(type, buf, pos) ==
  CASE type = "u8"     -> GetInt(buf, pos, 1)
    [] type = "u16"    -> GetInt(buf, pos, 2)
    [] type = "u32"    -> GetInt(buf, pos, 4)
    [] type = "u64"    -> GetInt(buf, pos, 8)
    [] type = "bytes"  -> GetBytes(buf, pos)
    [] type = "id"     -> GetFixed(buf, pos, Len16)
    [] type = "addr"   -> GetFixed(buf, pos, Len20)
    [] type = "word"   -> GetFixed(buf, pos, Len32)
    [] type = "text"   -> Lossy(GetBytes(buf, pos))
    [] type = "bool"   -> Then(GetFlag(buf, pos), LAMBDA f : Good(f.val = 1, f.pos))

GetStruct(fields, buf, pos) == GetFields(GetSimple, fields, buf, pos)

ReadExecutionQuoteV1(buf, pos) ==
  GetStruct(<<<<"quoteVersion", "u8">>, <<"chainId", "word">>, <<"entryPoint", "addr">>,
              <<"exitAddress", "addr">>, <<"clientIntentId", "word">>, <<"paymentAdapter", "addr">>,
              <<"paymentId", "word">>, <<"feeAsset", "addr">>, <<"exitFee", "word">>,
              <<"networkFee", "word">>, <<"paymentGasLimit", "word">>, <<"actionTarget", "addr">>,
              <<"actionCalldataHash", "word">>, <<"actionGasLimit", "word">>,
              <<"trackedAssetsHash", "word">>, <<"maximumTransactionGas", "word">>,
              <<"maximumFeePerGas", "word">>, <<"returnDataLimit", "word">>,
              <<"validAfterUnix", "u64">>, <<"validUntilUnix", "u64">>, <<"quoteNonce", "word">>>>,
            buf, pos)

\* fec is read for the tag 1 alone; any other tag means none.
ReadFragmentWire(buf, pos) ==
  Then(GetStruct(<<<<"messageId", "u64">>, <<"totalFragments", "u32">>, <<"sequence", "u32">>,
                   <<"data", "bytes">>, <<"fecTag", "u8">>>>, buf, pos),
       LAMBDA f :
         Then(GetUnless(f.val.fecTag # 1, f.pos, LAMBDA p :
                GetStruct(<<<<"dataShardCount", "u32">>, <<"originalDataLen", "u64">>>>, buf, p)),
              LAMBDA fec :
                Good([messageId |-> f.val.messageId, totalFragments |-> f.val.totalFragments,
                      sequence |-> f.val.sequence, data |-> f.val.data, fec |-> fec.val], fec.pos)))

GetField(type, buf, pos) ==
  CASE type = "optText"   -> Then(GetInt(buf, pos, 1), LAMBDA tag :
                               GetUnless(tag.val = 0, tag.pos, LAMBDA p : GetSimple("text", buf, p)))
    [] type = "optWord"   -> GetOption(buf, pos, LAMBDA b, p : GetFixed(b, p, Len32))
    [] type = "open"      -> GetOption(buf, pos, LAMBDA b, p : GetStruct(<<<<"host", "text">>, <<"port", "u16">>>>, b, p))
    [] type = "fin"       -> GetOption(buf, pos, LAMBDA b, p : Require(GetInt(b, p, 4), LAMBDA v : v < TunnelFins))
    [] type = "pairs"     -> GetPairs(buf, pos, LAMBDA b, p : GetSimple("text", b, p))
    [] type = "utf8Pairs" -> GetPairs(buf, pos, LAMBDA b, p : GetUtf8(b, p))
    [] type = "noSurbs"   -> Then(Require(GetInt(buf, pos, 8), LAMBDA v : v = 0),
                                  LAMBDA n : Good(<<>>, n.pos))
    [] type = "fragment"  -> ReadFragmentWire(buf, pos)
    [] type = "quote"     -> ReadExecutionQuoteV1(buf, pos)
    [] type = "signature" -> Require(GetBytes(buf, pos), LAMBDA v : Len(v) = Len65)
    [] type = "paidCode"  -> Require(GetInt(buf, pos, 4), LAMBDA v : v < PaidCodes)
    [] type = "detail"    -> Require(GetBytes(buf, pos), IsDetail)
    [] type = "tunnelCode" -> Require(GetInt(buf, pos, 4), LAMBDA v : v < TunnelCodes)
    [] type = "part"      -> Require(GetBytes(buf, pos), LAMBDA v : Len(v) <= PartMax)
    [] type = "tunnelDetail" -> Lossy(Require(GetBytes(buf, pos), LAMBDA v : Len(v) <= DetailMax))
    [] OTHER              -> GetSimple(type, buf, pos)

\* A variant index, and the fields of that variant.
GetVariant(variants, buf, pos) ==
  Then(Require(GetInt(buf, pos, 4), LAMBDA v : v < Len(variants)), LAMBDA v :
    Then(GetFields(GetField, variants[v.val + 1].fields, buf, v.pos), LAMBDA r :
      Good(r.val @@ ("tag" :> variants[v.val + 1].tag), r.pos)))

\* checkVersion, the value, and expectEnd where the code has it.
DecodeVersioned(variants, buf) ==
  IF buf = <<>> \/ buf[1] # Version THEN Bad ELSE GetVariant(variants, buf, 1)

RelayerReads == <<
  [tag |-> "SubmitTransaction", fields |-> <<<<"to", "addr">>, <<"data", "bytes">>>>],
  [tag |-> "Dummy", fields |-> <<<<"padding", "bytes">>>>],
  [tag |-> "Heartbeat", fields |-> <<<<"id", "u64">>, <<"timestamp", "u64">>>>],
  [tag |-> "Fragment", fields |-> <<<<"frag", "fragment">>>>],
  [tag |-> "AnonymousRequest", fields |-> <<<<"inner", "bytes">>, <<"replySurbs", "noSurbs">>>>],
  [tag |-> "ServiceResponse", fields |-> <<<<"requestId", "u64">>, <<"fragment", "fragment">>>>],
  [tag |-> "NeedMoreSurbs", fields |-> <<<<"requestId", "u64">>, <<"fragmentsRemaining", "u32">>>>]>>

PaidQuoteRequestReads == <<
  <<"chainId", "u64">>, <<"entryPoint", "addr">>, <<"clientIntentId", "word">>,
  <<"paymentAdapter", "addr">>, <<"paymentId", "word">>, <<"feeAsset", "addr">>,
  <<"paymentGasLimit", "u64">>, <<"actionTarget", "addr">>, <<"actionCalldataHash", "word">>,
  <<"actionGasLimit", "u64">>, <<"trackedAssetsHash", "word">>, <<"maximumTransactionGas", "u64">>,
  <<"returnDataLimit", "u32">>, <<"validUntilUnix", "u64">>>>

ServiceReads == <<
  [tag |-> "Echo", fields |-> <<<<"data", "bytes">>>>],
  [tag |-> "HttpRequest", fields |-> <<<<"method", "text">>, <<"url", "text">>, <<"headers", "pairs">>,
                                       <<"body", "bytes">>>>],
  [tag |-> "RpcRequest", fields |-> <<<<"method", "text">>, <<"params", "bytes">>, <<"id", "u64">>,
                                      <<"rpcUrl", "optText">>>>],
  [tag |-> "SubmitTransaction", fields |-> <<<<"to", "addr">>, <<"data", "bytes">>>>],
  [tag |-> "BroadcastSignedTransaction",
   fields |-> <<<<"signedTx", "bytes">>, <<"rpcUrl", "optText">>, <<"rpcMethod", "optText">>>>],
  [tag |-> "ReplenishSurbs", fields |-> <<<<"requestId", "u64">>, <<"surbs", "noSurbs">>>>],
  [tag |-> "PaidTransactionV2",
   fields |-> <<<<"chainId", "u64">>, <<"entryPoint", "addr">>, <<"calldata", "bytes">>,
                <<"executionId", "word">>, <<"validUntilUnix", "u64">>>>],
  [tag |-> "PaidQuoteRequestV2", fields |-> PaidQuoteRequestReads],
  [tag |-> "TunnelV1",
   fields |-> <<<<"tunnelId", "id">>, <<"seq", "u32">>, <<"open", "open">>, <<"ackOffset", "u64">>,
                <<"data", "bytes">>, <<"close", "bool">>, <<"holdMs", "u32">>>>]>>

PaidV2RejectionReads == <<<<"code", "paidCode">>, <<"retryable", "bool">>, <<"detail", "detail">>>>

PaidTransactionOutcomeReads == <<
  [tag |-> "submitted", fields |-> <<<<"executionId", "word">>, <<"transactionHash", "word">>>>],
  [tag |-> "PaidRejected", fields |-> <<<<"executionId", "optWord">>>> \o PaidV2RejectionReads]>>

PaidQuoteOutcomeReads == <<
  [tag |-> "issued", fields |-> <<<<"quote", "quote">>, <<"executionId", "word">>,
                                  <<"exitSignature", "signature">>>>],
  [tag |-> "PaidRejected", fields |-> PaidV2RejectionReads]>>

TunnelReplyReads == <<
  [tag |-> "Data", fields |-> <<<<"seq", "u32">>, <<"offset", "u64">>, <<"data", "part">>, <<"fin", "fin">>>>],
  [tag |-> "Rejected", fields |-> <<<<"seq", "u32">>, <<"code", "tunnelCode">>, <<"retryable", "bool">>,
                                    <<"detail", "tunnelDetail">>>>]>>

DecodeRelayerPayload(buf) == DecodeVersioned(RelayerReads, buf)
DecodeServiceRequest(buf) == AtEnd(DecodeVersioned(ServiceReads, buf), buf)
DecodePaidTransactionOutcome(buf) == AtEnd(DecodeVersioned(PaidTransactionOutcomeReads, buf), buf)
DecodePaidQuoteOutcome(buf) == AtEnd(DecodeVersioned(PaidQuoteOutcomeReads, buf), buf)
DecodeTunnelReply(buf) == AtEnd(DecodeVersioned(TunnelReplyReads, buf), buf)

HttpReads == <<<<"status", "u16">>, <<"headers", "utf8Pairs">>, <<"body", "bytes">>, <<"truncated", "bool">>>>

DecodeHttpResponse(buf) == AtEnd(GetFields(GetField, HttpReads, buf, 0), buf)

\* The data is what is left when fewer bytes came than its length says.
DecodeRpcResponse(buf) ==
  Then(GetStruct(<<<<"id", "u64">>, <<"tag", "u32">>, <<"len", "u64">>>>, buf, 0), LAMBDA r :
    Then(Good(SubSeq(buf, r.pos + 1, IF r.pos + r.val.len > Len(buf) THEN Len(buf) ELSE r.pos + r.val.len), 0),
         LAMBDA d : Good([id |-> r.val.id, ok |-> r.val.tag = 0, data |-> d.val], r.pos + Len(d.val))))

\* A submission answers with a hash, or with a text: prefix, code, colon, detail.
\* A code is a text without a colon, and the n-th is n printable characters.
\* The colon is a character of its own, Base + 1; the prefix, Base + 2, starts
\* no other reply but a hash that happens to begin with it.
Colon == Base + 1
SubmitPrefix == Base + 2
SubmitCode(n) == [i \in 1..n |-> 1]
SubmitCodes == {SubmitCode(n) : n \in 1..7}

WriteSubmitResponse(p) ==
  IF p.tag = "submitted" THEN p.transactionHash
  ELSE <<SubmitPrefix>> \o p.code \o <<Colon>> \o p.detail

\* The first colon separates; the detail may hold more of them.
DecodeSubmitRejection(buf) ==
  LET colons == {i \in 2..Len(buf) : buf[i] = Colon}
      at     == Min(colons)
      code   == SubSeq(buf, 2, at - 1)
      detail == SubSeq(buf, at + 1, Len(buf))
  IN IF 3 \in Range(buf) \/ colons = {} THEN Bad
     ELSE IF code \in SubmitCodes /\ IsDetail(detail)
       THEN Good([tag |-> "rejected", code |-> code, detail |-> detail], Len(buf))
       ELSE Bad

DecodeSubmitTransactionResponse(buf) ==
  IF buf # <<>> /\ buf[1] = SubmitPrefix THEN DecodeSubmitRejection(buf)
  ELSE IF Len(buf) = Len32 THEN Good([tag |-> "submitted", transactionHash |-> buf], Len32)
  ELSE Bad

-----------------------------------------------------------------------------
(* The binary claim batch, big-endian. *)

Big(b) == Reverse(b)
BigInt(buf, pos, n) == Then(GetFixed(buf, pos, n), LAMBDA b : Good(Number(Reverse(b.val)), b.pos))

EncodeClaimItem(item) ==
  PutU8(IF item.reclaimed THEN 1 ELSE 0) \o Big(PutU16(Len(item.id))) \o item.id
    \o Big(PutU32(Len(item.data))) \o item.data

EncodeBinaryClaim(items) ==
  PutU8(Version) \o Big(PutU16(Len(items)))
    \o FlattenSeq([i \in DOMAIN items |-> EncodeClaimItem(items[i])])

\* An ID is printable and not empty; only bit 0 of the flags is read.
GetClaimField(type, buf, pos) ==
  CASE type = "flags" -> GetInt(buf, pos, 1)
    [] type = "id"    -> Then(BigInt(buf, pos, 2), LAMBDA n :
                           Require(GetFixed(buf, n.pos, n.val), LAMBDA id : id # <<>> /\ Range(id) \subseteq {1, 2}))
    [] type = "data"  -> Then(BigInt(buf, pos, 4), LAMBDA n : GetFixed(buf, n.pos, n.val))

DecodeClaimItem(buf, pos) ==
  Then(GetFields(GetClaimField, <<<<"flags", "flags">>, <<"id", "id">>, <<"data", "data">>>>, buf, pos),
       LAMBDA r : Good([id |-> r.val.id, data |-> r.val.data, reclaimed |-> r.val.flags % 2 = 1], r.pos))

DecodeBinaryClaim(buf) ==
  IF buf = <<>> \/ buf[1] # Version THEN Bad
  ELSE AtEnd(Then(BigInt(buf, 1, 2), LAMBDA count : GetAll(count.val, buf, count.pos, DecodeClaimItem)), buf)

-----------------------------------------------------------------------------
(* Messages to check the formats on: the fields of one message differ from  *)
(* each other, and any two of them take the extremes of their types.        *)

SampleOf(type) ==
  CASE type = "u8"  -> {0, Base - 1}
    [] type = "u16" -> {0, Base^2 - 1}
    [] type = "u32" -> {0, Base^4 - 1}
    [] type = "u64" -> {0, Base^8 - 1}
    [] type = "id"  -> {<<0>>, <<3>>}
    [] type = "addr" -> {<<3, 3>>}
    [] type = "word" -> {<<3, 3, 3>>}
    [] type = "bytes" -> {<<>>, <<3, 0, 1>>}
    [] type = "text"  -> {<<>>, <<2, 0>>}
    [] type = "bool"  -> BOOLEAN
    [] type = "optText" -> {<<>>, <<<<>>>>, <<<<1, 2>>>>}
    [] type = "optWord" -> {<<>>, <<<<1, 1, 2>>>>}
    [] type = "open"  -> {<<>>, <<[host |-> <<2>>, port |-> 15]>>}
    [] type = "fin"   -> {<<>>, <<TunnelFins - 1>>}
    [] type \in {"pairs", "utf8Pairs"} -> {<<>>, <<<<<<1>>, <<>>>>, <<<<2>>, <<1, 2>>>>>>}
    [] type = "noSurbs" -> {<<>>}
    [] type = "fragment" ->
         {[messageId |-> 9, totalFragments |-> 5, sequence |-> 4, data |-> <<2, 1>>, fec |-> fec] :
            fec \in {<<>>, <<[dataShardCount |-> 2, originalDataLen |-> 3]>>}}
    [] type = "signature"  -> {<<1, 2, 3, 0>>}
    [] type = "paidCode"   -> {0, PaidCodes - 1}
    [] type = "detail"     -> {<<1>>, <<2, 1>>}
    [] type = "tunnelCode" -> {0, TunnelCodes - 1}
    [] type = "part"       -> {<<>>, <<3, 0, 3>>}
    [] type = "tunnelDetail" -> {<<>>, <<1, 0>>}
    [] type = "quote" ->
         {[quoteVersion |-> 1, chainId |-> <<0, 0, 1>>, entryPoint |-> <<0, 1>>, exitAddress |-> <<0, 2>>,
           clientIntentId |-> <<0, 0, 2>>, paymentAdapter |-> <<0, 3>>, paymentId |-> <<0, 0, 3>>,
           feeAsset |-> <<1, 0>>, exitFee |-> <<0, 1, 0>>, networkFee |-> <<0, 1, 1>>,
           paymentGasLimit |-> <<0, 1, 2>>, actionTarget |-> <<1, 1>>, actionCalldataHash |-> <<0, 1, 3>>,
           actionGasLimit |-> <<0, 2, 0>>, trackedAssetsHash |-> <<0, 2, 1>>,
           maximumTransactionGas |-> <<0, 2, 2>>, maximumFeePerGas |-> <<0, 2, 3>>,
           returnDataLimit |-> <<0, 3, 0>>, validAfterUnix |-> 7, validUntilUnix |-> 8,
           quoteNonce |-> <<0, 3, 1>>]}

\* The value of the i-th field when it is not one of the two.
Usual(type, i) ==
  CASE type \in {"u16", "u32", "u64"} -> i
    [] type = "addr" -> Digits(i, Len20)
    [] type = "word" -> Digits(i, Len32)
    [] OTHER         -> CHOOSE v \in SampleOf(type) : TRUE

FieldAt(fields, n) == CHOOSE i \in DOMAIN fields : fields[i][1] = n

Messages(fields) ==
  {[n \in {fields[i][1] : i \in DOMAIN fields} |->
      IF n = fields[j][1] THEN v ELSE IF n = fields[k][1] THEN u
      ELSE LET i == FieldAt(fields, n) IN Usual(fields[i][2], i)] :
     <<j, k, v, u>> \in UNION {{j} \X {k} \X SampleOf(fields[j][2]) \X SampleOf(fields[k][2]) :
                               j \in DOMAIN fields, k \in DOMAIN fields}}

\* What is written is read back; nothing shorter is taken for a message, and
\* nothing longer where the format is strict.
ReadsBack(wire, Read(_), m, strict) ==
  /\ Read(wire).ok
  /\ Read(wire).val = m
  /\ \A k \in 0..Len(wire) - 1 : ~Read(SubSeq(wire, 1, k)).ok
  /\ strict => \A b \in 0..Base - 1 : ~Read(Append(wire, b)).ok

ClaimBatches ==
  LET items == {[id |-> id, data |-> d, reclaimed |-> r] :
                  id \in {<<1>>, <<2, 1>>}, d \in {<<>>, <<3, 0>>}, r \in BOOLEAN}
  IN UNION {[1..n -> items] : n \in 0..2}

\* Every variant of a format, on each of its messages
Faithful(variants, Write(_), Read(_), strict) ==
  \A i \in DOMAIN variants : \A f \in Messages(variants[i].fields) :
    LET m == f @@ ("tag" :> variants[i].tag)
    IN Encodable(m) => ReadsBack(<<Version>> \o Write(m), Read, m, strict)

Formats == {"service", "relayer", "paid", "quote", "tunnel", "http", "claim", "rpc", "submit"}

\* A payload with reply blocks inside is written, but not one the client reads
FaithfulFormats == {f \in Formats :
  CASE f = "service" ->
         /\ Faithful(ServiceReads, WriteServiceRequest, DecodeServiceRequest, TRUE)
         /\ ~DecodeServiceRequest(<<Version>> \o WriteServiceRequest(
               [tag |-> "ReplenishSurbs", requestId |-> 3, surbs |-> <<<<2, 2>>, <<1>>>>])).ok
    [] f = "relayer" ->
         /\ Faithful(RelayerReads, WriteRelayerPayload, DecodeRelayerPayload, FALSE)
         /\ ~DecodeRelayerPayload(<<Version>> \o WriteRelayerPayload(
               [tag |-> "AnonymousRequest", inner |-> <<1>>, replySurbs |-> <<<<2, 2>>>>])).ok
    [] f = "paid" ->
         Faithful(PaidTransactionOutcomeReads, WritePaidTransactionOutcome, DecodePaidTransactionOutcome, TRUE)
    [] f = "quote" -> Faithful(PaidQuoteOutcomeReads, WritePaidQuoteOutcome, DecodePaidQuoteOutcome, TRUE)
    [] f = "tunnel" -> Faithful(TunnelReplyReads, WriteTunnelReply, DecodeTunnelReply, TRUE)
    [] f = "http" ->
         \A h \in Messages(HttpReads) : ReadsBack(WriteHttpResponse(h), DecodeHttpResponse, h, TRUE)
    [] f = "claim" ->
         \A batch \in ClaimBatches : ReadsBack(EncodeBinaryClaim(batch), DecodeBinaryClaim, batch, TRUE)
    [] f = "rpc" ->
         \A t \in {0, 1}, d \in SampleOf("bytes") :
           DecodeRpcResponse(WriteRpcResponse([id |-> 6, tag |-> t, data |-> d])).val
             = [id |-> 6, ok |-> t = 0, data |-> d]
    [] f = "submit" ->
         /\ \A h \in [1..Len32 -> {0, 3}] :
              LET m == [tag |-> "submitted", transactionHash |-> h]
              IN ReadsBack(WriteSubmitResponse(m), DecodeSubmitTransactionResponse, m, TRUE)
         /\ \A c \in SubmitCodes, d \in {<<1>>, <<2, Colon>>, <<Colon, 1>>} :
              LET m == [tag |-> "rejected", code |-> c, detail |-> d]
              IN DecodeSubmitTransactionResponse(WriteSubmitResponse(m)).val = m}

VARIABLE format       \* the format of the message that is sent, or "none"

WireInit == format \in Formats

\* Every message is read back as it was written, and no part of one is taken for
\* another message: requests, replies, paid outcomes, tunnel parts, HTTP replies
\* and claim batches (bincode.ts, http_response.ts, transport.ts). A request with
\* reply blocks inside is refused, never misread. The RPC reply has no end to
\* check.
WireFaithful == format \in Formats => format \in FaithfulFormats
=============================================================================
