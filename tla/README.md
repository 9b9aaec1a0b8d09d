# TLA+ models of nox-sdk

nox-sdk is the client side of the NOX mix network. `packages/nox-client` (TypeScript)
sends requests through three hops to an exit, gets the replies back on single-use reply
blocks (SURBs) held for it by an entry node, and on top of that pays for and executes
on-chain actions. `packages/anon-rpc-worker` runs the client in a web worker and tunnels TLS
through it. `nox-wasm` and `nox-tls` (Rust) are cryptography behind a WebAssembly boundary.

The models cover the parts of both packages whose correctness depends on the order of
events, and the algorithms (codecs, erasure code, membership rules) those parts trust.
Paths are relative to `src/packages/nox-client/src/` unless they start with `packages/` or
`worker:`, which stands for `src/packages/anon-rpc-worker/src/`.

## Components

| component | state | operations | talks to |
|---|---|---|---|
| Reply claim scheduler (`reply_claims.ts`) | targets (requests that await replies); per entry: IDs in flight, open and held claims, rotation cursor, what is known of the entry, acks waiting | `track`, the interval `tick`, `kick`, `claim`, `noteNoServe`, `close` | the client's pending table and SURB registry (`isPending`, `activeIds`, `deliver`), the entry's claim endpoint |
| Calls (`client.ts`, `_sendWithRetry`, `_sendOnRoute`) | attempts of each call, the timeout resend, the transport budget, hedge timer; client-wide `hedgesInFlight`; pinned entry and its failures in a row | start, upload, reply, timeout, abort, hedge, lost-reply report, `disconnect` | the scheduler, the KPS transport or HTTP, topology |
| KPS connection pool (`kps/transport.ts`) | per node and lane: dial, connection, active streams, waiters, teardowns, cooldown | `request`, `prewarm`, `maintain`, `close`, callbacks of dials, streams and connections | the browser's or the caller's dial function; its streams carry KPS-HTTP/1 |
| KPS HTTP/1 codec (`kps/http1.ts`) | the parser's state between chunks | encode a request, read a response | the pool |
| Cover traffic (`cover.ts`) | `running`, one `timerId` | `start`, `stop`, timer, dummy | the pinned entry |
| Paid execution (`paid_execute.ts`) | of one call: quotes submitted, exits used and counted, the pinned block | `executePaid`: precheck, quote, prepare, submit, evidence, await settlement, resume | exits (through the client), the chain (through a reader), the application, which passes `pending` back |
| Fragmentation (`fragmentation.ts`) | partial messages with their bytes and ages | `addFragment`, eviction, `pruneStale`, erasure decoding | the client's `deliver` path |
| Replenishment (`replenishment.ts`, `client.ts` 2099-2308) | burst rounds per request, retained return paths | NEED_MORE_SURBS, stall checks, burst rounds | calls, the scheduler |
| Wire formats (`bincode.ts`, `http_response.ts`, the claim batch of `transport.ts`) | none | write and read each message | all of the above |
| Topology (`topology.ts`, `client.ts` 2314-2660, 3741-3830) | node list, entry, verified membership, refresh and check in flight | boot, refresh, chain check, entry switch, `disconnect`, route selection | calls, paid execution |
| Seeds of the classic mode (`topology.ts`, `client.ts` 447-501, 2324-2373, 2766-2856) | node list, entry, last seed and its block, time of the last verification, one refresh in flight | `connect`, refresh by timer or paid call, fallback to nodes, registry verification | paid execution (waits for a fresh list), the response WebSocket, `rpc.ts` |
| Membership rules (`kps/pinned.ts`, `kps/discovery.ts`) | removal votes, first-seen times, probation | served topologies, registry reads, floors | topology |
| Response WebSocket (`transport.ts`, `client.ts`) | socket, entry it serves, IDs queued and IDs subscribed | connect, reconnect, subscribe, push, move to another entry, close | the scheduler (which skips the entry it serves) |
| Worker (`worker:core.ts`, `worker:fetch-map.ts`, `worker:local-answers.ts`) | boot, client link, call slots, waiting calls, trap count, memo answers | boot with retries, accept loop, hops and redirects, verification, failure | the client, the TLS pool, the host |
| TLS of the worker (`worker:tls/`) | sessions: opening, spare, in use, idle, with their timers; skipped exits; per tunnel: exchange, copies, parts | acquire, release, replenish, retire; write, copy, part, gap, retry | the client's `tunnelSend`, the TLS library |

All of it runs on one event loop, so every `await` is a point where a timer, an abort, a
failure or `disconnect()` may change what was read before it; entries, exits, anchors and the
chain answer late, twice or not at all, and one of them may lie; budgets, slots and counters
are shared by callbacks that do not know of each other.

What makes them correct:

- scheduler: no reply block is claimed twice at once (a v1 entry deletes what it serves), no
  reply is acked before it is delivered, claims and long-polls are counted exactly, nothing
  waits for ever;
- calls: a bounded number of copies, at most one execution of a request that may not be
  repeated, no early failure while a copy may still answer, nothing left behind;
- pool: slots counted exactly and handed on, no connection nobody owns, every exchange ends;
- codecs: what is read is what was written, however a stream is cut;
- paid execution: `not-paid` and a reported settlement are true, and stay true, whatever the
  exits do with the calldata they hold;
- replies in parts: what is handed on is a message the exit sent, buffers and blocks are
  counted and forgotten, a reply that can complete does;
- topology: no node the registry does not vouch for, under its key; a route always exists;
  one liar changes nothing; late answers change nothing; the list converges to the registry;
- classic mode: every node is what one registry block says, not older than the last seed's,
  and one the last seed saw online; every reply block that nobody claims is subscribed;
- worker: every call is answered, slots and sessions are owned by exactly one party, no hop
  leaves in plaintext that may not, one wrong answer is never remembered, a failure is final;
- tunnel: TLS is fed one stream in order, and a response is the whole response.

## Modules

| module | models | lines of the code |
|---|---|---|
| `ReplyClaims` | the scheduler for one entry, the callbacks it makes into the client, and the entry's mailbox (external) | `reply_claims.ts`, parts of `client.ts`, `surb_pool.ts` |
| `SendCall` | calls and their copies | `client.ts`, `resend.ts` |
| `KpsPool` | one pool entry and the exchanges on it | `kps/transport.ts` |
| `KpsHttp` | requests and the incremental reader of responses | `kps/http1.ts` |
| `Cover` | the cover traffic loop | `cover.ts` |
| `PaidExecute` | `executePaid`, an application that calls it again, and the chain and exits (external) | `paid_execute.ts` |
| `FragmentedReply` | a reply in fragments: reassembly, bursts, stalls | `fragmentation.ts`, `client.ts`, `replenishment.ts`, `surb_pool.ts` |
| `ReedSolomon` | GF(2^8), the matrix, reconstruction | `fragmentation.ts` |
| `Bincode` | writers and readers of every message | `bincode.ts`, `http_response.ts`, `transport.ts` |
| `Worker` | the worker, over | `worker:core.ts`, `fetch-map.ts`, `local-answers.ts` |
| `TlsPool` | the TLS session pool | `worker:tls/pool.ts` |
| `Tunnel` | an HTTP exchange over tunnels | `worker:tls/tunnel.ts`, `channel.ts`, `transport.ts`, `client.ts` |
| `TlsStream` | what `Tunnel` promises: an abstract byte stream | |
| `Topology` | boot, refresh, check, switch, disconnect, over | `client.ts` |
| `Discovery` | the rules on members, over | `kps/pinned.ts`, `kps/discovery.ts` |
| `Routes` | route and exit selection | `topology.ts` |
| `Seeds` | the node list of the classic mode | `topology.ts`, `client.ts`, `rpc.ts` |
| `ReplySocket` | the response WebSocket and who subscribes on it | `transport.ts`, `client.ts` |
| `MC...` | instances for TLC | |
| `...Proofs` | theorems and their proofs | |

**ReplyClaims.** `tracked`, `dataWanted`, `suspect`, `lostReported` are the fields of a
target; `inFlight` ... `acks` are `EntryState`; `open` holds the async frames of `claim()`,
one per slot, from the request to its `finally` (`served` and `items` are the entry's side).
The scheduler keeps independent state per entry, so one entry is enough. `Tick` is the whole
of `tick()`: prune targets, claim in rotation order with batching, flush acks, stop the
interval if nothing is left. `ClaimReturns` is everything after the answer: counters, what
the answer tells about the entry, delivery, acks, lost-reply suspicion. `ClaimFails` is its
catch block. A failure may come before or after the entry served the claim. Batches of a tick
are formed together (`StartClaims`), since `claimFrom` runs without an await. Times are
reduced to the comparisons the code makes (`ParityFallback`, `LostGrace`).

**SendCall.** A copy has a `result` once its promise is settled; `OnSuccess`/`OnFailure` are
the handlers, which run in a later microtask. Timers and network events need an empty
microtask queue (`Quiet`); the caller's abort and `disconnect()` do not. Route choice is
reduced to the entry and the reply-block format, the two things `_planResend` and
`_planTransportResend` constrain. A packet is written, not yet written, or will never be, so
that a copy may have reached the exit even though an upload failed.

**KpsPool.** `phase` is where the async `request()` waits. An abort ends an await only if
that await listens to the signal; an exchange aborted at another point goes on until it does,
which is why `doomed` (an abort listener registered too late to fire) is a state of its own.
`ConnCloses` runs every teardown of the entry, as `onClosed()` does. `Release` hands the slot
to the first waiter without lowering `active`. The listeners told of a close are the client's.

**KpsHttp.** A stream is a sequence of symbols: CR, LF, a status or header line named by what
`parseResponseHead` tells apart, and text. `reader` is the parser between two chunks; `Chunk`
appends one of any length and runs the loop of the reader, `StreamEnds` its end. Limits count
symbols. The reference for a response is the peer's own record of what it sent, and for a
request a server that finds the end of the body by its length alone.

**Cover.** `timers` are the timers that will fire, of which `timerId` names the last; `sending`
counts the calls of `_fire()` that await a dummy.

**PaidExecute.** One block has one timestamp; `validUntil` is compared with it. `held` are
the quotes whose calldata an exit has: from `Submit` on it may settle in any block up to
expiry, whatever it answered. `FlagBlocks` is the difference between a reader pinned to the
block asked for and one that answers at its latest block (`mixnetChainReader`). Fees, gas
plans and calldata decide only where a call gives up, and that is left open.

**FragmentedReply.** `transit` is what the mixnet carries towards the client, `uploads` the
bursts that send packets batch by batch, `held` the blocks the exit has for the answer,
`registry` the client's. `Deliver` is the whole delivery of a fragment: checks, eviction,
storing, decoding, answering or failing the request. The blocks of a request are
interchangeable and counted. Fragment payloads are real bytes, so that what the erasure
decoder returns can be compared with what was sent; `MCDecode` tabulates `DecodeShards` of
`ReedSolomon` for the shards of the instance.

**Bincode.** Each writer and reader follows the code field by field, on a scaled alphabet: a
byte is a digit in base 4 and a `uN` has N/8 of them, fixed lengths are 1 to 4 bytes, so that
fields of different types keep different widths and their order matters. A reader returns the
value and where it stopped, or an error.

**Worker** and **TlsPool.** `call[c]` is where `handleFetch()` of a call waits, `slots` the
accept loop's semaphore, `link` the client as the worker sees it, `boot` the stages of
`boot()`. In the pool, a session is named by the open that makes it; `stage` and `chan` say
what each call does with which. Opens run on their own: a call that waits for another call's
open, gives up, and sees it land is three steps. `Worker` EXTENDS `TlsPool`: its call steps
are compositions of a worker step and a pool step.

**Tunnel.** Byte k of the upstream's stream is k, so that the stream TLS gets shows every gap,
repetition and change of order. `wire`, `streams`, `parts` are the copies under way, the
copies being answered and the parts under way, all unordered; `exit` is the exit's session
(external): it writes each `seq` once and in order, and drops what is acknowledged. `Marks`
says how long the stream must be for an exchange to be satisfied, which TLS decides.

**Topology.** Three activities with a program counter each (`boot`, `refresh`, `check`) and the
client's `verified`, `base`, `working`, `entry`. An await is the border between two steps.
Documents and registry reads carry what `Discovery` judges them by. The random draws of
`Routes` are sets of possible results.

**Seeds.** `load` is the one document being loaded, at the awaits of `loadTopology()`: the head
of the answer, its body, the registry reads as a batch or one by one. `queue` is what is left
of the loop over the sources, `use` whether it runs over seeds or nodes. `SetNodes` assigns the
list and its time before it looks for an entry, as the code does, and when there is none the
error lands in the loop (`SourceFails`), which goes on with what was half applied. A registry
gives each member a key, an ingress and eligibility per block; `online` remembers whom the last
seed reported.

**ReplySocket.** `subscribed` is the client's set of IDs, `queued` what waits for the connection
to open, `heard` what the entry has subscribed on the open connection (external). Requests, the
copies of tunnels and bursts reduce to when they register blocks and when they subscribe them.
The move to another entry is the part of `_setNodes` that concerns the socket; `ReplyClaims`
has the other side of it, the scheduler skipping the entry the socket serves.

**MC modules.** `MCKpsPool`, `MCFragmentedReply` and `MCClassic` hold instances of two or three models that
share no variable: one of them moves, the others rest. Their states add up and do not multiply.
`MCWorker` restricts the initial states to the combinations of settings in which the parts
meet (memo answers without TLS, one session mode per TLS setting).

## Runs

| run | instance | distinct states | what it shows |
|---|---|---|---|
| `claims_shared` | 2 requests (one a stream), entry v1 or v2, 2 claims at once, 2 or 1 IDs each, one failure; 2 seeds (one a node), 3 members, 3 registry blocks, 2 mishaps; 2 requests with a burst each, a socket that drops once and moves twice | 744 080 | claims are disjoint and counted; one slot stays free of long-polls; the node list is vouched for; what the socket's entry owes is subscribed |
| `claims_blocks` | 1 request, 2 + 1 reply blocks, every kind of reply, parity fallback, WebSocket first, bounds of one ack | 999 794 | no ack or failure loses a reply in several blocks, replenished ones included |
| `claims_live` | 2 requests, 1 claim slot, probes, one failure | 87 076 | each held reply is brought back; the interval stops |
| `send_one` | 1 call, any retry mode, 2 packets, hedge, lost-reply and transport resend, abort, disconnect | 872 172 | copy bounds, at most once, no early failure, nothing left, the hedge counter is exact, every call settles |
| `pool` | 2 exchanges, 1 slot, 3 dials; a response of up to 11 head symbols and 4 body bytes in any chunks; 4 starts of cover traffic | 206 224 | slots exact, none lost to a waiter, no leaked connection, every exchange ends; the codec reads what was sent; restarts leave at most the loops they overtook |
| `paid_call` | 2 calls, 2 exits, 2 quotes, 4 blocks, latest-block reader, failed reads, restarts | 1 892 724 | results are true of the quotes of the call; a second exit waits for expiry |
| `paid_resumed` | 2 calls, 1 exit each, pinned reader, precheck reads succeed | 470 077 | with `pending` passed back, `not-paid` is true of every quote ever submitted; every call resolves |
| `worker` | 2 host calls and a verification, 2 hosts, 4 sessions alive, 1 spare, 2 slots, 1 redirect, 1 trap, 1 wrong answer | 196 596 | slots and sessions owned, failure final, no downgrade, memo answers true, every call answered |
| `reply_parts` | 4 answers (plain, coded, contradictory, two messages), 1 loss, 1 failed upload, 3 rounds; each of nine formats with every choice of its fields | 153 028 | a reply is a message sent; buffers and blocks counted and forgotten; a reply completes; every message is read back |
| `tunnel` | 4 bytes, 2 exchanges, 2 tunnels, 2 copies of 2 blocks, 1 mishap | 274 684 | `Tunnel` implements `TlsStream`; what the exit drops was delivered; the response arrives |
| `topology` | 5 members, 3 registry blocks, 2 anchors asked, 2 providers, a member and a provider that may lie, 1 mishap | 108 714 | membership sound, calls routable, late answers harmless, boot ends, the list converges |
| `paid_unread` | | | a disagreement, see below |

Why these bounds are enough to be interesting. In `claims_shared` two requests
compete for two claims of which one may be a long-poll, while an ack-only claim may take a
slot too, and the stream keeps a request alive across deliveries. `claims_live` has a single
slot, where starvation would show. `send_one` allows all four reasons for another copy within
one call, and two packets so that a copy can fail half sent. With one slot, two exchanges give
a holder and a waiter, and three dials let a connection be evicted and its successor too; a
queue of several waiters is left to the proof. Two quotes with validities of 0 to 2 blocks
give every order of submission, rejection, expiry and settlement. In `worker` two calls to one
host and a third party for the spare give a waiter, a landing open and a claimed spare at
once; names of sessions are reused, so behaviours are not bounded by the number of names. In
`reply_parts` two data shards with two of parity let any half be lost, the two-message answer
makes messages evict each other from three fragments of buffer, and a reply is longer than
one of the two values of `maxResponseBytes`. In `tunnel`
parts of two bytes with marks at 1, 2 and 4 cut the stream inside a part and inside an
exchange. In `topology` the second block adds and removes a member and the third changes both
exits' keys, so a client may verify any block, at a minimum of two members per layer. In the
classic mode's chain one member has no usable ingress, one is frozen for a block, and the key
and the ingress of a third change at different blocks, so that two mishaps (both seeds down, or
one down and a false document) let a node answer with each kind of document; two moves bring the
socket back to an entry it has left.

Not every combination is in a passing run: v1 reply blocks only occur in `send_classic`, two
calls that share the hedge counter in none (one call shows every use of it), and long-polls
with replies of every kind only in the proofs, which hold for all of them.

`CHECK_DEADLOCK FALSE` is set everywhere: a client may settle everything and be idle for
ever, and the bounded counters end behaviours.

Bounds in guards: `MaxFailures` (failed claims), `MaxConns` (dials), `MaxStarts`,
`MaxQuotes`/`MaxCalls`/`MaxTime`, `MaxLost`/`MaxFailed` (lost items, failed uploads),
`MaxLies`/`MaxAcquires`/`Ids` (wrong answers, sessions asked for, sessions alive),
`MaxSends`/`MaxMishaps` (copies of an exchange, packets or sessions lost), `MaxMishaps` of
`Topology` and of `Seeds` (answers that fail, lag or lie), `MaxDrops`/`MaxMoves` (lost
connections, changes of the entry). All other constants are settings of the code.

### Fairness

- `ReplyClaims!FairSpec`: the interval fires, an entry answers an open claim (its failures,
  each ended by the client's timeout, are bounded by `MaxFailures`), time passes. No request
  has to be sent or settled, no kick has to run.
- `SendCall!FairSpec`: microtasks run, and each copy has a timer that fires. No network event
  has to occur.
- `MCKpsPool!MCSpec`: microtasks and timers of an exchange. The dial function, streams and
  peers owe nothing.
- `PaidExecute!FairSpec`: each await ends (reads and sends have timeouts) and the deadline
  passes. The chain owes no block, the exits no answer.
- `Worker!Fairness` (`CallProgress`): each await of a call ends, a session landed or lost is
  noticed, an open a call waits for ends by its timeout at the latest. Boot, the accept loop,
  spares, timers of idle sessions and the exits owe nothing.
- `FragmentedReply!Fairness` (`Working`): what is in transit and is not lost arrives (losses
  are steps of their own, bounded by `MaxLost`), uploads end, the stall check runs, the exit
  sends what it has blocks for. These are assumptions on the network; `ReplyCompletes` is
  about what the client owes then.
- `Tunnel!Fairness` (`Working`): the same for copies, parts and the timers.
- `Topology!Fairness`: timers run and every await ends (fetches and reads have timeouts). For
  the three activities the fairness condition is written out with the enabling condition, so
  that TLC need not compute ENABLED of the large steps.
- `Seeds!SeedFairness`, in `refresh_stalled.cfg` only: fetches and reads end. With
  `MayStall = FALSE` a waiting paid call is then always answered (148 374 states).

## Refinement

`Tunnel!StreamInOrder` is `TlsStream!Spec` under `out <- delivered`, `tries <- attempt`,
`result <- call` and the stream of the upstream as `Source`: whatever copies, parts and
timers do, each step either extends the prefix that TLS has been given, starts over once from
a new handshake, ends the call, or is a stutter; and the call ends well only with the whole
response.

## Proofs

The theorems hold for every value of the constants that satisfies the named assumptions.
`SizesAssumption`, `LimitsAssumption`, `FlagsAssumption`, `SendAssumption`, `PoolAssumption`,
`PaidAssumption`, `CoverAssumption`, `SocketAssumption`, `SeedsAssumption`, `TunnelAssumption`,
`TlsPoolAssumption` and `WorkerAssumption` give the types of the settings, and limits at least 1, which the code
enforces (`resolveReplyClaimSettings`). `ChainAssumption` of `Topology` says that the chain starts at the
block of the pinned snapshot; `FaultAssumption` that fewer anchors lie than a removal or a move
needs, and fewer exits and providers than a registry read asks; `SteadyAssumption` what a steady
member is: one that stays registered and eligible under its key. `RouteAssumption` says what
the network must keep so that calls can be routed at all: floors of at least two members (the
default of `minMembersPerLayer`), a steady relay that publishes a KPS location, and two exits that
are steady, or two in the snapshot and no exit that leaves the registry. `AnswersAssumption` of
`FragmentedReply` says what an exit's fragments are: the parts of one split of a message agree on
its code and their bytes, and all of them, or as many coded ones as there are data shards, give the
message back. That is what splitting and Reed-Solomon coding mean; for the client's own decoder TLC
evaluates it on the shards of the instance. The answers may still mix messages, repeat parts, leave
some out, or name totals that contradict each other.

`ReplyClaimsProofs`
: `TypeCorrect` and `ClaimsAreExact` (of `ClaimsExact` = OneClaimPerId and CountsMatch) from
  `ClaimInv` = TypeOK, IdleSlotsEmpty, OneClaimPerId, CountsMatch. The type invariant is not inductive by itself (the counters
  could go below zero): it needs that the counters equal the number of open and held frames,
  which needs that an idle frame holds no IDs.
  `AcksAreSafe`, `NoReplyLost` from `AckInv` = OnlySentKnown, AckedAreDone, RepliesKept on
  top of it. The two need each other: a reply is dropped only by an ack or by a v1 claim, and
  an ack is queued only for what a claim brought.
  `HeldClaimsLeaveASlot`: HeldLeavesASlot with `HeldInv`, that an entry taken for v2 is one: the
  limit changes with what the client learns of the entry, and must not fall. It holds under
  `LimitsOrdered` (at least two claims, and no fewer for v2), true of the defaults of both modes;
  with a single claim it is false (see the disagreements).

`SendCallProofs`
: `CopiesAreBounded`, `NeverServedTwice`, `SettledIsClean` from `CallInv` = TypeOK,
  NewIsEmpty, HedgersAreResendable, CopiesOK, BudgetSpent, OnlyLastMayReach,
  SettledLeavesNothing. BudgetSpent ties the number of copies to the timeout resend and the
  transport budget still left; OnlyLastMayReach says that for a request that may not be
  repeated, only the last copy can have reached the exit.
  `HedgesAreCounted`: the shared counter is the number of live hedged copies of all calls
  together. Every step keeps the set of live hedges, ends one or starts one where a place is
  free, and the set is finite however many calls there are.
  `WaitsForItsLastCopy` is proved of KPS mode (the constant `Kps`), where it is true: in the
  classic mode the first transport failure ends the call (see the disagreements).

`PaidExecuteProofs`
: `NotPaidMeansNotPaid`, `PaidMeansPaid`, `SecondExitAfterExpiry` from `PaidInv` = TypeOK,
  SettledInTime, StageOK, FinalIsLatest, UnansweredExpired, NotPaidIsFinal, PaidIsReal. The
  argument: when the call gives up it awaits the submission with the latest validity
  (FinalIsLatest); a block past that one's expiry with no settlement at it rules out all the
  others, and stays ruled out since a quote never settles after its validity.
  `NotPaidIsForGood` (over all calls for the action) from `ForGoodInv` = PaidInv, IdsTogether, SubmitsOnce, OthersDead, NotPaidForGood:
  between calls, every quote an exit still holds is the one handed back as `pending`, is dead, or
  the payment is made. Its hypotheses (`Steady`: one exit per call, a reader pinned to the block
  asked for, prechecks that can be read, no restart) are those of the run `paid_resumed`; TLC
  gives a counterexample when any one of the four is dropped.

`TransportProofs`
: `PoolTypeCorrect`, `SlotsCounted` (of `SlotsSound` = SlotsExact and NoSlotLost) and
  `NoConnectionLeaks` from `PoolInv` = TypeOK, PhasesOK, DialOK, SlotsExact, NoSlotLost,
  NoLeakedConnection. PhasesOK says in which phases an exchange holds a slot and that only one
  whose stream opened is torn down, so a teardown never hits a waiter; DialOK says that a dial
  is in progress only while the entry has no connection, so a successful dial replaces none.
  `CoverLoopsBounded` from `CoverInv` = CoverCounts, StoppedForgets, RoomForStart, LoopsBounded:
  a `start()` that finds neither its timer nor a dummy on its way adds a loop that is not counted
  as overtaking, and then there is room for it.
  `SocketHearsEveryBlock` from `SocketInv`: what the client counts as subscribed is queued, known
  to the entry or lost with a connection; nothing is known on a connection that is not open; a
  request not sent waits on nothing.
  `NodesVouched` from `SeedInv`: a list is applied only from one document whose block the registry
  confirmed, and only a document for routing is applied while connecting.

`TunnelProofs`
: `NoGapForGood` and `TunnelImplementsTlsStream` (the refinement: initial states and each step)
  from `TunnelInv` = TunnelTypeOK, FedInOrder, SecondUntouched and, while the call runs,
  Exchanging. The parts held beyond a gap and the parts under way are pieces of the one stream at
  their offset; what the exit dropped and what any copy under way acknowledges is at most what
  TLS was given; the tunnel of the second attempt is untouched during the first. What the
  drain of held parts yields is proved by induction over its steps.

`TopologyProofs`
: `TopologyInvariant`, `MembershipIsSound`, `LateAnswersAreHarmless` from `TopoInv` = BlocksOK,
  MembersOK, ServedOK, BootOK, RefreshOK, CheckOK. Whatever a boot, a refresh or a check holds
  between two awaits was served by an honest anchor at some block or names its liar (`Vouched`),
  a check reads a block not before the membership's with one truthful pair among those it asked,
  so a false registry is never agreed on, and the rules of `Discovery` then keep each steady
  member and each key. The floors of `membershipFromChain` are passes over the snapshot, again by
  induction.
  `CallsAreRoutable` from `RouteInv` on top of it: the verified registry is that of its block, the
  list has two exits, and while connected the entry is a node that can be one. An entry that a new list drops
  is replaced by one drawn from the others, and a steady relay with a KPS location is always among
  them. The two exits remain because documents that would leave fewer than the floor bring
  the members of the last list back (`ApplyServed`), as long as the membership still has them;
  that is what `RouteAssumption` asks of exits. Around any one node a route is then found:
  relays may be any node but the entry and the exit, and the avoided node is used when
  nothing else is left (`SelectRoute`).

`FragmentedReplyProofs`
: `ReassemblyLeaksNothing` (of `NothingLeaks`) from `LeakInv`: a buffer holds parts of its own
  message only, so that the parts of different buffers are different and the bytes of an eviction,
  of a completed message and of a new part can be added and subtracted; and a pending request has
  not been cleaned up, so that a late fragment, signal or failed upload finds nothing to put back.
  `RepliesAreIntact` from `PartsInv` on top of it: a buffer is never empty, its parts are different
  parts of one split that the exit sent, and it knows their code. A plain buffer that has as many
  parts as the split then has all of them (pigeonhole), a coded one has enough.

`WorkerProofs`
: `FailureIsClean`, `PlaintextIsAllowed` from `WorkerInv` = WorkerTyped, LinkInv, CallsOK. LinkInv
  ties the stage of `boot()`, the client, `failed` and the signals together; CallOK says what a
  call at each of its awaits may rely on: it waits only for a worker that has not failed, has a
  client once it is woken, uses tunnels only when given them, and is denied them only without TLS or once the
  client is gone. `MemoIsTrue` from `MemoInv`: a wrong result has no more confirmations than wrong
  results were returned. `SlotsAreExact` from `SlotInv`: the loop starts once, and each step of a
  call that ends it frees its slot. None of these need anything of the TLS pool, which may do
  whatever its steps allow. `ResourcesAreCounted` adds the pool, from `PoolInv` = PoolSettings,
  PoolOK, CountOK, HostsOK. PoolOK says of a session in each of its states which list, call or map
  it is in (`SessionOK`), of a call at each stage what it holds (`HoldsOK`), that no two calls
  hold the same session and that at most one open has landed. CountOK counts the live spares of a
  host with the landed open that `spareCount()` does not see: without it the limit is not
  inductive, since a claim that is given up turns that open into a spare. Most operations
  change one session; `OneSession` shows once that PoolOK then only needs to be checked of that
  session and the calls that hold it.

Each proof has one step per action; every inductive invariant was checked by TLC on the instance
of its run before it was proved. Induction over natural numbers is done for sets of them
(`NatSetInduction`), since the library's induction theorems take an operator that the provers
cannot instantiate.

Only model-checked:

- the liveness properties: fairness is out of the prover's reach;
- the codecs: `HttpFaithful` of `KpsHttp` and `WireFaithful` of `Bincode`, which recurse or fold
  over the bytes of a message, and the Reed-Solomon decoder (`ReedSolomon`), of which the proofs
  assume that it decodes. `TransportProofs` extends `KpsPool`, not `MCKpsPool`, and
  `FragmentedReplyProofs` not `MCFragmentedReply`, for that reason.

## Disagreements between code and text

Shown by a run or by a configuration kept beside the runs (`tlc -config X.cfg M`):

- `paid_unread` (run): `packages/nox-client/README.md:137` says of `pending` that "while that
  quote can still settle the helper answers `unknown` again and requests nothing". A failed
  chain read in the precheck answers `not-paid` instead (`paid_execute.ts:653`).
- `paid_two_flags` (`MCPaidExecute`): the payment and the intent flag are two reads
  (`paid_execute.ts:599`). With a reader of the latest block the pending execution may settle
  between them, and the call reports `not-paid`, consumed "by another execution"
  (`packages/nox-client/README.md:138`).
- `send_classic` (`MCSendCall`): `types.ts:419` says a hedge is sent "while the first keeps
  waiting". Outside KPS mode the failed upload of either copy rejects the call
  (`client.ts:1300`).
- `tunnel_twice` (`MCTunnel`): `worker:tls/transport.ts:166-172` retries "any request whose
  only copy the exit refused before writing it". The refusal proves that the refused exchange
  was not written (`worker:tls/tunnel.ts:55`), but the request may have been written by an
  earlier exchange of the same call, when TLS has something to send while the response comes
  (`Retriable`): a request that may not be resent is then written on two tunnels.
- `topology_stale` (`MCTopology`): a stale verdict is to stand only when the registry lists no
  member of a route layer; `client.ts:2384-2386` waits for a check that was already in flight
  and read an older block.
- `topology_probation` (`MCTopology`): `packages/nox-client/README.md:294` says probation ends
  some seconds after the client first saw the member. Only a chain check ends it, and a chain
  check needs exits that are not on probation: when all exits change their key at once it
  lasts for the session.
- `cover_restart` (`MCKpsPool`): `cover.ts:51` says of `start()` "Safe to call multiple
  times." Called while a dummy is on its way it leaves a second loop behind, which doubles the
  rate until `stop()` comes at another moment.
- `refresh_stalled` (`MCClassic`): `packages/nox-client/README.md:359` says of `timeoutMs`
  "Per-request timeout in milliseconds". `fetchTopology()` clears its timer once the head of the
  answer has come (`topology.ts:47`), so a body that does not come is awaited with no timeout of
  the client; the refresh is shared, and every paid call that needs a fresh list waits for it.
- `socket_deaf` (`MCClassic`): `transport.ts:486` speaks of a "Persistent WebSocket connection
  for SURB response delivery". After a drop it connects again and subscribes only what was queued
  since (`transport.ts:516`), while the scheduler goes on skipping its entry (`client.ts:1983`):
  the requests under way end by their timeout. A constructor that throws on the way back
  leaves the socket dead with the same effect.

Met while modelling; each follows from the definition named:

- `reply_claims.ts:385` says one claim slot always stays free of long-polls. With
  `maxClaimsInFlight = 1` the only one may be held (`Holds`).
- `MAX_PENDING_ACKS` is not applied to the acks a failed claim puts back (`ClaimFails`).
- `reply_claims.ts:421` says acks are flushed for entries with "no claim this tick";
  `flushAcks` skips every entry with a live target, also one for which no claim was started
  (`FlushAcks`).
- `client.ts:1141` says a request that used v2 reply blocks is never resent with v1 ones.
  A v1 copy that fails in transport after a v2 hedge was sent is (`PlanTransportResend`).
- The close of an evicted connection fails exchanges that run on its successor
  (`ConnCloses`; a test speaks of "their connection"), and its listeners are not told.
- An `unknown` result names one quote. With two exits an earlier submission with a longer
  validity, rejected by its exit, is in no result; the next call with `pending` does not wait
  for it (`Return`). `paid_resumed` therefore has one exit per call.
- `maxExits` counts a rejection as one exit, although the client may have resent the request
  to a second (`QuoteRefused`).
- A burst that fails deletes the burst state of its request (`client.ts:2301`), also that of a
  newer round, and a NeedMoreSurbs lost before the first fragment leaves the reply to the
  call's timeout: no fragment tells how many are missing (`UploadFails`, `ReplyCompletes`).
- A seed's document that lists no usable entry is half applied: `_setNodes` has replaced the
  list and its time when `pickEntryUrl` throws (`client.ts:2830-2843`), and when no later source
  does better the entry is none of the nodes although paid calls find the list fresh
  (`EntryListed` of `Seeds` fails; `SeedNodesVouched` holds).
- The IDs a failed burst registered at the socket's entry are subscribed by a later burst or move
  only (`client.ts:2297`), and those of settled requests are never taken from
  `subscribedSurbIds` (`BurstEnds`, `RequestEnds`).
- A cover dummy is posted to the pinned entry although its path starts at a random one
  (`cover.ts:98-124`).
- `topology.ts:669-680` says avoided nodes, and nodes on probation past the cap, are left out
  when another candidate exists. The mix and a random entry prefer nodes that are no exits, so
  an avoided relay, or one on probation, is taken before an exit that is neither (`MixChoices`).
- `kps/pinned.ts:297-300` promises `min(minMembersPerLayer, base members in that layer)` members
  per layer. What is restored is the previous working set's part of it, which may be smaller
  once the base has changed (`Restored`).
- The floor of a chain read restores members that are absent; a snapshot member that is
  present but has withdrawn its KPS address is not, so the entry layer may stay below the
  floor (`KeepByFloor`).
- Two honest anchors that lag behind a key change list an old key for every member of a layer,
  and the layer looks gone until a chain check.
- `_setNodes` may throw when no node can be an entry, from `void this._refreshTopology()`: the
  rejection is handled by nobody.
- `worker:tls/tunnel.ts:308-312` says a teardown comes "Only after the last exchange was
  confirmed, so the `seq` stays in step with the exit". The pool tears a channel down after a
  failed exchange too (`worker:tls/pool.ts:232`); the exit then waits for a `seq` that does not
  come and keeps the session until it expires (`EndCall`, `StartAgain`).
- `decodeRpcResponse` (`bincode.ts:1180`) checks neither for trailing bytes nor that all of the
  data it slices is there, as every other reader of the file does.

## Not modelled

- `paid.ts`: EIP-712 hashing, a signature check and field-by-field comparisons of a quote with
  its request; parsing in `rpc.ts` and `utils.ts`. Functions of their input.
- Topology: the standby entry that `client.ts` warms up; adoption of the PoW difficulty and
  capabilities from documents; the mode without chain verification.
- KPS: the pacing and budget of warm-up rounds; parsing and signatures of the snapshot, the
  bootstrap bundle and addresses.
- Worker: the best-effort caches of `storage.ts`, configuration, JSON-RPC profiling, logging.
- JSON claim answers (the binary batch is modelled).
- `nox-wasm`, `nox-tls`: cryptography. Build, snapshot and publishing scripts.
- With `mixnetChainReader` a lagging exit may answer a flag from an older block than the block
  number read before; the model assumes what the comment at `awaitSettlement` assumes.

## Plan

1. Abstract specifications: a counting semaphore implemented by `KpsPool`; a mailbox that
   delivers each reply at most once, implemented by `ReplyClaims`.
2. Warm-up rounds of the pool; the standby entry.
