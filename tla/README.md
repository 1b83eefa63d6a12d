# detour2 in TLA+

detour2 tunnels the TCP connections of local applications over WebSockets:
*application -> local proxy -> relay ... relay -> exit -> target*.  This
directory holds TLA+ models of the parts of the program that run concurrently,
the TLC configurations that check them on small instances, and TLAPS proofs.
Paths below are relative to `src/`.  `PROJECT.json` maps every definition to
the lines it stands for, lists the runs, the hazards they are about, and for
every property a mutated definition that breaks it.

## 1. The system

| Component | Source | State | Operations |
|---|---|---|---|
| Fair message writer | `common/fair_writer.go` | one queue per Cid, round robin order, closed, error | Write (blocks for its result), Close, the runner goroutine |
| Local sessions | `local/local.go` | `l.Conns`, one Conn per client connection (MsgChan, Quit, two Onces), `Done` | HandleConn, CopyFromWS, CopyToWS, StopLocal |
| Local WebSocket client and pool | `local/wsconn.go` | WSConns: transport, writer, Connected, Active, ConnChan | GetWSConn, Connect, WriteMessage, ReadMessage, DeliverMessage, WebsocketPuller with idle wait and TTL switch |
| Exit server | `server/server.go`, `writer.go` | `s.Conns`: per Cid a Conn with target connection and the transport of its client | HandleWebsocket: CONNECT, DATA, CLOSE, SWITCH, cleanup; RunLoop per target |
| Relay hop | `server/relay.go`, branches of `server.go` | RelayClient: link, writer, Connected, Active; a Conn's Relay | GetRelayClient, Connect, WriteMessage, ReadMessage, puller, CloseRelayConns |
| Message codec | `common/packer.go` | none | binary and gob encoding, padding and obfuscation |
| Ciphers | `crypto/` | none | xxtea, shuffle |
| Front ends | `local/socks5.go`, `http.go` | the bytes of one request | parse a request, acknowledge it |
| Outbound dialer | `server/dial.go` | none | resolve and dial |
| Metrics | `*/metrics.go` | counters | read over HTTP |
| Deployment | `deploy/` | cloud resources | deploy, remove |
| Command line, logging | `main.go`, `logger/` | none | wiring |

How they interact.  A local session writes CONNECT, DATA and CLOSE through the
fair writer of its WebSocket; the puller of that WebSocket hands what comes
back to sessions through `l.Conns` and `MsgChan`.  The server has one
HandleWebsocket goroutine per WebSocket, one RunLoop per target; they share
`s.Conns` and write back through the fair writer of the WebSocket of the
moment.  When a WebSocket reaches its time to live, the client dials another
one, sends SWITCH on it, and the server moves the Conns over.  A relay does the
server's part towards the client and a client's part, with one RelayClient for
all, towards the next hop.

What is hard.  Nothing holds a lock between looking a Conn up and acting on
it.  A session is cleaned up by up to five goroutines.  A WebSocket is replaced
by whoever finds it not connected, while others hold the writer, or are in the
read, of the old one; a failed read or write marks whatever transport is in
use *then* as not connected.  The Cid is the only identity that goes over the
wire, and the exit dials again for DATA with an unknown Cid, so two Conn
objects can share one.  Writes have no deadline.  Section 6 and the hazards in
`PROJECT.json` name the lines.

What makes each part correct:

* **Writer**: every caller gets exactly one answer, which is the truth; no
  wakeup is lost; a busy Cid delays no other by more than one message; nothing
  follows a failed write.
* **Local session**: the load count is exact; a session that is over leaves no
  entry, no socket, and nothing at the remote; every session ends.
* **Exit**: every open target connection has an owner; Conns holds no entry of
  a WebSocket that is over; an acknowledged connection is read; everything is
  closed in the end.
* **Relay**: the load count is exact; a Conn never goes away without its client
  being told.
* **Pool**: nobody listens or sends on a transport that was abandoned, none is
  lost open; a session that asks for a WSConn gets an answer; a WSConn that a
  failed dial broke is repaired; everything ends with StopLocal.
* **Codec and ciphers**: unpacking inverts packing for every key, padding and
  length, and a message that was cut is an error.
* **Front ends**: the address is what the client asked for, however TCP cuts the
  dialogue; what is forwarded is in order and once,
  and, but for the body of a request, complete.
* **Deployment**: success means that everything is in place; what runs is not taken
  down before there is something to take its place; what a failed run left can be
  deployed over.

## 2. Modules

| Module | Models | How |
|---|---|---|
| `Lanes` | what a message writer promises | abstract specification |
| `FairWriter` | `common/fair_writer.go` | one step per critical section of `mu`; runner step by step; proved to implement `Lanes` |
| `LocalSession` | `local/local.go`, message path of `local/wsconn.go` | HandleConn, both copy loops, puller, StopLocal |
| `Pool` | `local/wsconn.go` | GetWSConn, Connect, the puller's idle wait, reconnection and TTL switch, StopLocal |
| `ExitServer` | `server/server.go` without a relay | handlers of all WebSockets, RunLoops, a client that reconnects and switches |
| `RelayHop` | `server/relay.go`, relay branches of `server/server.go` | handlers, the puller, links that are replaced |
| `Packer` | `common/packer.go`, `crypto/` | operators, no state |
| `FrontEnd` | `local/socks5.go`, `local/http.go`, flush and copy in `local/local.go` | one client's dialogue, byte by byte; EXTENDS `Packer` |
| `Deploy` | `deploy/`, the deploy command of `main.go` | one action per call to the cloud or to docker |
| `*_proofs` | - | lemmas and proofs |
| `MC*` | - | constants and symmetry for TLC |

**FairWriter.**  `queues`, `order`, `closed`, `lastErr` are the fields of the
struct; a caller has at most one message in the writer because Write returns
only with its result, so a queue entry is named by its caller.  `Write` is
`WriteClosed`, `WriteFull` or `WriteQueued` (one critical section), then
`WriteReturn` when the result channel has the answer.  The runner goes through
`NextWait`/`NextItem`/`NextClosed` (`next`), `RunWrite` (the transport),
`RunReply`, and after an error `RunFail` (`closeWithError`).  `Wake` is the
condition variable.  A limit below one becomes the default, 64 (`maxQueue`).

**LocalSession.**  `handle`, `from`, `to` are the program counters of the three
goroutines of a session, `puller` that of WebsocketPuller, `stop` that of
StopLocal.  A WriteMessage is two steps: `BeginWrite` takes the writer of the
moment (its `epoch`), and `WriteOk`/`WriteError` returns later; what FairWriter
shows is what these two rely on: nil means that the message is on the
transport, though a dying transport may still swallow it.  `held` and `remote`
say what the remote end knows.  `FailEarly` and `Cleanup`..`CleanupRelease` are the
two shapes of HandleConn's deferred function, `FromExit` and
`ToUpstream`..`ToExit` those of the copy loops.

**ExitServer.**  Conn objects are numbered, because two of them can have one
Cid.  `handler[w]` is the program counter of HandleWebsocket, `hand[w]` the Conn
it holds in a local variable, `todo[w]` what its `Conns.Range` has yet to
visit; an entry is read (`Load`, `SweepFind`) at one step and used (`Close`,
`WriteFails`, `SweepClose`) at a later one.  `transport[o]` is `conn.WSConn` with
`conn.WSWriter`; sending is `TakeWriter` and then its outcome.  `RunLoop` is
`LoopRead`, `LoopTakeWriter`, `LoopSent`, `LoopReadFails`, `LoopTold`,
`LoopExit`.  The client is modelled from `local/`: it sends CONNECT once, DATA
after its answer, and DATA after CLOSE only when its puller may have sent that
CLOSE (the hazard at `local.go:417`).

**RelayHop.**  `Connect` is two steps (`ConnectDials` installs link and writer
under ConnectLock, `ConnectEnds` sets Connected), `WriteMessage` is Connect,
`TakeWriter`, and `WriteOk` or `WriteFails` with `Failed` for what the caller
does about the error.  A handler is named by its client's Cid.  The puller is
`Connect`, `Snap` (which link it reads), `Pull` or `PullFails`, `Lost` and the
sweep of CloseRelayConns, `Respond` or `Reply`.  `told` is what the client has
been told of its connection.

**Pool.**  `at` is the program counter of every session and every puller, `cand`
what GetWSConn still has to try (its head is the WSConn in use afterwards),
`taken` the transport whose writer a WriteMessage took, `reading` the one a
ReadMessage reads, `fresh` the one dialed for the switch.  The fields of a
WSConn are functions of it; `unsignaled` is ConnChan being open.  A dial is three
steps under ConnectLock, `ConnectCheck`, `DialOk` (transport and writer are
replaced under WriteLock) and `ConnectDone` (Connected is set), or `DialFails`.
The puller is `PullerTop` (count), `PullerMakesChan`, `PullerWakes`, `PullerCheck`,
`PullerSlept`, `Connect`, `PullerTimer`, `SwitchDial` .. `SwitchSwap`, `PullerReads`
.. `PullerReplied`.  The puller's writes of SWITCH and CLOSE are two steps each (take
the writer, return), and so are the reads of the flush: `SwitchFlush` takes the
transport in use, `SwitchGets` or `SwitchFlushed` is what its read returns.  The
read deadline (`wsconn.go:301`) is on one transport, the one that is in use when it
is set (`timed`), while every ReadMessage takes the transport of its moment
(`wsconn.go:445`): the read of the flush ends without the remote only if the two are
the same.  A session does here only what concerns the pool: CONNECT,
the wait, CLOSE, and its release; the rest is in `LocalSession`, which in turn
has one WSConn and no idle wait.  A session that is over may be followed by a
new client (`Accept`), whose predecessor the remote still knows as `Gone`.

**Packer.**  The functions of `packer.go`, `xxtea.go` and `shuffle.go`, with the
random key and the random length of the padding as arguments, and the number of
values of a byte as a constant: with bytes of 8 values, 16 bits are a number below
64, and its limits come within reach of short messages.  Two-byte and four-byte
lengths, words of four bytes, xxtea's length word and its 6 + 52/n rounds are those
of the code; its mixing function is a parameter, because decryption must invert
encryption whatever it is.  Loops are functions defined by recursion on a number
(`encryptRound`, `encrypt`, `unique`, `getTable`), which can be proved about.

**FrontEnd.**  `sock` is what the client has sent and nobody has read; each read
takes any part of it from the front, as TCP may deliver it.  SOCKS5 reads into
`buf` over what the read before has left there; HTTP has a bufio.Reader (`buf`
again), and for other methods than CONNECT a goroutine (`PipeBody`) that feeds
the pipe from which `Flush` reads.  The goroutine goes on when `Copy` starts, and both
take from the same `sock`.  Every message is packed with every key and
padding of the run, and what the exit receives is what `Unpack` returns.
`ClientsAssumption` says what the clients send: a SOCKS5 greeting ends with its
methods and a request with its port, an HTTP request begins with a header, which
is all of a CONNECT.  Whether the request is one that the proxy accepts is open.

**Deploy.**  The state is what the cloud and docker keep between runs; `at` is the
call the run makes next.  Each call is done, fails without an effect, or has its
effect and loses its answer; the process may be killed between two calls.

What the models leave out, besides bytes and logging: `WSCounter`, which is only
logged; a full writer queue at the server, where every sender waits for its result
and no Cid has more than a few senders (limit 64); several Wids at an exit and
several RelayClients, which share nothing but Conns; SWITCH at a relay (same code as
at the exit).

## 3. Runs

| Run | Question | Bounds |
|---|---|---|
| `FairWriter` | bookkeeping, answers, round robin, refinement of `Lanes`, liveness | 3 callers, 2 Cids + control, limit 2 |
| `LocalSession` | load count, entries, orphans at the remote; sessions end, StopLocal ends them | 1 session, 2 transports, MsgChan 1, 2 messages down, 1 chunk up |
| `LocalSessionEarlyAck` | *violated*: an answer that overtakes `Conns.Store` | 1 session |
| `Pool` | abandoned and lost transports, load count, GetWSConn returns, repair, stop | 1 WSConn, 1 client at a time, 3 transports referred to at a time |
| `PoolDeadEnd` | *violated*: a failed dial is repaired | the same with 4 transports |
| `ExitServer` | owners, acknowledged conns, eventual close | 1 Cid, 2 WebSockets, 2 Conns, 1 message, 1 chunk |
| `ExitServerTorn` | *violated*: SWITCH keeps the stream whole | 1 Cid, 2 chunks |
| `RelayHop` | load count, clients are told | 2 clients, 2 links, 1 message of either side |
| `RelayHopLost` | *violated*: who asked hears something | 2 clients, 2 links |
| `FrontEnd` | address, order of what is forwarded, round trip, cut messages | 15 clients, every cut, 3 keys, 2 paddings |
| `FrontEndBody` | *violated*: the request is flushed | 1 client, header and body of two bytes |
| `Deploy` | success is true, nothing that runs is taken down, repeated deployment works | 1 operator, 2 configurations |

Why the bounds are enough for the cases in question.  *FairWriter*: three callers
fill one queue (limit 2) with a third refused, or spread over three keys with one in
the runner's hands; a caller returns and calls again, so histories are unbounded.
*LocalSession*: one session can be cleaned up by all of its goroutines and
StopLocal; two transports give one reconnect, which any goroutine can make while the
others hold the old writer; MsgChan 1 is full after one message.  What several
sessions share (the WSConn, the puller, Active) is the subject of its theorems,
which hold for any number.  *Pool*: a client and the puller meet in every pair of
steps, and clients, transports and TTL switches follow each other without end:
transports have no history, a number is used again when nobody refers to it.
Several clients and WSConns are left to the theorems; the liveness properties
quantify over one WSConn and one client at a time, whose only rival for ConnectLock
is the puller.  One client is enough to replace the transport under the flush, which
then blocks on one without a deadline (the exception of `StopEndsPullers`).  That
another client's dial fails while it blocks needs a second client, which is nine
million states and more; `AwakePullerRepairs` makes the exception all the same.
*ExitServer*: two Conns of one Cid and two WebSockets are what all races here need;
the theorems have any number of both.  *RelayHop*: one lost link, with handlers and
the puller both reconnecting; a second client disturbs the first.  *FrontEnd*: the
clients cover the three address types and a refused command, a header of one and of
two pieces, a body of one piece, of more, and with a request behind it; the keys
have the number 0, one in the middle and the largest, with and without bytes that
come twice; encrypted messages have 28 to 48 bytes, on both sides of
`MIN_INPUT_LENGTH` (32), so that some are padded.  *Deploy*: nothing is bounded; two
configurations tell an update from a leftover. Each cap (`MaxEpoch`, `MaxDown`,
`MaxUp`, `MaxWS`, `MaxConns`, `MaxMessages`, `MaxChunks`, `MaxLinks`) bounds what
the *environment* does, or how often something can be dialed (beyond the cap the
dial only fails, as it may anyway); `Transports` bounds how many transports can be
referred to at a time, and `PoolDeadEnd` has as many as one client and one puller
can refer to, so that no dial in its counterexample fails for want of a number.
`CHECK_DEADLOCK FALSE` is used where the system really stops: the clients have done
all they may do under the caps, or StopLocal is through.

**Fairness.**  Weak fairness is assumed of goroutines only: a goroutine that can run
does run, and a timer fires.  Never of clients, targets, the network, Close or
StopLocal's call.  No write on a WebSocket has a deadline (`local/wsconn.go:182`,
`common/fair_writer.go:125`), so no fairness makes one return while its transport is
live: the weak fairness of a process is of its steps outside `MayStall`
(`HandlerMayStall`, `LoopMayStall` at the exit, where the write to a target is
another one without a deadline).  A write on a transport that was closed does
return.  Where something more is needed, it is the premise of the property:
`TransportReturns` of `FairWriter` (`CloseReleasesQueued` does without),
`ClientReads` and `WritesReturn` of the session in question in `LocalSession`
(`SessionsEnd`; `StopEndsSessions` does without either, because StopLocal closes
client and transport), `WritesReturn` of the puller in `Pool` (`AwakePullerRepairs`,
`FailedDialIsRepaired`; `StopEndsPullers` needs it only of SWITCH, on a transport
that StopLocal does not know of), and `LoopSendsReturn` of the Conn's own RunLoop in
`ExitServer`, which may be on an older WebSocket. `EndedSocketsFreeTargets` holds
because a target's connection has a read deadline (`TARGET_IDLE_TIMEOUT`) and a
target sends at most `MaxChunks` chunks: one that sends forever keeps an orphaned
Conn forever. `RelayHop!FairSpec` has the next hop answer a CONNECT it holds, as
`ExitServer`'s HandleConnect does, and writes return: it serves the violation
`AskedIsAnswered` only, which does not need one to hang.  `Pool!FairSpec` asks more
of two things.  ConnectLock is a mutex, and Go's mutexes hand over to a waiter that
starves, hence strong fairness of entering Connect; and the dials of a *puller* that
tries again and again succeed at last, the premise under which "repaired" means
anything.  A dial may always fail for a session. `Deploy!FairSpec` has an operator
who does not give up and calls that do not fail every time.

## 4. What the runs found

Each is a run with `expect: violation` and a finding in `PROJECT.json`.

1. `NoHandlerMeansQuit`: HandleConn sends CONNECT before it stores the Conn.  A
   fast answer finds no entry, is dropped and answered with CLOSE.
2. `NoTornStream`: SWITCH closes the old writer with a chunk in it, and the
   RunLoop goes on with the next chunk.
3. `AskedIsAnswered`: a lost relay link is noticed by a failed write first, the
   puller dials the next one, and nobody sweeps the Conns of the lost one.
4. `FailedDialIsRepaired`: a dial of a session fails while the puller sleeps on
   ConnChan.  GetWSConn skips the WSConn from then on, so no Connect reaches the
   line that would wake the puller, and the puller alone would connect it by
   force.  With one WSConn every later client is refused, for good.
   `AwakePullerRepairs`, which excepts
   the puller that sleeps or waits for the remote, is what does hold.
5. `RequestIsFlushed`: the flush of a plain HTTP request reads one piece of the
   pipe, and the header is a piece of its own when there is a body.  What the
   goroutine of the pipe takes of the socket after that, of the body or of a request
   behind it, never leaves: the exit gets the request with a hole.
   `ForwardedInOrder` is what does hold of such a request: the rest arrives in order,
   and once.

Observed on the way, without a run:

* The wait for the answer to CONNECT (`local.go:288`) has no timeout: a session
  whose transport dies meanwhile waits until the proxy stops.  `SessionsEnd` is
  therefore about acknowledged sessions.
* After a second dial for the same Cid the end of the first RunLoop deletes the
  entry of the second Conn (`server.go:374`), which the WebSocket's cleanup then
  misses.  It is closed in the end all the same: `OpenHasOwner`,
  `EndedSocketsFreeTargets`.
* The flush before a switch sets its read deadline on one transport and reads
  whatever is in use (`wsconn.go:301`, `445`).  If a session's Connect replaces the
  transport in between, the flush waits for the remote without a deadline, and with
  it the swap and any repair by this puller.
* With two clients the puller can count none of them, then find one stored and its
  signal given to the ConnChan it replaces (`wsconn.go:230-256`): it sleeps
  although a session waits.  The next client wakes it.
* A removal that failed half way cannot be completed by repeating it: it ends at
  the trigger that is gone (`deploy/server.go:62`).

## 5. Proofs

`FairWriter_proofs` is about `FairWriter` for every set of callers and Cids,
finite or not, and every limit, from the two ASSUMEs of the module (the limit is
an integer; the sentinels are distinct from Cids, keys and results).

* `TypeCorrect`, `OrderIsExact`, `NobodyIsLost`, `ClosedForGood`, `TrueAnswers`,
  `NoSleepOnWork`: `Spec => []` of TypeOK, OrderMatchesQueues, OnePlacePerCaller,
  ClosedIsDrained, AnswerTellsTheTruth and NoLostWakeup.
* `ServedInTurn`: `Spec => RoundRobin`; positions are unique because the order has no
  duplicates, a part of `IInv`.
* `Implementation`: `Spec => ImplementsLanes`, the refinement.

The inductive invariant `IInv` adds to these properties what they rest on and do
not say: what `item`, `err` and the caller's key are at each place of the runner
(the runner has an item exactly in "write" and "reply"; `err` is an error only
in "reply", "fail" and "done"; the message written is in `sent` exactly when
`err` is "ok" in "reply"; a waiting caller is not in `sent`), that only a caller
inside Write has an answer, and that a closed writer has an error to return.
Without it a step of `RunReply`
from an unreachable state could answer a caller twice, and `FateOf` of the
message on the wire would be undetermined.  `InitInv` and `StepInv` show that
`IInv` is inductive, one lemma per action with one step per conjunct the action
disturbs; `StepImplements` maps each step to a step of `Lanes` or a stutter under
the refinement mapping at the end of `FairWriter` (`LaneOf` puts the message on
the wire back in front of its lane).  The lemmas on injective sequences, `Append`,
`Head` and `Tail` that this needs are at the top of `FairWriter_proofs`.

`RelayHop_proofs` is about `RelayHop` for every finite set of clients and any
number of links and messages, from `RelayAssumption`.

* `LoadIsExact`: `Spec => []ActiveCountsConns`.
* `NoSilentDrop`: `Spec => []UpstreamIsTold`.
* `TypeCorrect`: `Spec => []TypeOK`, where `Dialed` adds that the puller reads a link
  only after one was dialed.

Neither of the first two is inductive.  A Drop keeps the load count only if the Conn it
names was stored, and keeps `UpstreamIsTold` only if its client has heard; both
are decided steps earlier, when the process took up the message.  `IInv` says so
for every place a process can be: `HandlerInv` (a handler stores its Conn once;
one that forwards has stored it, and forwards CLOSE only for a client that closed
or is gone) and `PullerInv` (the Conn in the puller's hands when it is about to
drop it was stored and its client has heard).  `Shape` says that Conns holds what
was stored and not released, `LockInv` that whoever holds ConnectLock is in
Connect.  `StepInv` reduces a step of any process to what it does to the Conn it
drops; one lemma per action then shows that `MayBeAt` holds where the process
goes.

`LocalSession_proofs` is about `LocalSession` for every finite set of sessions, any
number of transports, messages and chunks and every capacity of MsgChan.

* `NoDeadEntry`: `Spec => []EntriesAreServed`, from `Shape` and `ConnInv`, which tie the
  program counters of the three goroutines of a session to where its Conn is.
* `LoadIsExact`: `Spec => []Accounting`.  The counts are cardinalities of the sets
  `Holders` and `EndedOnes`; every step `Moves` at most one session in or out of
  each (`OneMoves`), and the Once of ReleaseWSConn (`ReleaseFacts`) is why it is
  counted once.
* `CloseIsLastWord`: `Spec => []NoOrphan`.  `RemoteInv` adds what holds while the
  CLOSE is being sent: it is on the transport in use, or whatever the session
  sent before went up on an older one.
* `TypeCorrect`: `Spec => []TypeOK`; no MsgChan is above its capacity, because the
  puller alone fills it.

`Pool_proofs` is about `Pool` for every finite set of WSConns and of sessions and any
number of transports.

* `NoDeafPuller`, `NoTransportLeak`: `Spec => []` of ReadsWhatIsUsed and
  NoTransportLost.  The invariant `Kept` says where processes are (`Places`),
  who refers to a transport at which of its places (`Links`), and that the transport
  dialed for a switch is known to its puller alone until the swap (`Private`).
* `LoadIsExact`: `Spec => []ActiveIsExact`; each step is `Steady`, `Joins` or `Leaves`
  (`Books`).
* `TypeCorrect`: `Spec => []TypeOK`, with the load count between zero and the number
  of clients.

`ExitServer_proofs` is about `ExitServer` for any number of Cids, WebSockets, Conns,
messages and chunks.

* `TypeCorrect`, `CleanupIsComplete`, `NoLeak`, `AnsweredIsServed`: `Spec => []` of TypeOK,
  NoEntryOutlivesWebsocket, OpenHasOwner and AckedIsRead, from one inductive
  invariant.  `Made` says that a Conn has its Cid, connection and WebSocket from
  the start and that one whose loop is over is closed and out of Conns; `Swept`
  that a cleanup still has before it every entry of its WebSocket; `Once` that a
  CONNECT is sent once and handled once; `Unanswered` that before the answer the
  only Conn of a Cid is the one HandleConnect holds or has left behind, which is
  why a Conn without a loop is in Conns until somebody closes it.

`Packer_proofs` is about `Packer` for every size of a byte, all lengths that
`PackerAssumption` allows (those of `packer.go`, 192 + 31 below 65536, among them) and
every mixing function of which one thing is known, `MixIsInteger`: mx yields an
integer for the words it is given.

* `UnpackReturnsThePacked`: `Unpack(Pack(msg, ...)) = msg` for every `Packable` message
  (each string fits 16 bits, the data and the whole fit 32), every password,
  random key and padding.  It puts together, from the inside out:
  `DecodeInvertsEncode` (fields one after the other: a reader that stands at a
  field takes it and stands at the next), the words of `toUint32s` and `toBytes` with
  the length word, `DecryptInvertsEncrypt`, the shuffle as its own inverse, and
  `PaddingIsFound`.
* `DecryptInvertsEncrypt`: `decrypt` undoes `encrypt`.  A round changes one word at a
  time by what its neighbours and the sum say; on the way back each word meets the
  same neighbours, and each round the sum it had.
* `DeobfuscateInvertsObfuscate` rests on `unique`: the swaps of `getTable` do not overlap
  when no byte of the key comes twice, so that the table is an involution.
* `PaddingIsFound`: the 16-bit sum of offset and padding does not wrap, and the
  difference is the padding.
* `OnlyWholeIsDecoded`: a message cut anywhere, or with anything behind its end, is an
  error: what is read of a cut message is what was written until a field is short.

The loops of the ciphers need induction over numbers.  The library's induction theorems
are about an operator and no prover here can instantiate them, so the same is done
with a set: `SetInduction`, from the least element of the set of counterexamples.
That a function defined by recursion satisfies its equation follows from one that
does, built along the way (the `CHOOSE` in those lemmas).

`FrontEnd_proofs` is about `FrontEnd` for any clients that `ClientsAssumption` admits, any
buffer sizes with a piece of the bufio.Writer smaller than `BUFFER_SIZE` (4096 and
65536 in the code) and any password.  It cites `Packer_proofs` for every message.

* `TypeCorrect`, `AcceptedAsAsked`, `ExitGetsTheMessage`, `CutIsAnError`: `Spec => []` of
  TypeOK, AcceptedIsAsked, UnpackInvertsPack and OnlyWholeMessages.
* `InOrder`: `Spec => []ForwardedInOrder`, for all of these clients.

AcceptedIsAsked is not inductive: what a SOCKS5 read leaves in `buf` decides what the
next one may take for an address.  `SocksInv` says that the socket and what is
unsent are together the rest of the current part, so that a read that is accepted
has all of it and nothing else (`AddressFromFirstBytes`, `NothingIsLeft`).  `HttpInv`,
`ConnectInv` and `PlainInv` say the same of a header that is read in pieces, and that
nothing is in the tunnel before the answer.  `LastIsPacked` says that the message sent
last was packable, which `Sendable` shows for each of them from the sizes of the
buffers: this is where the lengths of the code matter.  For the order of the bytes
`OrderInv` adds, for plain HTTP, that what was sent, the socket and what is unsent are
together what `Arrives` of the requests so far: a beginning, and of a request with a
body any part that keeps its order (`KeepsOrder`).  A read takes from the front of one
sequence what it puts at the end of the one before (`Moves`, `CopySteps`), so it keeps
both.  A read of the pipe's goroutine takes from the middle of what is still to
arrive and gives it to a pipe that nobody reads after the flush: `LeftOut` says that
the rest keeps its order, and `KeepsItsOrder` that this may happen again and again.
`ArrivesAsBeginning` has the facts that both kinds of request need.

`Deploy_proofs`: `SuccessIsReal` (`Spec => []OkMeansDone`) and `KeepsRunning` (`Spec
=> TakesNothingDown`) for any set of configurations; `Progress` says what a run has
achieved when it makes a call.

Every safety invariant that a passing run checks is proved, and so are the action
properties `RoundRobin`, `ImplementsLanes` and `TakesNothingDown`.  Model-checked
only: liveness, among it `RepeatedDeployWorks`, which needs fairness and ENABLED.

## 6. Not modelled, and the plan

Hazards that no property covers carry a note in `PROJECT.json`.

1. `TwoHops`: `RelayHop` towards an exit that keeps its own Conns; CLOSE that is
   lost between hops (`server.go:253`), and the CLOSE of an older Conn
   (`server.go:392`), which needs a local session at the other end.
2. The choice among several RelayClients by load, and several Wids at an exit:
   nothing but Conns is shared, and entries of different Wids do not meet.
3. INACTIVE_TIMEOUT of the puller's count (`wsconn.go:235`): a session that has been
   silent for that long lets the puller sleep although it is in Conns.
4. An abstract byte stream per connection, which both halves of SWITCH would
   implement if it were not torn (`NoTornStream`), and which is why there is none.

Left out for good: the mixing function of xxtea (a parameter of `Packer`, whose
inverse does not depend on it), the legacy gob format (an encoding of the
standard library; only its rejection of binary messages is used), the dialer
(pure I/O; its success or failure is in `ExitServer`), metrics endpoints (counters
that nothing decides by), `main.go` but for the deploy command, `logger/`, the shell
scripts.
