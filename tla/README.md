# A TLA+ model of heteroglossia

heteroglossia is a proxy. A client accepts HTTP and SOCKS connections, decides
by routing rules whether to connect directly, to reject, or to forward, and
forwards through one of four carriers (Shadowsocks 2022, Trojan, NaiveProxy,
SunnyQUIC) to a server, which connects to the target. This directory models the
parts whose correctness depends on orders, times, partial failures or byte
boundaries and checks them with TLC on small instances. The safety properties that
hold there are proved with TLAPS for all instances, and so is the safety half of
the refinement by which the carriers implement a byte stream.

Paths below are relative to `src/`.

## Inventory

| Part | State it keeps | Operations | What is hard | What makes it correct |
|---|---|---|---|---|
| Shadowsocks replay protection (`transport/ss_carrier/salt_pool.go`, `readClientFirstPayload` in `conn.go`) | salts with the instant they were added, the last cleaning | `checkAndAdd`; the checks of the first message | sessions share the pool; cleaning is lazy; instants against whole seconds | one admission per salt and retention period; bounded age of entries |
| Shadowsocks stream (`conn.go`) | nonces, leftover bytes, "first payload done" flags | `ReadFrom`, `Write`, `Read`, `WriteTo`, `CloseWrite` | framing, nonces in step, the first message's special form, short reads, tampering | the reader gets a prefix of the writer's bytes, in the end all of them |
| NaiveProxy padding (`transport/np_carrier/padding_reader_writer.go`) | frame counters and what is left of a frame | `Read`, `Write` | both ends change to raw bytes after the same frame | as above |
| NaiveProxy client (`transport/np_carrier/client.go`) | one cached HTTP/2 connection, its padding capability | `DialTCP`, `getConn`, `connect`, `fastOpen` | slots reserved before use, padding learned late, failures with the mutex held | both ends agree on padding; no slot or connection leaks; calls return unless a live server does not answer |
| SunnyQUIC server (`transport/sq_carrier/server_quic_conn.go`) | authenticated or not, context, timer | `handleStream`, `handleAuthTimeout`, `close` | streams overtake authentication, early data, the timer | nothing is dialled unauthenticated; nothing waits for ever |
| SunnyQUIC client (`transport/sq_carrier/client.go`) | one cached QUIC connection | `DialTCP`, `getQUICConn`, `authenticate` | early data rejected at any moment, lost connections | only authenticated connections are handed out |
| Trojan/NaiveProxy port (`transport/tr_np_carrier`, `tr_carrier/server.go`, `np_carrier/server.go`, `util/netutil/listener.go`) | bytes peeked at, a pooled buffer, a listener fed by `Push` | `HasPasswordHash`, `Push`, `Accept`, `handle` | bytes one by one, a buffer that is reused, shutdown during hand-over | the right protocol; only the site without the password; no connection stuck or given foreign bytes |
| Forwarding (`transport/server.go`, `util/ioutil`) | two copiers | `ForwardTCP`, `Pipe` | half close, resets, preloaded bytes | no byte lost, ends passed on, everything closed |
| Router (`transport/router/client.go`) | rules, a read-write lock, a cache of carriers | `DialTCP`, `updateRouting` | rules replaced during a decision | one version per decision; no stuck dial |
| Rule file updater (`util/updater`) | files on disk | download, verify, replace | crashes, two downloads of different releases, two renames on Windows | the file is a whole release, or one lies beside its place |
| Domain matching (`conf/rule`) | a trie of labels, regular expressions | add a rule, match | rules overlap in any order | the trie says what the rules say |
| Inbound SOCKS, HTTP and both on one port (`transport/socks`, `http`, `http_socks`, `socket_addr.go`) | per connection only | negotiation, relay of plain requests | bytes read too far, the `net.Pipe` between two loops that end by way of each other | forwarded only as negotiated; no byte lost; both loops end |
| Listeners (`util/netutil/listener.go`, `http_socks/server.go`) | sockets and their goroutines, the list of all listeners | accept loops, callbacks, `StopAllServerListeners` | two listeners that must stop together | sockets closed, callbacks run once |
| Process life cycle, system proxy, binary updater (`main.go`, `util/osutil`, `util/proxy`, `util/updater`) | the binary on disk, the proxy setting, termination handlers | signals, fatal errors, self update and restart | several goroutines end the process at once; crash during replacement | a complete binary is always there; the proxy is unset, once; the process ends when asked |
| Configuration, rule database, TLS and certificates, command line, logging (`conf`, `util`) | settings | parse, query, format | little | see "Not modelled" |

How they interact: an inbound server calls `ForwardTCP` with the router as the
client; the router chooses the direct, the reject or a carrier client; the
carrier's connection is one side of `Pipe`. On the server the carrier's server
calls `ForwardTCP` with a router or direct client of its own. The updater
downloads through the router, and so takes the router's read lock, before it
exchanges the router's rules under the write lock. The Trojan server passes
connections it does not recognise to the NaiveProxy server through a listener.
A fatal error of any server, a signal and the self update each run the
termination handlers, one of which unsets the system proxy that the HTTP/SOCKS
server has set.

## Modules

| Module | Models | State and actions against the code |
|---|---|---|
| `SaltPool` | replay protection | `pool`, `lastCleaned` are the fields of `saltPool`; `AdmitSalt` and `RejectReplay` are `checkAndAdd` returning true and false, one critical section each, with the lazy cleaning in both; the other actions are the statements of `readClientFirstPayload`, with the difference between `return err` and `return errors.New(...)` for the deferred function |
| `MCSaltPool` | | messages for TLC |
| `ByteStream` | what a one-way byte stream promises (abstract) | `Send`, `Close`, faults, `Deliver`, `End` |
| `SSStream` | one direction of a Shadowsocks connection | a chunk is sealed with a nonce and opens only with the same nonce and size; `isClient` is chosen at the start and selects the request's or the response's first message |
| `PaddingStream` | one direction of a padded NaiveProxy stream | `count` on both ends; the header, payload and padding of a frame are read in pieces |
| `Carriers` | both, as implementations of `ByteStream` | `padded` tells which of the two a behaviour is about; holds the refinement mappings |
| `Relay` | `ForwardTCP` and `Pipe` | two copiers, `CloseWrite`, preloaded bytes; `setup` tells which sides have half-close and whether the carrier's header waits for the first payload |
| `Inbound`, `MCInbound` | a connection from its first byte, composed with `Relay` | `protocol`, `stage` and `replied` follow `http_socks`, `socks` and `http` statement by statement until `CallForwardTCP`; a target is a spelling (what it names, in brackets or not, its port) and `ToSocketAddr` says what it becomes; `loop` is the goroutine that relays plain requests, Relay's source being the other end of its pipe; a connection of a carrier's server starts in `Relay` |
| `Process`, `MCProcess` | listeners, system proxy, end and restart of the process, binary updater | `serving` is where each listener's function stands, `ending` where each goroutine that runs the termination handlers stands (`signal`, `Fatal` of this server or of another, updater); files are releases, whole or begun; `Killed` may come between any two steps |
| `SunnyServer` | one server connection | one goroutine per stream, the timer, the context and the QUIC connection |
| `SunnyClient` | the client's cached connection | callers under the mutex, `authenticate` statement by statement, early data and its rejection |
| `NaiveClient` | the client's cached connection | callers under the mutex, slots of a connection, first request and fast open |
| `TLSDemux` | the shared port | the loop of `HasPasswordHash`, the pooled buffer and the copy of its bytes, `Push` and `Accept`, `ServeAuthenticated`, `handle` of the NaiveProxy server, shutdown |
| `Router`, `MCRouter` | router and rule updater | the two-pass matching under the read lock, the carrier cache, every step and failure of an update on Unix and on Windows (`os`), death and restart |
| `DomainMatcher`, `MCDomainMatcher` | the trie | a node is the path of labels to it; `AddToTrie` is `addDomainFullOrSuffixRule`, `Walk` is `match` |
| `AdmissionProofs` | | theorems about `SaltPool` and `SunnyServer` |
| `RoutingProofs` | | theorems about `Router` and `DomainMatcher` |
| `SunnyClientProofs`, `NaiveClientProofs`, `TLSDemuxProofs`, `ProcessProofs` | | theorems about the module each is named for |
| `InboundProofs` | | theorems about `Inbound` with the `Relay` it is composed with |
| `CarriersProofs` | | theorems about `Carriers`, that is `SSStream` and `PaddingStream`, and that they implement `ByteStream` |

quic-go, net/http's HTTP/2 transport, the peers, the network and the file
system are external: they take the steps their interfaces allow. Encryption is
perfect: a chunk that was altered or moved does not open. Every definition
named "Mutated form" is a plausible mistake in the definition below it; none is
part of a specification. Each property is kept only if such a mistake breaks it.

## Runs

Run one with `tlc -config X.cfg M`, where `X.cfg` and `M` are listed together.

| Run | Shows |
|---|---|
| `MCSaltPool_replay.cfg` with `MCSaltPool` | two sessions with one salt are admitted more than the retention apart (`NoReplayWithinRetain`); a message establishes two sessions only if it was first admitted in the first second of its window (`ReplayOnlyAtWindowEdge`); replays neither add nor refresh (`StoredSinceAdmission`); no entry outlives twice the retention (`StaleEntriesBounded`) |
| `MCSaltPool_RstOnEveryRejection.cfg` | **violated**: see Findings |
| `Carriers.cfg` with `Carriers` | both directions of Shadowsocks and padded NaiveProxy streams implement `ByteStream` (`ImplementsByteStream`); nonces and announced lengths, and the padded frames of both ends, stay in step (`FramingInStep`); no chunk is sealed whose size its 16-bit length field could not announce, also where a first payload shares its chunk with the address, and frames keep to their limits (`CarrierTypeOK`) |
| `MCInbound.cfg` with `MCInbound` | a client is forwarded only with the right reply, credentials and target (`ForwardedAsNegotiated`); its bytes, those read during the negotiation too, are not held back or lost (`NegotiatedBytesReachOtherSide`); an end comes after all bytes (`EndAfterAllBytes`) and reaches every side that can be half closed (`EndReachesOtherSide`); finished connections are closed (`FinishedIsClosed`); the loop of plain requests ends (`LoopEnds`) |
| `MCInbound_ResponseEndsWithTarget.cfg` | **violated**: see Findings |
| `SunnyServer.cfg` with `SunnyServer` | no dial before authentication and handshake (`DialOnlyAuthenticated`); requests are resolved (`RequestsResolved`); a silent peer is dropped (`UnauthenticatedIsClosed`) |
| `SunnyClient.cfg` with `SunnyClient` | a connection that is handed out carries an authentication the server will see (`HandedOutAuthenticated`); one live connection at a time (`OneLiveConn`); dials return (`EveryCallReturns`) |
| `NaiveClient.cfg` with `NaiveClient` | both ends agree on padding (`PaddingAgrees`); slots are used or given back (`SlotsAccountedFor`); failed set-ups close what they opened (`NoConnLeftBehind`); a dial returns, or its request is out on a live connection whose server does not answer (`EveryCallReturns`) |
| `MCRouter.cfg` with `MCRouter` | a dial is decided by one version (`DecidedByOneVersion`) and is decided at all (`EveryDialDecided`); one carrier per outbound (`OneClientPerOutbound`); wherever an update fails or the process dies, the rules file is a verified release, or on Windows there may be none and a whole release is beside it (`FileIsARelease`) |
| `MCDomainMatcher.cfg` with `MCDomainMatcher` | the trie matches what the rules cover (`TrieMatchesRules`); later rules only add (`RulesOnlyAdd`) |
| `TLSDemux.cfg` with `TLSDemux` | Trojan exactly if hash and CRLF come first (`TrojanIffHash`); without the password there is nothing but the web site (`OnlySiteWithoutPassword`); a reused buffer shows nobody foreign bytes (`ServedItsOwnBytes`); a pushed connection is served or closed (`PushedIsServedOrClosed`) |
| `MCProcess.cfg` with `MCProcess` | a complete binary survives any crash (`SomeWholeBinary`); two listeners stop together (`ListenersStopTogether`); the proxy is unset once (`UnsetOnce`) and not forgotten by an end through the handlers (`ProxyNotForgotten`); a signal ends the process (`EndsWhenAsked`) |

### Bounds

* `MCSaltPool`: three sessions (two that race and one later), two salts, two
  ticks in a second so that seconds and instants differ, a retention of four
  ticks (twice the window of one second, as in the code 60 s is twice 30 s), and
  a clock that runs past two retention periods, so that a cleaning is due,
  is not due, and comes too late. `MaxInt64` is just beyond the clock, so
  that timestamps on both sides of it occur.
* `Carriers`: for Shadowsocks chunks of five bytes and six bytes in all, so that
  one write needs a first message and a chunk, or two chunks, and buffers of one
  and two bytes; for NaiveProxy three padded frames of at most two bytes, which
  are crossed within a write and within a read.
* `MCInbound`: two bytes in each direction, one of them preloaded, with room for
  one in flight, so that a copier blocks; two plain requests on a connection. All
  kinds of sources, and targets with half-close, which all dialled connections
  have. Eleven spellings of a target, one for each case of `ToSocketAddr`, and
  credentials that differ in either part.
* `SunnyServer`: three streams: an authentication, a request and one more of any
  kind. `SunnyClient`, `NaiveClient`: three concurrent callers, two connections
  for a replacement, and fewer stream slots than callers.
* `MCRouter`: Unix and Windows, two dials, two versions of the rules, an IP
  address and an IP address sent as a domain, which the two versions decide in
  different passes, and one death of the process, so that the leftovers of a failed
  update are met by another one, in the same process and in the next.
* `MCDomainMatcher`: two rules and domains of up to three labels, one of them in
  two spellings; more is covered by the proof.
* `TLSDemux`: two connections and two buffers, so that a buffer is free, taken or
  given back when the other connection starts; a hash of one byte and three bytes
  in all, which are a whole header, so that CR and LF come too early, in place and
  too late.
* `MCProcess`: two starts, so that what a crash leaves is met by the next process;
  three releases, so that one update follows another that did not complete; one
  configuration with two listeners and a system proxy, one that updates itself on
  Unix, one on Windows.

### Fairness

Weak fairness for goroutines: a goroutine that can run does. Dials in `Router`
need strong fairness, because the lock is released and taken again: Go's
`RWMutex` admits waiting readers when a writer unlocks and its `Mutex` does not
starve. `Inbound` assumes that a side reads what it is sent, and not that it sends
or ends. `Process` assumes that the commands it runs end, and nothing of failures,
signals, crashes, or a user who starts it again. `SunnyServer` and `SunnyClient`
assume that timers fire and that QUIC completes a handshake or gives up, which its
idle timeout guarantees. `NaiveClient` assumes that dialling and the TLS handshake
end, which `dialerTimeout` guarantees, and that a request ends when its connection
has died. It does not assume that a server answers, nor that a request fails
otherwise: `ResponseHeaderTimeout` (`util/netutil/util.go` line 79) starts when the
body of a request is written, and the body of a CONNECT is a pipe that stays open.
No peer is assumed to send anything.

Types: `TypeOK` of every module is proved. It is a property of a run only where it
says more than a type: in `MCSaltPool_replay`, in `MCDomainMatcher`, and, for the
carriers, where it says what fits on the wire.

Deadlock is checked where the system never stops (`MCRouter`,
`MCDomainMatcher`); the other models end when their connections have ended.

## Proofs

Check a module with `tlapm M.tla`. Each theorem holds for all values of the
constants that satisfy the assumptions named with it. Those assumptions say that
bounds are natural numbers and sets have the members that their comments give
them; those that say more are listed here. TLC evaluates all of them in the
runs.

The form is the same throughout: an invariant `IInv` (or a name that ends so) that
every step preserves, proved action by action, those that fail or return early
among them, from which the properties follow. The
library's induction theorems cannot be used by the installed provers, so where
an induction is needed the proof takes the least number with a property
(`LeastElement`, `LeastNumber`) and shows that there is none below it.

### `AdmissionProofs`

`SaltPool`, from `ClockAssumption` (a clock below the largest int64),
`MessageAssumption` (timestamps are unsigned 64-bit numbers) and
`RetainAssumption` (the retention is at least twice the allowed difference):
`TypeCorrect`, `ReplayProtection`, `StoredSinceAdmissionHolds`, `WindowEdge` and
`BoundedStaleness`, the five properties of `MCSaltPool_replay`.
`NoReplayWithinRetain` is not inductive: it speaks of sessions, and whether a
salt is admitted depends on the pool. `IInv` adds that every session admitted
within the last retention period is still in the pool with an instant no older
than its admission (`PoolCoversAdmissions`), that stored instants and the last
cleaning are not in the future (`PoolInv`), that a session has an admission
exactly from the point where the code has passed `checkAndAdd` (`SessionInv`),
and that an established session was admitted before its window ended
(`AdmittedBeforeWindowEnd`), from which `WindowEdge` follows by the arithmetic of
whole seconds. `StaleEntriesBounded` is an action property: a call either finds a
cleaning due and drops everything older than the retention, or the last cleaning
is recent, and nothing it left is older than twice that.

`SunnyServer`, for any set of streams: `ServerTypeCorrect`,
`AuthenticationBeforeDial` and `RightHashBeforeDial`. The last one is no property
of a run: behind a dial there is a connect request on that stream and, on
another one, an authentication command with the right hash. `ServerIInv` holds
what each `select` has waited for (`WaitedFor`), that only connect requests get
that far (`OnlyConnectsWait`), and that `authDone` was closed by a right hash
(`AuthenticatedByHash`).

### `RoutingProofs`

`Router`, for any rules, dials and versions; a dial is not the updater and a
mutex that is free has no holder (`RouterAssumption`): `TypeCorrect`,
`OneVersionDecides`, `RulesFileIsWhole`, `OutboundHasOneClient`, and
`RulesStableWhileRead`, an action property that no run has. The invariant ties
the readers to the steps between `RLock` and `RUnlock` and lets a writer hold the
lock alone (`RWMutexInv`); says what each pass has found with the rules that are
still in memory (`PassesInv`); that whatever is about to be renamed or put in
memory is a release, and that between the two renames of Windows the old release
is in `.old` (`RulesInv`); and that the holder of `carrierClientsMutex`
still builds the first client (`CarriersInv`). `DecisionByPasses` shows that the
two passes of the code together give the decision of one version.

`DomainMatcher`, for any labels, any lower-casing that is idempotent
(`LowerAssumption`) and any number of rules: `TrieCorrect`, `LaterRulesOnlyAdd` and
`MatcherTypeCorrect`. The invariant (`MatcherInvariant`) says that the trie is
closed under prefixes, that a node with a match stands for a rule, and that every
rule has its node or lies under a suffix node. The last two together are what the
walk needs: an early return in `addDomainFullOrSuffixRule` leaves a rule out of
the trie only where a suffix rule already covers it.

### `SunnyClientProofs` and `NaiveClientProofs`

For any finite set of callers, any number of connections, and any number of
streams that a server allows. `OnlyAuthenticatedIsHandedOut` and
`ConnectionIsShared` need an account of every step of `authenticate`: what has
become of the command, sent as early data or after the handshake, is known from
the local variables only in connection with the handshake (`AuthenticateInv`);
whatever is alive is cached or being made by the holder of the mutex
(`LiveIsKnown`, `NoneCachedWhileMaking`). `StreamsAreThoseOfCalls` counts the
streams of a connection by the cardinality of the set of calls that have one.

`TunnelsPadAsServer`, `SlotsAreThoseOfCalls` and `ConnectionsAreKnown` are inductive
with a few facts: who holds the mutex and that it dials only when nothing is
cached (`MutexInv`), in which order connections are dialled (`DialedInv`), that the
padding capability is only stored for a server that pads (`PaddingKnown`). Slots
are counted with lemmas about what one call does to the set of calls that have a
slot (`SlotTaken`, `SlotFreed`, `SlotsKept`).

### `TLSDemuxProofs`

For any number of connections and buffers, any length of the hash and any bytes:
`HashIsRecognised`, `NothingWithoutPassword`, `BytesStayWithTheirConnection`. The
loop's `wasCR` tells of the byte before the position (`PeekInv`); two connections
never hold one buffer (`BuffersInv`), and once something was read into it a held
buffer has its holder's bytes, while what the HTTP server reads is a copy
(`ContentInv`).

### `ProcessProofs`

For any releases, number of starts and configurations (Windows has no
system proxy to set, `ProcessAssumption`):
`BinaryIsWhole`, `ProxyIsUnsetOnce`, `ProxyIsNotForgotten`. `FilesInv` says when `.new`
is complete and that only Windows moves the installed binary away, which is what
makes a crash at any step harmless together with the leftovers of an earlier
one. `UnsetInv`, `MainListenerInv` and `EndersInv` relate `hasUnsetProxy`, the
listener's callback and the goroutines that end the process.

### `InboundProofs`

For any numbers of bytes, any room between the copiers, any credentials and
spellings of targets (some `authInfo` there must be: `InboundAssumption`):
`NoEndBeforeLastByte` and `OnlyNegotiatedIsForwarded`. `FlowInv` cuts the bytes that a
side has sent into what the other has read, what is under way, what the server
read before forwarding (`preload`, `buffered`) and what is still to be read, and
says that these pieces continue each other; when a side is gone the rest may be
missing, but not a byte in between. `EndInv` adds that a copier is done only
when its source is drained, and that only a copier that is done lets the other
side see an end. `StageInv`, `ProtocolInv` and `NegotiatedInv` say what has been
established at each stage of the negotiation; all stages of the three protocols
are needed for the end of any of them.

### `CarriersProofs`

For any number of bytes, sizes of chunks, paddings and buffers, provided that the
header of a request with its padding fits one chunk, and a fixed header too
(`SizeAssumption`; in the code an address, two bytes and 900 of padding against
65535): `CarrierTypeCorrect`,
`FramingStaysInStep` and `CarriesByteStream`. The last is the refinement without
its fairness: the initial states are those of `ByteStream`, and every step is one
of its steps or none, under the refinement mapping of `Carriers`.

A Shadowsocks direction (`SealedInv`): every payload takes two nonces
(`SealingInv`), the nonce says which chunk the reader waits for (`OpeningInv`), and on
a link without a fault the wire has the chunks from the reader's nonce to the
writer's, each of the size announced for it (`IntactInv`). That is not enough when
chunks are dropped, exchanged or altered. `BytesInv` therefore says, for some
function from nonces to offsets in the stream, that a chunk that is not forged
has the bytes of its nonce wherever it has been moved; the reader, which opens a
chunk only with its own nonce, then gets a prefix whatever was done to the
wire.

A padded direction (`PaddedInv`): there is nothing on the wire that tells the
reader where it is. `RunsTo` says how a reader goes from one state to another
through a sequence of headers, bytes and padding, and `PipeInv` says that what is in
the pipe takes the reader from where it is to where the writer is, or some way
there if the rest was cut off. The lemmas `ConcatRuns`, `DropRun` and `CutRun`
are what writing, reading and cutting do to such a run; `PayloadRun`, `PaddingRun`
and `BytesRun` are the runs through the parts of a frame.

### Only model-checked

* Liveness: `NegotiatedBytesReachOtherSide`, `EndReachesOtherSide`, `FinishedIsClosed`,
  `LoopEnds`, `RequestsResolved`, `UnauthenticatedIsClosed`, `EveryCallReturns` (twice),
  `EveryDialDecided`, `PushedIsServedOrClosed`, `ListenersStopTogether`,
  `EndsWhenAsked`. The prover has no rules for fairness and `ENABLED`.
* The fairness of `ByteStream` in `ImplementsByteStream`; `CarriesByteStream` proves
  the rest of it.

## Findings

* `readClientFirstPayload` sets `SO_LINGER` in a deferred function that reads the
  variable `err`. Three returns (`transport/ss_carrier/conn.go` lines 330, 371,
  380) make their error in the return statement and leave the variable nil, so a
  replayed salt, an empty header or a bad padding length is rejected without the
  RST that the comment at line 308 promises "consistently".
* A plain HTTP request is relayed over a `net.Pipe` (`transport/http/server.go`
  line 97), on which `CloseWrite` does nothing. If the response ends with the
  connection of the target, its end is not passed on: the loop waits for the rest
  of the response, the copier from the source waits for the loop, `Pipe` waits for
  both copiers. Nothing is ever closed, whether the client stays or leaves,
  although the comment at line 124 has both connections closed
  (`ResponseEndsWithTarget`).

Observed while reading, and not the subject of a run:

* `checkAndAdd` looks salts up without comparing times, so a salt is rejected for
  up to twice `retainDuration`; its comment says "within retainDuration".
* The salt is recorded before decryption, where the quoted specification
  (`salt_pool.go` lines 9 to 13) decrypts first.
* `updateRouting` reads `c.routing.Rules` (`transport/router/client.go` line 167)
  and is scheduled also without a routing section, when `c.routing` is nil.
* NaiveProxy's server stream is made without a `CloseWrite` too: the end of the
  target is not passed on before the source ends. `EndReachesOtherSide` leaves
  such sources out.
* Shadowsocks and Trojan announce the target with the first payload, so a source
  that waits for the target to speak first is not connected.
* Regular expressions and keywords match a domain as it is spelled, while the
  trie ignores case.
* `HasPasswordHash` says that it returns "as soon as" it meets a byte that cannot
  belong to the header (`transport/tr_carrier/server.go` line 86), but reads the
  whole length of the header unless it meets CRLF.
* `validateUnixTimeInRange` (`transport/ss_carrier/util.go` line 83) converts an
  unsigned timestamp to int64 and subtracts without regard to overflow; one just
  past 2^63 passes the check. Only the holder of the key can send one.
  `ReplayOnlyAtWindowEdge` is stated for the others.
* Later plain requests of one connection go to the target of the first one,
  whatever they name, and their credentials are not looked at.
* `http.Serve` gives its buffer back when it returns, while the loop of plain
  requests, which reads requests from it, may still run for a moment.
* The SOCKS reply "command not supported" is one byte short of the format.
* A malformed HTTP request, and a target that cannot be dialled, close the
  connection without a reply. The negotiation has no timeout.
* `ToSocketAddr`: a name in brackets without colon and port stays in brackets and
  becomes a domain; the check `ipv6Required && !Is6` cannot fail, since an address
  with a colon is an IPv6 address.
* `acceptNetConn` returns on any error of `Accept`, a temporary one too, and for
  the servers started in `main` that is fatal.
* A signal between the commands that set the system proxy and the registration of
  the handler leaves the proxy set, as does `syscall.Exec` of a new binary until
  that one has set it again; and of two goroutines that end the process, the
  second one does not wait for the first to finish unsetting it.
  `ProxyNotForgotten` is stated with these limits.
* On Windows the rules file is moved to `.old` before the new one is moved in
  (`util/updater/updater.go` lines 241 to 247). If the process dies between the
  two, or the second rename fails, there is no rules file. A running process
  finds it missing at its next update and downloads it again; a new one cannot
  start, since `conf.Parse` needs the file, until somebody puts one back.
  `FileIsARelease` says that a whole one is beside it. The second rename may well
  fail: `.new` is still open then (its `Close` is deferred), which Windows may
  refuse.
* A `DialTCP` of the NaiveProxy client to a server that lives and does not answer
  waits without limit, unless its caller's context ends (see Fairness).
* On Windows, a process that was started by a self update cannot update itself:
  the parent waits for it and runs from `.old`, which the next update has to
  replace.
* The archive is extracted into the temporary directory without `O_TRUNC`
  (`util/updater/updater.go` line 188). If a crash has left a longer file of the
  same name there, its tail stays behind the new binary. `Process` does not see a
  tail behind a complete binary.
* A listener that starts after `StopAllServerListeners` has run is not stopped.
* A connection that is full is replaced and forgotten without being closed
  (`transport/np_carrier/client.go` line 170); the transport or the server has to
  close it.
* If a new rule file cannot be loaded the old rules stay in use while the file is
  already new, so that the next update finds nothing to do.
* The cache of client TLS configurations (`util/netutil/tls.go` line 37) is keyed
  by the host, though certificate file and key log may differ per outbound.
* An invalid regular expression of a domain tag is dropped in silence
  (`conf/rule/matcher.go` lines 89 to 108): the error of the closure is overwritten
  by what the query returns.

## Not modelled

* The web site itself, certificates, command line, logging: calls of libraries
  without state of their own.
* The commands that set the system proxy: only when they run and that they take
  time is in `Process`.
* The rule database: SQL behind one call that succeeds or fails (`Router`, `Load`).
* IP prefix tables: the bart library.
* The validation of the configuration: a straight line of checks before anything
  runs.
* The checks of a response's type, timestamp and salt in the Shadowsocks client
  (`transport/ss_carrier/conn.go` lines 437 to 452): `ReadFixedHeader` of
  `SSStream` checks what every fixed header has.
* Which of the errors of a set-up was met, where all are handled alike:
  `SetUpFails` of `NaiveClient` stands for four returns, each of which closes the
  connection, and `OpenStreamFails` of `SunnyClient` for every error of a stream
  (`transport/sq_carrier/client.go` lines 52 to 60), taken with the loss of its
  connection.
* Dispositions of signals other than the default: `Exit` of `Process` assumes that
  a signal that is no longer caught ends the process.
* The text of HTTP, and headers that are removed from a plain request.
* Other streams of an HTTP/2 connection of which one is being forwarded
  (`TLSDemux`); `NaiveClient` has several streams on the client's side.

## Plan

Done: the modules above, in the order replay protection, Shadowsocks stream,
padding, forwarding, SunnyQUIC, router and updater, domain matching, NaiveProxy
client, shared port, inbound servers composed with forwarding, process life
cycle; proofs of all safety properties of the runs and of the safety part of the
refinement of `ByteStream`.

Next:

1. Proofs of what the liveness properties rest on and can be said as safety: that
   some step is possible wherever a call, a dial or a forwarding is not over, and
   that no two goroutines wait for each other.
2. Action properties that hold of every step and so far only follow from the
   shape of the invariants: an authentication is never taken back
   (`SunnyServer`), an end is never followed by bytes (`Inbound`).
3. The cache of TLS client configurations; padding negotiation of the NaiveProxy
   server, composed with `NaiveClient`; a router without a routing section.
