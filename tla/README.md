# Verification of flexent

TLA+ models of the parts of flexent whose correctness depends on the order of events, with TLC configurations that
check them on small instances and TLAPS proofs for every size. Source paths below are relative to `src/packages/`.

## The system

flexent is a monorepo of Node.js building blocks. Every package runs on one event loop; what makes the code hard is
what happens between two turns of it: awaits, timers, socket events, signals, child processes.

| component | state | operations | interacts with |
|---|---|---|---|
| `protocomm` WsClient | current socket, connect promise, reconnect flag, queue | connect, disconnect, retry loop, reconnect, flush | RpcClient (calls it, is called by it), WebSocket events, timers |
| `protocomm` RpcClient | last id, map of unsettled calls, event map | method call, response, event, handleClose | WsClient sends and closes, caller's promises |
| `protocomm` RpcHandler, `protocomm-ws` | listeners on protocol events and the event bus | request, response, event, close | one per connection, shares the protocol implementation |
| `protocomm-http` | none | one request, one method call | HttpServer, RpcHandler's protocol index |
| `http-proxy` BaseProxy | server, client sockets, tracked connections, statistics | start, shutdown, CONNECT, plain request | upstream proxies, remote hosts, ConnectRetryState |
| `http-proxy` RoutingProxy, SslBumpProxy, SslCertStore | routes, certificate cache | match, insert, remove, bump | BaseProxy's hooks |
| `http-server` HttpServer | server, stopping flag, pending requests per socket | start, stop, connection, request, finish, close | handlers, timers, Node's server |
| `http-server` HttpContext, HttpChain, handlers | request body memo, response fields | read, send, next, present an error | HttpServer, the application |
| `http-router`, `pathmatcher` | route definitions, path parameters | match, middlewares, endpoint | HttpContext, the application |
| `ensemble` Ensemble, ProcessFork, cli | forks, process field, exit hooks, signal handlers | start(All), stop(All), signals | child processes, ports |
| `ws-proxy` | two sockets per relay | upgrade, relay, teardown | HTTP server, upstream |
| `stack-backend` env, BaseApp, ProcessSignals | process environment, signal handlers | configure, start, stop | files, HttpServer, the application |
| `methodology` | files of a project | sync, check | the file system |
| `metrics`, `pointer`, `logger`, `jwt`, `errors`, `init-decorator`, `eslint-config`, `stack-vue` | counters or none | pure or sequential | - |

What makes each correct, and what is hard about it:

- **WsClient/RpcClient**: every call is settled at most once, sent at most once and in order, kept through a
  reconnection if it was only queued, rejected if it was in flight. Hard: connection loops that overlap, events of
  sockets that are not current any more, a close in the middle of a flush, late responses.
- **CONNECT race**: one winner, everything else released, failure only when everything failed. Hard: attempts that
  connect, fail or obtain their socket after the race is over.
- **HttpServer**: shutdown ends idle sockets, lets requests finish, ends in bounded time and leaves a server started
  afterwards alone. Hard: pipelining, requests that race with the end of their socket, overlapping `stop()` calls,
  TLS.
- **ensemble**: start in dependency order once ports are open, stop in reverse order with escalation, leave nothing
  behind. Hard: children that ignore signals or die, two signals, failures in the middle of a start.
- **RPC server and RPC over HTTP**: one response per request, no execution repeated or misreported. Hard: connections
  that close while methods run, listeners shared between connections, results that do not encode.
- **Proxies**: neither end of a tunnel or relay outlives the other, one answer per request, no broken response passed
  off as a whole one, nothing lost or reordered around an upgrade. Hard: sockets that end or fail while something is
  awaited and nobody listens, a restart while the old server closes.
- **HTTP request and router**: one answer whatever is thrown, no internals in it, the whole body or an error, guards
  before endpoints. Hard: errors inside error handling, reads that overlap or repeat, prefixes and wildcards.
- **Certificates, environment, methodology files**: a cache that outlives what is in it, files merged in an order that
  depends on what they say, writes cut short. Hard: long sequences of legal steps.

`PROJECT.json` lists the hazards that matter most (forty), each at its line with the properties that cover it.

## Modules

| module | models | checked by |
|---|---|---|
| `RpcCalls` | what an RPC client promises its callers (abstract) | refinement from `WsClient` |
| `WsClient` (`MCWsClient`) | `protocomm/src/main/WsClient.ts` with `RpcClient.ts` | `WsClient_*.cfg`, `WsClientProofs` |
| `WsClientProofs` | - | TLAPS |
| `RpcServer` | `protocomm/src/main/RpcHandler.ts` with `protocomm-ws/src/main/WsProtocolHandler.ts` | `Units`, `Rpc`, `RpcProofs` |
| `Rpc` (`MCRpc`) | `WsClient` and `RpcServer` over a network of sockets | `Rpc_end_to_end.cfg`, `RpcProofs` |
| `RpcProofs` | - | TLAPS |
| `HttpRpc` | `protocomm/src/main/helpers/http-client.ts` with `protocomm-http/src/main/HttpProtocolHandler.ts` | `Units`, `UnitsProofs` |
| `Relay` | what a relay promises (abstract) | refinement from `ProxyServer` and `WsProxy` |
| `ConnectRetry` | `BaseProxy.sslConnectWithRetry`, `sslDirectConnect`, `sslProxyConnect`, `createSslConnection`, `ConnectRetryState` | `ConnectRetry_idle.cfg`, `Relays`, `RelaysProofs` |
| `ProxyServer` | `BaseProxy.start`, `shutdown`, `onConnection`, `onConnect`, on top of `ConnectRetry` | `Relays`, `RelaysProofs` |
| `ProxyRequest` | `BaseProxy.onRequest` | `Relays`, `RelaysProofs` |
| `WsProxy` | `ws-proxy/src/main/WsProxy.ts`, `util/pipe.ts` | `WsProxy_early.cfg`, `Relays`, `RelaysProofs` |
| `Relays` | `ProxyServer`, `ProxyRequest`, `WsProxy`, one at a time | `Lifecycles`, `RelaysProofs` |
| `RelaysProofs` | - | TLAPS |
| `HttpServer` | `http-server/src/main/HttpServer.ts` | `HttpServer_tls.cfg`, `Lifecycles`, `HttpServerProofs` |
| `HttpRequest` | `HttpServer.handleRequest`, `HttpContext.ts`, `HttpChain.ts`, `helpers/http.ts`, both handlers of `http-server` | `Units`, `HttpRequestProofs` |
| `HttpServerProofs`, `HttpRequestProofs` | - | TLAPS |
| `Router` | `http-router`, `pathmatcher` | `Units`, `RouterProofs` |
| `CertStore` | `http-proxy/src/main/SslCertStore.ts` | `Units`, `UnitsProofs` |
| `StartOrder` (`MCStartOrder`) | `Ensemble.resolveStartOrder` | `StartOrder_config_order.cfg`, `Units`, `UnitsProofs` |
| `Env` | `stack-backend/src/main/utils/env.ts`, `BaseApp.start` | `Units`, `UnitsProofs` |
| `Methodology` | `methodology/src/main/Methodology.ts` | `Methodology_stale.cfg`, `Units`, `UnitsProofs` |
| `Units` (`MCUnits`) | the modules above that say so, one at a time | `Units_one_kind.cfg` |
| `RouterProofs`, `UnitsProofs` | - | TLAPS |
| `Ensemble` | `ensemble/src/main/cli.ts`, `Ensemble.startAll/stopAll`, `ProcessFork.ts` | `Ensemble_reverse.cfg`, `Lifecycles`, `EnsembleProofs` |
| `EnsembleProofs` | - | TLAPS |
| `Lifecycles` | `Relays`, `HttpServer`, `Ensemble`, one at a time | `Lifecycles_one_kind.cfg` |

Definitions named after a function of the code stand for it; each action is one uninterrupted turn of the event loop.
Definitions marked `Mutant` are wrong variants of the definition that follows them: used in its place, they make the
property they are listed with fail.

### WsClient and RpcCalls

A `Conn` is one chain of connection attempts: a run of `makeConnection`, the socket it yields, and the `onClose` that
runs `makeConnection` again. `conn[c]` says where the chain stands, `ws` is the client's current socket, and
`connectPromise`, `reconnectEnabled`, `pendingRequests`, `id`, `awaitingCommands` are the fields of those names.
`call`, `wire` and `inFlight` are history: what the caller knows, what was sent, which socket may still answer.
The code lets several chains exist, so the model does. The hooks `shouldReconnectOnClose` and `shouldRetry` answer
nondeterministically from the sets `ReconnectAnswers` and `RetryAnswers`. `Overlap` says whether the application
calls `connect()` or `disconnect()` while an attempt is under way, `ListenerCalls` whether a `connected` listener
calls the server. Not modelled: a `connected` listener that throws, a `disconnected` listener that calls `connect()`.

`RpcCalls` has only `call` and `wire`: a call is issued, transmitted, answered or aborted. `WsClient` implements it
with the identity on those variables (`CallsImplemented`).

### RpcServer and Rpc

A `Socket` is one connection with its `WsProtocolHandler` and `RpcHandler`. `running` holds the requests whose method has
been called and has not ended; `busListeners` and `implListeners` are the connections listening to the event bus and to
the events of the protocol implementation; `received`, `executed` and `emitted` are history. `processMessage` is two
actions, before and after its await: `Undecodable`, `NotRun` or `Run`, and `MethodEnds`, which may come after `Closed`. A
method may end in what cannot be told: it rejects with null or undefined, or with details that do not go into JSON, so the
catch block throws in its turn and nothing is sent; `untold` records those, and `OneResponse` counts the others. Their
caller waits for as long as the connection is open. `send` drops what is for a socket that is not open. An event whose
data does not fit its schema is left out.

`Rpc` extends both. `peer[c]` is the server's end of the socket of chain `c`, `toServer[s]` the requests on the way,
`sent[s]` beyond the first `read[s]` the messages on the way back. Every action of the client is the action of
`WsClient` with its effect on the network: what `wire` grew by (`NewlySent`) enters `toServer`. `WsClient` alone lets a
response to anything in flight arrive; in `Rpc` it is the next message of the socket. Each side learns of the close in
its own time, and what is on the way then may be read or lost. A socket is accepted when the client sees it open. Socket
numbers are used once, in order, so connections are bounded by `Socket`. Events, which the client does not keep, are
left to `RpcServer` alone, in `Units`.

### ConnectRetry

`attempt[i]` follows `tryConnect(i)` from its timer to its end, with a state of its own between the event that settles
the attempt and the resumption after the `await`; `sock[i]` is its socket; the other variables are the fields of
`ConnectRetryState`, the promise, and the tracked connection. A direct attempt whose socket is destroyed stays silent,
as in the code: only 'error', 'connect' and 'timeout' are listened to. An established socket is taken to survive the gap
before the await resumes. `upstream` is what `matchRoute` returned: it chooses between the two kinds of attempts.

### Relay, ProxyServer, ProxyRequest, WsProxy

`Relay` has two ends: a client arrives, the onward connection is made for it at most once, the ends leave in any order,
and then neither stays behind. The CONNECT tunnel (`TunnelIsRelay`) and the WebSocket upgrade (`WsIsRelay`) implement
it, each with its safety and its liveness part.

`ProxyServer` extends `ConnectRetry` with the server around it. A `Gen` is one `http.Server` of `start()`; `server` is
the field, `shutdowns` the servers whose 'close' somebody awaits; `clientSocket`, `owner`, `onConnect`, `reply` follow
one CONNECT. `Restarts` says whether an application calls `start()` while a `shutdown()` is pending: then the 'close'
of the old server resets the field of the new one, and `RunningServerKnown` fails. `crashed` is the end of the process
by an 'error' without a listener, which is what node does with a client socket that fails while `onConnect` awaits.
Half-closed tunnels and bytes that come with the CONNECT request, which the code drops, are not followed.

`ProxyRequest` is one plain request with its two pipelines, which learn of a gone end in steps of their own; `heads` is
history. `WsProxy` is one upgrade: `frames` are chunks the client has sent, `buffered` those its socket has not emitted,
`written` what the outbound socket was given. The bytes that came with the request are written by a microtask, after the
sockets are piped (`HeadWritten`); that nothing overtakes them is due to `Turn`: an event waits for the microtasks of the
one before. `endEmitted` is whether 'end' was emitted, which node does for a paused socket too, once the data before it
was read. `EarlyEnd` lets the client end while `processConnection` is pending. Header names are not modelled.

### HttpServer

A `Gen` is one `http.Server`; `server` is the field. `conn[s]` and `pending[s]` are what really happens on a
connection, `requestsPerSocket` is what the code believes, under two keys per connection, the raw socket and the TLS
socket, which are the same without TLS. `stop[k]`, `target[k]`, `timer[k]` are one call of `stop()`: its place among
the awaits, the server it closes, and its timeout; `overlapped` is history. From Node come: `close()` stops accepting
at once and answers on the 'close' event, a server that does not listen answers with an error on its next 'close',
https servers emit 'connection' with the raw socket. The shutdown delay is taken to outlast the time `listen()` needs.
A no-op call of `start()` or `stop()` changes nothing and is not an action.

### HttpRequest and Router

`HttpRequest` follows one request through the chain. `read[r]` and `got[r]` are the calls of `readRequestBody` and what
each has collected, `bodyRead` the memo; the application may read several times at once and then end in any way, whether
its reads failed or not: return, throw anything (`Error` distinguishes the statuses that the code treats differently),
answer by itself. The code does not serve reads that overlap, nor one after a failed read: `BodyWhole` says for those what
they get, chunks in order that nobody else has. A "crashed" request is an exception or an 'error' that nothing catches.
`errorHandler` says whether an `HttpErrorHandler` is first in the chain. Requests without a body and a handler that calls
`next()` twice are left out.

`Router` has `routers`, the route lists of two router classes, and runs one request. Paths and patterns are sequences
of characters; a pattern's parameters are of one segment (`Single`) or several (`Wild`). `Ways` and `Greediest` are what
the regular expression does; of two parameters with one name, such as two `*`, the last stays in `params` (`IsLast`). The
property `RouteFound` compares this with `Means`, which fills a pattern instead of matching it, and with the order that
the routes of one class must run in.

### HttpRpc, CertStore, Env, Methodology

`HttpRpc` is one call: the client's promise, the handler's progress, `hooks` the reports to `onMethod`, `response` what
was sent. The hook hears of a result when it is decoded (`decodeResult`), before it is sent (`sendResult`), which may turn
it into a 500. What a method throws is presented with any status from 100 on, one of success too. A gateway may answer
anything; the connection may break before the response (`FetchFails`) or in its body (`BodyFails`).

`CertStore` counts hours; `cache` is ordered as lru-cache orders its entries: a hit moves its entry to the end (`Without`,
then append). `altNames` is what the store puts into a certificate, `Matches` what a TLS client accepts, which is less: no
wildcard directly under a single label, no DNS name for an address. `CertificateServes` names the two requests that
therefore get a certificate which clients refuse: any for an address, and one for "b.a" while "a" is cached.

`Env` has two keys, NODE_ENV and one other; every combination of three files (each of which may be missing or there and not
to be read), a shell environment and the caller is tried, and `Effective` states the outcome from the outside.

`Methodology` has AGENTS.md as a sequence of tokens and `sync` as the next step of `sync()`, each of which may fail;
`skill` and `claudeSkill` may hold a partial copy. `SyncConverges` is what a `sync()` that completes leaves; a skill that
was copied for want of a link is no part of it, because nothing looks into one that exists (`NothingStale`, finding 7).

`Units`, `Relays` and `Lifecycles` put modules next to one another that share no state. The first step of a part shuts the
others out, so the state spaces add up: this is a way to run them together, not a claim about their interaction.

### StartOrder and Ensemble

`StartOrder` walks the dependencies as the code does, one call of `visit` or one turn of a loop per step, after
`Configure` chose any configuration: `path` is the stack of the calls (the set `visiting`), `turn[a]` the place of app `a`
in its own loop, and `order` holds what is in `visited`. The README of the package says that apps without dependencies
start in config order; the code lets one that an earlier app needs go first (`FreeAppsInConfigOrder`, finding 6), so
`ConfigOrderKept`, a part of `OrderCorrect`, states what holds: an app overtakes an earlier one only if an app at or
before that one needs it.

`Ensemble` numbers the apps by that order. `parent`, `next`, `handlers` are the main function; `stopAll[g]` and `grace[g]`
are the `stopAll` that signal `g` started and the wait of `ProcessFork.stop` it is in; `process` and `exitHook` are the
fields and hooks of the forks; `child[i]` and `sent[i]` the child process. Children may exit, ignore SIGTERM, and open
their ports, at any time. A start fails in four ways: the config is not resolved (`Resolve`), ports or `fork()` throw
(`StartThrows`), the ports do not open (`PortTimeout`), the spawn fails (`SpawnError`). The last comes as an 'error' event
on the next tick, when the promises that are resolved have run: the apps that follow without a wait have been forked by
then, and the handlers may be installed; no timer, connection or signal comes before it (`SpawnFailed`). `WhoIsTold` says
which children the command tells to go: a complete shutdown all of them, a failed start all but the one whose ports were
awaited, which has no 'exit' hook yet, a signal without a handler none beyond those that `stopAll` came to. Signals that a
terminal sends to the whole process group, and ports opened by foreign processes, are not modelled.

## Runs

| run | shows | distinct states |
|---|---|---|
| `wsclient_any_use` | bookkeeping, no starving queue, refinement of `RpcCalls`, for any use | 28k |
| `wsclient_disciplined` | without overlap: call order, no stranded call; queued calls leave, calls in flight settle, the connection returns | 7.5k |
| `wsclient_overlap` | *violation*: a call stranded on a socket that is not current | |
| `rpc_end_to_end` | end to end: genuine answers, at most one execution, every transmitted call settled | 263k |
| `lifecycles` | CONNECT race, tunnel, upgrade and plain request: one winner and no loser left, one reply, `Relay` implemented, honest responses, ordered upgrade stream, the proxy knows its server. HTTP server: exact counts, no leak, graceful end, no lost server, `stop()` settles, later servers left alone. Ensemble: ordered start and stop, who is told at the end, both ends reached | 61k |
| `connectretry_idle` | *violation*: connectTimeout ends an idle established tunnel | |
| `wsproxy_early` | *violation*: an outbound connection for a client that has left | |
| `units` | responses and events of the RPC server; honest RPC calls over HTTP; one answer, hidden internals, whole bodies; the right routes; certificates that serve; the start order; the environment; the methodology files | 614k |
| `httpserver_tls` | *violation*: with TLS shutdown ends sockets in the middle of a request | |
| `ensemble_reverse` | *violation*: SIGINT and SIGTERM run two shutdowns at once | |
| `order_config` | *violation*: an app without dependencies overtakes an earlier one | |
| `methodology_stale` | *violation*: a `sync()` that completes leaves a stale copy of the skill | |

Bounds. Two chains are enough for one to overtake another, and three calls for one in flight, one queued and one new. For
the server, two connections with two requests and two events give two methods at once on one connection, one on each, and
an event on either side of a close; end to end, two sockets are one reconnection, which is what a repeated execution
needs, and two calls one in flight and one queued or new. There the hooks always agree to reconnect and retry, and a
client that has used both sockets keeps trying. Three attempts give a winner, a loser and a failure. Two sockets with up
to two pipelined requests, two servers and two `stop()` calls give every pair of roles (idle and busy, old and new, first
and second). Three apps give a chain, a diamond-free fork and a cycle through two apps, and a middle app that stops
between two others; app 2 awaits ports, apps 1 and 3 do not, so a spawn that fails may be followed by a fork or by the end
of the start, and a wait may come after an app that has its hook and before one that has none. Two servers give a restart,
one CONNECT with three attempts every order of the race, the client's end and a shutdown; two chunks after an upgrade one
that waits and one that comes later. A body of three chunks read up to three times exceeds the limit of two, is shared by
overlapping reads and read again after a failure; paths of four characters reach a wildcard over two segments, seven
routes on up to three places of two classes a guard before, after and beside an endpoint. Two cache entries for four names
(a domain, two levels below it, an address) over five hours, with a life of two, give an eviction, an expiry and a hit for
the parent domain. Three tokens in AGENTS.md give both marks in either order around a text, one upgrade a stale block.
Chains are interchangeable: symmetry is used in `wsclient_any_use`, where no liveness property is checked. `CHECK_DEADLOCK
FALSE` stands where the system may stop: a request or a race that is over, connections and servers that are used up, an
ensemble that has exited.

Fairness. Timers fire, and the runtime delivers events that are due: weak fairness on the waits of `WsClient`, on timers
and resumptions of `ConnectRetry` (`connectTimeout` bounds each attempt), on `DelayOver`, `Timeout`, `ServerClosed` and
the close of a destroyed socket in `HttpServer`. In `Ensemble`, on the steps of the start together (one of them is taken:
the next fork or its failure, the ports or their timeout, the error of a spawn), and on those of each shutdown; reading
the config need not end. In the proxies microtasks run, `authenticate` and `processConnection` end, pipelines and sockets
learn that their peer is gone, and a client that was rejected and sent a FIN ends its side. The one assumption about the
world is strong fairness of `Opened` in `wsclient_disciplined`: attempts do not fail for ever. No client is assumed to
close, no request to be served, no child to exit. `RpcFairSpec` assumes that methods end, that requests and messages
arrive while both ends exist, and that a socket which leaves OPEN at the server closes at the client; not that the client
connects again.

## Proofs

`WsClientProofs`, for any number of chains and calls and any hooks, from the assumptions on the constants alone:
`TypeCorrect`; `Invariance` of `IInv`, from which `Accounted`, `AtMostOnce`, `InCallOrder`, `Drained` and
`QueueSurvives` follow; `ClientImplementsCalls`, the refinement of `RpcCalls`; and `NeverStranded` under the assumption
that use does not overlap. The safety properties are not inductive alone. `IInv` adds that ids above the last one occur
nowhere (so a new request cannot repeat one), that what is in flight was sent (so an answer settles a transmitted
call), and takes the queue together with the wire as one line: a flush moves a prefix of that line from one side to the
other and cannot repeat or reorder it. `QueueDrained` is part of the argument, because a call sent at once keeps its
place only if nothing is queued. `NeverStranded` adds which chains are alive while there is or is not a socket.

`RpcProofs`, for any number of chains, sockets and calls: `RpcInvariance` of `RInv` together with `IInv`. `RInv` gives
every transmitted id one place (`OnePlace`: on its way to one socket or received on one), which is inductive because
what a step of the client transmits was never on the wire before (`NewlySentFresh`, from the refinement of `RpcCalls`);
so a method runs once (`AtMostOneExecution`), and a response, sent once the request is finished, stays true
(`ResponsesFinal`, hence `GenuineAnswers`). `RpcImplementsClient` shows that with
the real server the client is still `WsClient`: the responses `Rpc` delivers are among those `WsClient` allows, so all its
theorems carry over, and the whole implements `RpcCalls` (`RpcImplementsCalls`).

The same module proves the server, for any connections, requests and events. `ServerAnswersOnce`: the responses to a
request are counted by the places they stand at in what was sent, and there are none while it runs or when its end cannot
be told, one on an open connection once it has ended otherwise. `EventsReachEveryOpen`: the events a connection has been
sent are, place by place, those it accepts of what was emitted, whichever connections closed in between; `busListeners` is
what makes it inductive, a connection that listens being open. `RpcImplementsServer` shows the server in the composition
to be that server, so `AnsweredOnceEndToEnd` follows.

`RelaysProofs` begins with the race of `ConnectRetry`, for any number of retries: `Invariance` of `IInv`, which relates
the state of each attempt with its socket, its tracking and the end of the race; `Race` (one winner, untouched),
`LosersDestroyed` (every other socket, whenever it connected) and `Rejection` (only after every attempt failed, with the
cardinality argument that makes the counter exact).

The relays follow, for any number of attempts, servers, restarts and chunks. `ProxyImplementsRace`: a step of
`ProxyServer` is a step of `ConnectRetry` or changes none of its variables, so what is proved of the race holds in the
proxy (`RaceInProxy`). `ProxyInvariance` of `PInv`, in parts: `Phase` says at each place of `onConnect` what the client
socket, the race and the reply may be, `Fields` which servers the field, the pending shutdowns and the sockets refer to.
`OneReply` and `TunnelRelays` (the safety part of `Relay`) follow from `Phase`; `ServerKnown` assumes `~Restarts`, without
which TLC shows it false. `WsInvariance` is that of `Stream` (what was written and what the client's socket holds are
together what the client has sent, behind the forwarded request, with the place of the head left open while its microtask
is queued, which is before the first event: `Turn`) and `Ends` (which end may be there at which time): `StreamKept` and
`UpgradeRelays` follow. `ResponseHonest` relates what the client has of a plain request to how far its two pipelines are.
`RelaysAreEach` lifts all of it to `Relays`.

`HttpRequestProofs`, for any requests, reads, limits and bodies. `AnsweredOnce` and `InternalsKept` rest on one
invariant of what has been sent at each place of the chain; `BodyReadWhole` on how what the reads have collected
relates to what the request has left: every chunk taken is with one read, or with the reads that share the memo, and a read
that runs alone, none having failed, has all that was taken.

`HttpServerProofs`, for any number of sockets, servers and `stop()` calls. `ServerInvariance` (types, one known server, no
open connection without its server, `stopping` while a server closes) gives `KnownServer`. Under `~Tls`, `MapExact` (the
Map agrees with the requests really served, and holds nothing under the second key) is inductive together with
`IdleSocketsEnded`: `Counted`, `IdleEnded` and `ServedFirst` (which is false with TLS, finding 3). `Counted` needs no
assumption, as `CountsPending` claims nothing with TLS. `OwnOnly` and `Confined` (the action property `ShutdownConfined`):
while no two calls of `stop()` overlap, one at most is between its awaits and its server is the one the field holds
(`OneCall`), and a server is `stopping` or closing because of that call (`Cause`); so a timeout, however late, finds no
sockets but those of its own server.

`EnsembleProofs`, for any number of apps. `StartInvariance`: the apps below `next` were forked, those above were not;
those with ports are ready or gone, and one that failed to spawn is followed by apps without a wait only; every forked app
has its 'exit' hook, but for the one whose ports are awaited. Hence `Ready` and `FailedStartTells` (`FailureTerminates`,
with exactly that one left untold). Under `OneSignal` (finding 4 needs two) a shutdown comes down to one app at a time:
the apps above are gone or were killed, those below were not signalled; hence `StopsInReverse` and `ToldAtTheEnd`
(`WhoIsTold`).

`RouterProofs`, for any routes, routers, methods and paths: `RoutesFound`. Its first half is about matching alone. A way
that `Ways` finds is a walk through ends in the path between which each token matches (`WaysWalk`), and the pieces of a
filled pattern have such ends (`EndsOfPieces`, `PiecesOfEnds`), so a pattern means a path exactly when it can be matched
(`MeansWay`); the choice of `Greediest` exists (`GreediestIn`, the greatest first end, then the greatest second one, and
so on), and the parameters taken from it fill the pattern to the path (`MatchPath`, `MatchedParams`). The second half is
an invariant of one request (`RouterInvariance`): what has run, followed by those of the routes to come that serve the
request, is what is to be served. What a recursive function has in each of its values follows from the least number at
which it would fail (`Least`, `Climb`), and that there is such a function from `Recursion`; neither takes induction from
the library.

`UnitsProofs`, for any values of the constants of the modules in `Units`. `CallHonest` says at each place of an HTTP call
what the handler has run, sent and reported. `CertificatesServe`: the cache never holds two entries for a name, nor more
than its bound, what is presented was fresh when it was and was issued for the hostname or its parent domain, and a client
accepts it by one of its names, except in the two cases named above. `OrderIsCorrect`: what a call has looped over is in
the order or is the call it waits for (`LoopedOver`), each app of the stack is needed by those under it (`Stacked`), what
an app of the order depends on stands before it (`Placed`), and every app is in the order for the sake of one of the
config list that was its turn (`ForARoot`); so a resolved order has each app once, after what it depends on and in config
order where it is free, and what is thrown names a real cycle or a missing app. `SyncAlwaysConverges`: what a step of
`sync()` has left, from any files, after failures, upgrades and edits. `EnvironmentAsSaid`: the merge that the code does
file by file gives every key the value of the first source that sets it. `UnitsAreEach` lifts each to `Units`. Where the
argument needs a first or a last element, it takes it from a least number (`Least`), which the library's well-foundedness
of finite sets gives.

The type invariants of `WsClient`, `Rpc` (with that of `RpcServer`), `ConnectRetry` and `ProxyServer` are part of what is
proved, so no run repeats them.

Only model-checked: everything under fairness (`QueuedLeaves`, `LossHandled`, `CallSettles`, `ForwardReleased`,
`StopSettles`, `BothEnd`, the liveness part of the relays), which the prover does not reach. Every invariant that a run
checks is proved.

## Findings

Each is shown by the run named; `PROJECT.json` quotes the text it contradicts.

1. Two connection loops can run at once, and the close of the socket that lost strands the calls sent on it
   (`wsclient_overlap`).
2. The connect timeout of a direct tunnel stays armed as an idle timeout (`connectretry_idle`).
3. With TLS the pending requests are counted under another socket than the one that shutdown ends
   (`httpserver_tls`).
4. A second kind of signal during the shutdown of the ensemble command breaks the reverse stop order
   (`ensemble_reverse`); the shutdown that ends first also exits the parent while the other still owes a SIGKILL
   (`Escalates` fails in the same instance).
5. A client that ends its side of an upgrade while `processConnection` is pending still gets an outbound connection, which
   its end does not close (`wsproxy_early`).
6. An app without dependencies starts before one that comes earlier in the config and has none either, when something
   earlier needs it (`order_config`).
7. A skill that was copied because links cannot be made is never refreshed: `sync()` returns when it exists, stale or cut
   short, and `check()` does not look into it (`methodology_stale`).

## Not modelled

- `RoutingProxy` (a list of regular expressions tried in order) and `SslBumpProxy.onConnect`, whose parts are the tunnel
  above and two TLS handshakes of which src/ sees only the outcome; contents of certificates.
- `ProcessFork` used through the API: restarts of an app and concurrent `start()` and `stop()` of the same one. The
  command, which is modelled, makes neither.
- `BaseApp.run` and `shutdown`, `ProcessSignals`: one call each of the application's own `start()` and `stop()`.
- Listeners that throw (of `connected`, `disconnected`, `onMethod`, of protocol events), the wrap of the call id.
- `pointer`, metrics, logger, JWT, errors, decorators, lint rules, the Vue shell: no state, or none that two steps share.
- Header, path and body formatting, and statistics, everywhere.

## Next

`ProcessFork` through the API; a `connected` listener that throws.
