# A verification of notnets_grpc

`notnets_grpc` carries unary gRPC calls over pairs of shared memory queues. A
client `Dial`s a server's address and gets a queue pair; the server accepts the
pair and gives it a goroutine of its own; `Invoke` writes a request into one
queue and reads the response from the other. This directory holds TLA+ models
of that program, the TLC runs that check them, and proofs that TLAPS checks.

The shared memory library itself (`libnotnets`) is a git submodule and not part
of the sources. It is modelled from how the Go code uses it, and what is assumed
of it is listed under *The library*.

## 1. The system

| Component | State | Operations | Talks to |
|---|---|---|---|
| Client call, `client.go` `Invoke` | a reassembly buffer per call | write, read loop, parse, return | `NotnetsConn` |
| Request handling, `server.go` `serveRequests`, `handleMethod` | a reassembly buffer per connection | read loop, parse, look up, run the method, write | `NotnetsConn`, service methods |
| `NotnetsConn`, `notnets_transport.go` | `read_mu`, `write_mu`, the queue pair | `Read`, `Write`, `Close` | the binding |
| Binding, `rpc_ffi.go` | none (pointers into the library) | open, send, receive, close, register, accept, shutdown | `libnotnets` |
| Server life cycle, `server.go` `Listen`, `Serve`, `Stop` | `s.lis`, `s.stop`, `s.conns`, `tempDelay` | accept loop with backoff, a goroutine per connection | the binding, request handling |
| `Dial`, `client.go` | `tempDelay` | open, retry | the binding |
| Transport stream, `internal/transport_stream.go` | headers, trailers, two "sent" flags under `mu` | set, send, get, finish | service methods, `handleMethod` |
| Metadata, `utils.go`, `client.go` | none | `toHeaders`, `asMetadata`, `setMetadata` | both ends of a call |
| Deadline codec, `utils.go`, `server.go` | none | `GRPC-Timeout` written and read | both ends of a call |
| Call options, `internal/call_options.go` | the addresses to fill in | collect, apply credentials | `Invoke` |
| Chained servers, `chain_tests/` | a channel shared by all connections of a server | a service method that `Invoke`s | two connections |

What is hard, and what correctness means there:

* **Client call and connection.** Several goroutines may be inside `Invoke` on
  one channel; the two mutexes cover single reads and writes, not calls. A call
  must return its own reply or an error, run its method at most once, return at
  all, and leave nothing behind for the next call.
* **Reassembly.** A message is over when a read does not fill the buffer. Sizes
  that are exact multiples of a buffer, a buffer that is not empty when the next
  message comes, and the `Reset` before the body is read are where it can fail.
* **Request handling.** `handleMethod` has six ways to return, one of them with a
  response written, and two ways to panic. Who waits for what after each?
* **Metadata.** Names that end in `-bin`, are reserved, or are spelled like a
  trailer's go through two conversions each way; a method may set headers from
  goroutines that outlive it, while `handleMethod` ranges over the very map they
  write to. What was set must arrive, on the right side, and in one piece.
* **Deadlines.** Each hop turns a time into text and back, in 64 bits. A deadline
  may not grow, nor shrink by more than the rounding, however many hops.
* **Chained servers.** A method runs in the goroutine of its connection and calls
  another server over a channel that all connections share. Clients die and leave
  their goodbye under way; programs start in any order.
* **Life cycle.** `Accept` returns pairs it has returned before; `Stop` sets a
  flag that `Serve` reads without a lock; clients may dial before there is a
  server. No pair may get two goroutines, every client must be served, and
  `Stop` must end `Serve` soon.

`PROJECT.json` lists the components with their status and the hazards with the
lines where they bite.

## 2. Modules

| Module | Models |
|---|---|
| `UnaryRpc` | one connection: any number of goroutines inside `Invoke`, `serveRequests` with `handleMethod`, both queues |
| `UnaryCall` | the abstract specification: what a unary call promises its caller |
| `Serving` | a server and its clients: `Listen`, `Dial`, `Serve`, `Stop` |
| `Chain` | the programs of `chain_tests`: clients, a middle server whose method calls an end server over one shared `UnaryRpc` |
| `Metadata` | the conversions between metadata and headers, as operators |
| `CallMetadata` | the metadata of one call on its way there and back, with the transport stream of its method |
| `Deadline` | `GRPC-Timeout` written and read along a chain of servers, while the clock runs |
| `MCUnaryRpc`, `MCServing`, `MCChain`, `MCCallMetadata`, `MCDeadline` | model values, small sets and symmetry for TLC |
| `UnaryRpcProofs`, then `SharingProofs` on top of it | theorems about one connection, and about calls on it that overlap |
| `ServingProofs`, `DeadlineProofs` | theorems about `Serving` and `Deadline` |
| `ChainProofs`, then `GreetingProofs` on top of it | theorems about `Chain`: its channel, and the goodbyes that go through it |
| `MetadataProofs`, then `CallMetadataProofs` on top of it | theorems about the conversions, and about the metadata of a call |

### UnaryRpc

A message is a record that says whose call it is (`caller`, `n`), what becomes
of it (`body`) and its `size`. Its bytes are abstracted to a position: a buffer
holds the first `got` bytes of `msg`, or nothing, or bytes no message begins
with (`Torn`). That is what the loops tell apart.

| Variable | Code |
|---|---|
| `reqQ`, `reqOff`, `respQ`, `respOff` | the two shared memory queues and how far their heads have been read |
| `spc`, `sbuf`, `reply` | where `serveRequests` is, `variable_request_buffer`, the response to be written |
| `cpc`, `cbuf` | where each `Invoke` is, with `read_mu` (`reading` = holds it), `variable_respnse_buffer` |
| `calls`, `ret`, `ctxDone` | calls a goroutine has sent, what the last returned, whether its context has ended |
| `up` | the server process: an unrecovered panic ends it |
| `executed`, `lost` | history: methods run per caller; calls `handleMethod` left without a response |

| Action | Code |
|---|---|
| `InvokeRefused` | `Invoke` returns before it writes (`client.go:139-156`) |
| `Invoke` | headers, serialization, `conn.Write`, empty read buffer (`client.go:143-172`) |
| `LockRead` | `read_mu.Lock()` (`notnets_transport.go:41`) |
| `ClientRead` | the read, the unlock, the append, the test for the end and, at the end, the rest of `Invoke` (`client.go:177-244`) |
| `CtxDone` | the context ends; the loop of `Invoke` does not look at it (`client.go:160-188`) |
| `ServerRead` | one turn of the loop (`server.go:310-328`) |
| `DropUnreadable` | the returns at `server.go:348, 403` |
| `PanicUnknown` | `sd.Methods` and `md.Handler` of nil (`server.go:390, 435`) |
| `RejectRequest` | the return at `server.go:495` |
| `RunHandler` | the service method, `Marshal`, the discarded error (`server.go:435-473`), after the `Reset` of `server.go:346` |
| `ServerWrite` | the response and `conn.Write` (`server.go:498-538`) |

`write_mu` needs no variable: `Write` is one action, enabled when there is room,
and nobody can tell who of several waiters holds the lock. `read_mu` does: who
holds it while the queue is empty gets the next bytes. The read, the unlock and
the append are one action, because between the unlock and the end of the append
a goroutine touches nothing that another one sees.

`Kinds` stands for what decides the way through `handleMethod`: the method
returns a reply (`ok`); it returns an error beside a nil reply of its type, as
generated code does (`herr`); the interceptor or the decoder returns an error
beside an untyped nil (`rejected`); the service or the method is not registered.
Two returns of `handleMethod` are not here. That of line 374, where the headers
cannot be converted, is in `CallMetadata`, and shown not to be taken; that of
line 408, where `Close` of a body fails that was just read to its end, is not a
path.

What `Invoke` returns is in `ret`: `reply` when it has read one response whole
(`setMetadata` and `Unmarshal`, `client.go:215` and `244`, may still refuse it,
which is `ret` of `CallMetadata`), `eof` when the body was cut, `corrupt` when
bytes of several responses are mixed. Such bytes give an error, unless they
happen to parse, and then a reply that nobody sent; neither is anyone's own.

### Serving

| Variable | Code |
|---|---|
| `listening` | the address is registered with the library and not shut down |
| `lis`, `stop`, `conns` | `s.lis` is set, `s.stop` and how far `Stop` is, `s.conns` |
| `loop`, `pair`, `delay` | where `Serve` is, `rawConn`, its `tempDelay` |
| `serving` | how many `serveRequests` goroutines read from a pair |
| `dial`, `cdelay` | where each `Dial` is and its `tempDelay` |
| `seen` | `lis.mu` has ordered the write of `s.stop` before the next read of it |
| `late` | history: goroutines started after `Stop` returned |

The actions follow `Serve` between two of its blocking points: the test of the
flag (`StopSeen`, `StopNotSeen`), `Accept` (`Accepts`, `AcceptsNone`), the
look-up and the start of the goroutine (`AlreadyServed`, `StartServing`), the
timer (`Wakes`). `Stop` is `StopFlags`, then `StopCloses` or `StopPanics`.
It reads `s.lis`, which `Serve` sets under `s.mu`, without that lock, and nothing
orders the two: until `Serve` has set it the read gives a nil interface, and
after that it may still. `s.stop` is read without a lock while another goroutine
writes it: a data race, so the read may return either value, until an `Accept`
has locked `lis.mu` after `Close` released it. From then on Go's memory model
makes the write visible: that is `seen`.

The goroutine started by `Serve` starts another one, which never returns; both
are `serving`. `RegisterService` and the options run before `Listen` and leave
nothing a property tells apart.

### Chain

`Chain` instantiates `UnaryRpc` for the middle server's one channel to the end
server, with a caller for each connection of the middle server, and adds what
`UnaryRpc` leaves to "the application": when a caller calls. A client's own
connection carries one call at a time, so the abstract `UnaryCall` may stand for
it (theorem `Refinement`); here it is the place of the call, in `client` and
`hello`.

| Variable | Code |
|---|---|
| `end`, `middle` | the two server programs: `middle` is `dialing` inside `Dial` (`server_middle/main.go:14`) |
| `client`, `hello` | each client's program, and where its call is in the middle server |
| `greeting` | which goodbye the reply of its last call was made from |
| `shared` | history: another method was inside the channel during that call |

| Action | Code |
|---|---|
| `StartEnd` | `server_end/main.go` |
| `StartMiddle`, `MiddleDialReturns` | `server_middle/main.go`: `Dial` retries until the end server listens, then `Listen` and `Serve` |
| `StartClient`, `ClientDialReturns` | `Dial` of a client |
| `SayHello`, `ClientReturns` | a client's call and its return |
| `SayGoodbye` | `s.HelloClient.SayGoodbye` (`test_chain_service.go:21`): `Invoke` on the shared channel |
| `BackReads`, `BackServes` | the steps of `UnaryRpc` on that channel |
| `FinishHello` | the method returns; an error of the goodbye is dropped by `handleMethod` and leaves a greeting without one |
| `ClientDies` | a client's process ends at any moment; its method goes on |

`Kinds` is the wiring: `{"ok"}` when the end server has the service the middle
server calls, `{"noservice"}` as the programs are shipped. The method's context
has no outgoing metadata and no credentials, so `InvokeRefused` cannot happen;
`CtxDone` is left out because nothing in `Invoke` looks at it. That `Dial` gets
through to a server that listens is `EveryClientServed` of `Serving`.

### Metadata and CallMetadata

A name is the number of trailer prefixes that can be taken off its front with
something left, and a base; a base may be a `-bin` name or reserved. (A name that
is the bare prefix is a base: `setMetadata` leaves it among the headers,
`client.go:280`.) A value is who gave it, whether there is space
around it and whether it is in base64. That is all the conversions look at, but
for upper and lower case, which they fold.

| Variable | Code |
|---|---|
| `hdrs`, `tlrs`, `hdrsSent` | the fields of `UnaryServerTransportStream`; `tlrsSent` is set by `Finish` only, which nothing calls |
| `wire` | `h` of `Invoke`, then `t.Header` of `handleMethod`, then what is read of them |
| `phase` | how far the call is, from `Invoke` to its return |
| `ranging`, `raced` | the map `toHeaders` ranges over as it was at first, and whether it was written to meanwhile |
| `addr`, `ret` | the addresses of `grpc.Header` and `grpc.Trailer`, and what `Invoke` returned |
| `outMD`, `inMD`, `atReturn` | history: outgoing and incoming metadata, the stream when the method returned |

`toHeaders(sts.GetHeaders(), ...)` is two actions, `GetHeaders` and
`HeadersConverted`, because the mutex is released between them: a goroutine in
`Late` may call a setter there. Writing to a map that is ranged over is undefined.
The model lets the process end (`RaceDetected`), or lets the values of any name
written to be those of any moment or run past the end of the array (`Found`).
What holds in spite of that is `SentHeadersAreFinal`, and the rest holds in every
run without a race. A header that is set after its map was collected is accepted
and never sent, although `transport_stream.go:39-40` says that `SetHeader` adds
to what "will be sent to the client": `ResponseArrives` promises a beginning of
what late goroutines added, no more.

Of `net/http`, which is not part of the sources, `OnWire` assumes that the white
space around a value is lost; `-bin` values keep theirs, being in base64. Names
and values are those that a header can hold and that `net/http` leaves to the
program, and the properties and theorems are about these. `host` and all but one
value of `user-agent` it keeps for itself, names that are no field names it does
not write, a newline in a value it makes a space, and other control bytes make
`ReadRequest` fail (`server.go:345-348`): a caller who puts such bytes into its
metadata has its request dropped.

### Deadline

Time is a number of nanoseconds, of which a millisecond has `Ms`; `Half` is
2^63, and both are scaled down. `Call` makes the caller's context,
`HeadersFromContext` and `ContextFromHeaders` are the two functions of those
names, `Tick` is the clock, and a method may hand its context on `MaxHops` times
as `SayHello` of the chain does. `Timeout` multiplies as Go does, and wraps
(only what a caller has written itself can make it, `ExpiredByCallerOnly`; what
`headersFromContext` writes cannot, `TypeOK`). A
caller may write the header itself (`given`), with any number and unit; its own
deadline, if it has one, replaces it.

### The library

Assumed of `libnotnets`, and of nothing else:

* A queue is bounded and first in, first out; a send waits for room; a message
  is sent whole.
* A receive with a buffer of n bytes waits for a message, takes at most n bytes
  of the head message, never crosses into the next one, and returns how many.
* `EndMark`: whether a message that fills the reader's last buffer exactly is
  ended by one more receive, of no bytes. The code depends on it
  (`server.go:320`, `client.go:189`) and nothing in the sources says, so it is a
  constant. The theorems are for both values; `chain` is checked with `FALSE`,
  without exact multiples, `serial` and `sharing` with `TRUE` and with them. With
  `FALSE`, an exact multiple has no end and its reader runs on into the next
  message, or waits; of that the theorems `WholeRequests` and `QuietWhenIdle`
  say what still holds.
* An open fails while the address is not registered, and an accept may return a
  pair it has returned before. For liveness only: an accept that is called again
  and again does not keep a client's new pair back for ever.

## 3. Runs

"Passing" runs and the properties they check:

| Run | Bounds | Shows |
|---|---|---|
| `serial` | 2 callers, 2 calls each, never two at once; all five kinds; requests of 2, 3, 6, 7 and responses of 1, 4, 7 bytes, buffers of 3 and 2, `bufio` 6 | `TypeOK`, `OwnReply`, `ExactlyOnce`, `AnsweredOrLost`, `ImplementsUnaryCall` |
| `sharing` | 2 callers at once, 2 calls each, one message per queue; one to three reads per message, exact multiples among them; deadlock checked | `QuietChannel`, `HandlesWholeRequests`, `OneTaker`, `RanOnce`, `AnsweredOrLost` |
| `chain` | 2 clients, 2 calls each, either may die; goodbyes of one and three reads, the latter over `bufio`'s buffer; no end mark | `TypeOK`, `ChannelLeftClean`, `OneGoodbyeEach`, `OwnGreeting`, `OneGreeting`, `EveryoneGreeted` |
| `call_metadata` | 1 call; plain, `-bin`, reserved and trailer-like names; the method and one late goroutine set 3 values | `TypeOK`, `MethodSeesMetadata`, `ResponseArrives`, `SentHeadersAreFinal`, `AddressesAgree` |
| `deadline` | 2 hops, 14 ticks, 4 ticks to a millisecond, a 7 bit integer; deadlines past, near and far; timeouts of every unit but two, negative, overflowing, unknown | `TypeOK`, `NotEarly`, `NotLate`, `ExpiredByCallerOnly` |
| `lifecycle` | 2 clients | `EveryClientServed`, `StopEndsServe` |
| `stop_race` | 3 clients, one more than may be taken on after `Stop` (two really are: `handleConnection` has the comment "Check if server has been shutdown" at `server.go:282` and no check) | `TypeOK`, `ServedOnce`, `FewLateStarts` |

Runs that TLC refutes, each against a sentence of the code:

| Run | What happens |
|---|---|
| `shared_channel` | two goroutines inside `Invoke`: one returns the other's reply. `notnets_transport.go:23-24` warns of it |
| `handler_error` | a method fails and its caller gets an empty reply and no error (`server.go:440-456`, "Error code must be sent back to client") |
| `unknown_service` | a name that is not registered ends the server process (`server.go:390`). The chain as shipped does this with its first call: `test_chain_grpc.pb.go:48` calls `/chaintests.TestService/SayGoodbye`, and `server_end/main.go:21` registers `test_hello_service.TestService`, as `chain_test.go:31` does |
| `long_request` | a request over `bufio`'s 4096 bytes is reassembled and then cut, because the buffer is `Reset` before the body is read (`server.go:346`). `Invoke` has the same `Reset` (`client.go:200`) and returns an unexpected EOF for a long response; that is the `eof` of `ret`, which `OwnReply` and `OwnGreeting` allow |
| `cancelled_call` | a context that ends does not end its call (`client.go:177`, against `utils.go:87`) |

**Why these bounds are enough.** A size matters only by how many reads it takes,
whether it fills the last one, and whether it is over `bufio`'s buffer: the
sizes of `serial` have one, two, three and four reads, both answers to the
second question and, with 7, the third. Two calls per caller let what is left of
one reach the next, of the same goroutine and of another. Two goroutines and
one message per queue make `Write` block with the server in its own `Write`.
Where there is a theorem below, it removes the bounds. In `chain`, one client's two calls can be before, during and after
another's, and the other may die in each of their stages. In `call_metadata`
three values are enough for one before the method's return, one between it and
the collection of the map, and one while it is ranged over, or for two of the
same name. In `deadline` two hops are enough for one hop's rounding to meet the
next one's, and the clock runs past every deadline that is not far.

`MaxCalls`, `MaxSets`, `MaxHops`, `MaxTime` and `MaxPre` are the bounds: the
first four stop actions, the last limits how many trailer prefixes a name has,
one more than an application's. No state constraint is used.

**Deadlock** is checked in `sharing`, where every call must come back. In the
other runs the system really may stop: a dropped request leaves its caller
waiting, a dead server does nothing, a stopped `Serve` is at its end, clients
die, the one call of `call_metadata` and of `deadline` is over.

**Fairness.** `UnaryRpc`: the server goroutine and the goroutine that holds
`read_mu` are scheduled (weak fairness); a goroutine that waits for `read_mu`
gets it when it is free again and again (strong fairness), which Go's mutex
guarantees by handing over to a waiter after 1 ms. Nobody has to call, and no
context has to end. `Chain`: the same, and a method that waits to write gets
`write_mu` in its turn (strong, the same mutex), methods return, and `Dial`'s
timer fires; nobody has to start a program or to call, so `EveryoneGreeted`
speaks of clients that have dialled once both servers are started. `Serving`: `Serve`, `Stop` and `Dial` run once called and
timers fire (weak); `Accept` does not withhold a new pair for ever (strong, the
assumption on the library above). Without it nothing could be shown: `Accept`
may return served pairs only.

## 4. Proofs

All theorems are for every value of the constants that satisfies the `ASSUME`s
of the modules: any finite set of goroutines, any sizes, buffers and capacities
of at least one, `EndMark` of either value, any set of clients, any names and
addresses, any number of goroutines that a method leaves behind, any length of a
millisecond and any integers that hold one.

| Theorem | Statement |
|---|---|
| `TypeCorrect` | `Spec => []TypeOK` |
| `WholeRequests` | `Spec => []HandlesWholeRequests` |
| `QuietWhenIdle` | `Spec => []QuietChannel` |
| `OwnReplies` | `Serial` implies `Spec => []OwnReply` |
| `ExecutedOnce` | `Serial` implies `Spec => []ExactlyOnce` |
| `Refinement` | `Serial` implies `Spec => ImplementsUnaryCall` |
| `NoReplyTwice` | `Spec => []OneTaker` |
| `MethodsRunOnce` | `Spec => []RanOnce` |
| `NeverServedTwice` | `Spec => []ServedOnce` |
| `StopIsPrompt` | `Spec => []FewLateStarts` |
| `ServingTypeCorrect` | `Spec => []TypeOK` of `Serving` |
| `ChainTypeCorrect` | `Spec => []TypeOK` of `Chain` |
| `LeftClean` | `Spec => []ChannelLeftClean` |
| `ChannelImplements` | `Spec => conn!Spec`: the shared channel is a `UnaryRpc` |
| `OneGoodbyeForEach` | `Spec => []OneGoodbyeEach` |
| `GreetedApart` | `Spec => []OneGreeting` |
| `GreetedWithOwn` | `Spec => []OwnGreeting` |
| `RequestReceived` | any metadata that headers can hold, written and read as a request, is what it was but for the reserved names |
| `HeadersReceived`, `TrailersReceived` | of any headers and trailers, written and read as a response, each address gets its own |
| `MetadataTypeCorrect` | `Spec => []TypeOK` of `CallMetadata` |
| `MetadataReachesMethod` | `Spec => []MethodSeesMetadata` |
| `ResponseReachesCaller` | `Spec => []ResponseArrives` |
| `SentHeadersStay` | `Spec => []SentHeadersAreFinal` |
| `AddressesSetTogether` | `Spec => []AddressesAgree` |
| `DeadlineTypeCorrect` | `Spec => []TypeOK` of `Deadline` |
| `NeverEarly`, `NeverLate` | `Spec => []NotEarly`, `Spec => []NotLate` |
| `ExpiredOnlyByCaller` | `Spec => []ExpiredByCallerOnly` |

**UnaryRpc.** `IInv` strengthens the type invariant with three facts. Offsets
stay within the head of their queue. `sbuf` is what `serveRequests` should have:
either a whole request, or the first `reqOff` bytes of the head of the queue,
which is why a buffer that is handed on is whole, with or without an end mark
(bytes of a following message are behind the whole one and dropped with it). And
a count: the messages in the queues, in the server and in the callers are no more
than the calls in flight, so that with no call in flight there is nothing left.
This is where the number of goroutines comes in, and needs the cardinality of
the set of callers that are not idle.

For calls that do not overlap, `SerialInv` says of the one caller inside
`Invoke` that it is in one of two stages: its request is on its way and its
method has not run, or its response is on its way and its method has. Everything
in the queues and the buffers then is its own. `OwnReply` and `ExactlyOnce` are
consequences, and each step of a stage is a step of `UnaryCall` or a stutter.

For calls that do overlap (`SharingProofs`), responses may go to the wrong
caller, so that nothing can be said of whose they are; but each is in one place.
`OnePlace` names the places of a call: the request queue, the server's buffer,
its reply, the response queue and the buffers and results of the callers. A
message whose first bytes have been read is in its reader's buffer and no longer
in its queue; with that, every step moves a call or drops it, and no two callers
can hold one reply (`OneTaker`). For `RanOnce`, `Unrun` says that there is a set
of calls whose method has not run, among them those on their way and those that
were dropped: a caller's calls less its calls in the set are what has been
executed for it. The set, the reply and the responses together are no more than
the callers that wait, so that it is empty when nobody does; a count of messages
alone would not do, because a dropped request is in no queue.

**Serving.** `ServedOnce` follows from `serving[c] = 1` exactly when `c` is in
`conns`. `FewLateStarts` needs the ways left to start late: none while `seen`
holds and `Serve` is not past the test, one from a pair in hand, and one more
from the `Accept` that makes `seen` true.

**Chain.** `ChainProofs` instantiates `UnaryRpcProofs` for the shared channel and
shows that every step of the programs, the death of a client included, is a step
of that channel or leaves it alone (`ChannelStep`). The invariant of the channel
therefore holds (`ChainInv`), with one fact added: a caller is inside the channel
only while its method runs. When no method does, `QuietChannel` gives
`ChannelLeftClean`.

`GreetingProofs` does the same with `SharingProofs`, and adds where greetings
come from: the last reply that the method's `Invoke` returned (`FromReply`).
`OneGreeting` and `OneGoodbyeEach` are then `OneTaker` and `RanOnce` of the
channel. `OwnGreeting` is about a method that had the channel to itself for its
call, though others shared it before and clients may have died in it. Its
invariant, `Alone`, is that the only call in the places of the channel is the
method's: true at its `Invoke`, because the channel was left clean, and kept up
to its return, because steps that are not an `Invoke` bring no call into it
(`NoCallSpreads`).

**CallMetadata.** `MetadataProofs` follows a value through the conversions of
both sides, for metadata of any size: what `toHeaders`, the wire, `asMetadata` and
`setMetadata` together make of a name's values is a function of the name and
these values (`RequestReceived`, `HeadersReceived`, `TrailersReceived`). The
model has no need of recursion there, so nothing rests on a bound.

In `CallMetadataProofs`, `Begins` orders maps by what they may grow into, and the
stream only grows: what the method left begins what handleMethod found, and
that begins what is there now (`StreamInv`). `WireInv` carries this on to the
response: unless a map was written to while it was ranged over, the response is
made of the headers of one such moment and the trailers of another. After a
`SendHeader` the two ends are equal, and so is what is between them, which is
`SentHeadersAreFinal`. `AddrInv` says that the addresses hold what they held or
what the response brings, all of them; that these can be told apart is a fact
about types: no value of an earlier call is in anything but the addresses.

**Deadline.** `IInv` says where the header comes from at each stage, and bounds
what the hops may add: `orig + transit` stays within half of the integers' range
of the last time anybody looked at it. So no product of a timeout that
`headersFromContext` wrote wraps (`DeadlineTypeCorrect`, `WrapFits`), and it is
read as what was written (`ReadBack`). `NotEarly` and `NotLate` are then
inductive, with `MillisBounds` for what one division cuts off. This uses the
assumption that a caller's own deadline is at most half of the range away, some
146 years, and that the range holds a millisecond. The bounds `MaxHops` and
`MaxTime` are constants of any size.

Every invariant of a passing run is a theorem above. Only
model-checked are liveness (`AnsweredOrLost`, `EveryClientServed`, `StopEndsServe`,
`EveryoneGreeted`), which the prover does not do under fairness, and the absence
of deadlock. What the runs of the second table refute is refuted for their
constants; the theorems are about what holds in spite of it.

## 5. Not modelled, and the plan

Not modelled:

* `NewStream` (a stub, so the streaming methods cannot be reached), `ShmMessage`
  and the unsafe conversions (unused), the wrapper `ServerTransportStream` and
  `Finish` (no callers), server options (assignments before anything runs),
  generated code, benchmarks, scripts, and the polling strategies of the library.
* `NotnetsConn.Close` and what follows it. `NotnetsChannel` has no `Close`, and
  the two tests that close a connection are skipped, so no program gets there.
  The deadline setters of `NotnetsConn` store times that nothing reads.
* `SetPeer`: the comment at `call_options.go:21-22` says that the peers "should
  all be set when the remote peer is known", and nothing calls it. `MaxRecv` and
  `MaxSend` are collected and not looked at.
* Failures inside the library: what an ignored result of `Write` would be, and
  whether a `ClientId` is given out again, is not in the sources.

Request and response bodies, logging and addresses are abstracted.

Left to do:

1. `AnsweredOrLost` and the other liveness properties rest on safety lemmas that
   could be proved, although the properties cannot: that a call which is neither
   answered nor lost has a step that brings it further.
2. That `Serving` implements an abstract server, of which a client is new,
   accepted or refused; it is checked only through its invariants.
