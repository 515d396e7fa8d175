# TLA+ models of tcpmux / toh

`toh` tunnels ordered, full-duplex byte streams ("virtual connections") over
plain HTTP/1.1 POSTs. These modules model the parts of `src/` that TLC can
check. They also record what the checks show.

## 1. Inventory

### Source files

| file | what it holds |
|---|---|
| `src/toh/read_conn.go` | `readConn`: the receive side shared by client and server connections |
| `src/unnamed/part_000` lines 149-420 | the current `ClientConn`: Dial, Write, schedSending, sendWriteBuf, send, respLoop, Close |
| `src/unnamed/part_000` lines 1-148 | a superseded `ClientConn` prototype (plaintext `Frame`, `feedFrames`); spec §9 calls it legacy |
| `src/toh/orch.go` | the process-wide orchestrator loop and `orchSendWriteBuf` |
| `src/toh/listen.go` | `Listener` (Close, Accept, Listen) and `Dialer` |
| `src/unnamed/part_001`, `src/test/http_test.go` | test harnesses (a proxy, an HTTP echo test against an older API) |

Several pieces of the repository are not under `src/`: the frame codec
(`frame`, `marshal`, `parseframe`), `ServerConn` and the listener's
`handler`, `feedframe`, `Dialer.start`, and the `sched` and `waitobject`
libraries. They are modelled from `spec.md` where the modelled code calls
them, and the map marks those definitions `spec_modelled`.

### Components, their state and operations

* **readConn** (`read_conn.go`). State:
  * `frames`, a channel of capacity 1024;
  * `counter`, the idx of the last frame delivered;
  * `buf`;
  * `futureframes` (map idx→frame) and `futureSize`;
  * the sticky `err` and `closed`;
  * `ready`, a wait object with a deadline.

  Operations:
  * `feedframes(body)`: parse frames and push the payload frames onto `frames`;
  * `feedError`;
  * `close`;
  * the goroutine `readLoopRearrange`, which reorders frames by idx into `buf`;
  * `Read`, which blocks on `ready`.

  There is one `readConn` in every ClientConn (tag 'c') and one in every ServerConn (tag 's').
* **ClientConn write side** (`part_000`). State: `write.buf`,
  `write.counter` (uint32), `survey.pendingSize` (the adaptive flush
  threshold, 1..1024), `sched` (a one-second tick), the mutex, and `respCh`
  (capacity 16). Operations:
  * `Write`: park while the buffer is over `MaxWriteBufferSize`, append, and flush once `pendingSize` is reached.
  * The tick callback resets `pendingSize` to 1 and calls `schedSending`.
  * `schedSending` closes a broken connection or submits it to the orchestrator.
  * `sendWriteBuf` holds the lock across the POST. It doubles `pendingSize`, then POSTs `{syncConnIdx}→{idx=counter+1, data=buf}`. On error it retries until `InactivePurge-1s`. On success it truncates the buffer, increments the counter and queues the reply body on `respCh`.
  * `Close` cancels the tick, closes the read side, closes `respCh` once and sends `optClosed`.
* **ClientConn read path**. Two `respLoop` goroutines drain `respCh`. Each
  reply body goes through `feedframes` under a 15 s force-close timer. A single
  frame delivered by the orchestrator goes through `feedframe`.
* **Orchestrator** (`orch.go`). A channel of capacity 256 and a loop. The loop
  gathers submissions for 50 ms. It hands connections that have buffered bytes
  to `go sendWriteBuf()`. It POSTs one `optPing` listing the idle ones through
  an arbitrary `lastconn`. It demultiplexes the reply by connIdx into each
  connection's `respCh`, and closes a connection on `optClosed`.
  `orchSendWriteBuf` falls back to a direct `sendWriteBuf` when the channel
  is full.
* **Listener** (`listen.go`). State: `conns`, `pendingConns` (capacity 1024)
  and `httpServeErr` (capacity 1). `Close` sends "accept on closed listener"
  on `httpServeErr` with a blocking send. `Accept` returns a pending conn or
  that error.
* **ServerConn and handler** (not under `src/`). The handler routes a POST by
  its leading `optSyncConnIdx` frame, feeds the payload to the ServerConn's
  `readConn`, and answers with frames drained from the ServerConn's write buffer.
* **Frame codec, Dialer, scheduled callback, wait object**: see §4.

### How they interact

* **Client → server.** Application `Write` puts bytes in `write.buf`. The tick
  or the size threshold submits the connection to the orchestrator. The
  orchestrator starts `sendWriteBuf`, which POSTs the frame. The server's
  handler feeds it into the ServerConn's `readConn`, whose rearrange goroutine
  appends it to `buf` for the server application's `Read`.
* **Server → client.** The frames ride on the reply bodies of direct POSTs and
  of orchestrator pings. The reply bodies reach `respCh` and the two
  `respLoop` workers. The workers feed the client `readConn`, and frames may
  arrive out of order there.
* **Shared state.** The read side's `closed` and `err` are read without a lock
  by `Write`, `schedSending`, `sendWriteBuf`, `feedframes`, the orchestrator
  and `respLoop`.

### What is hard

* **Goroutine interleavings.** Writers, the tick, orchestrator-spawned
  senders, two respLoop workers, the rearrange loop, server handlers, and the
  orchestrator's reply demux all run concurrently.
* **Carrier faults.** A POST can be dropped, answered late after the client's
  15 s timeout, or answered with the reply lost. `sendWriteBuf` then resends
  the same frame.
* **Ordering.** Frames are reordered by idx. A frame with idx 0 is the chain
  terminator, and `write.counter` is only 32 bits wide.
* **Close.** Close races with data in flight and with sends on closed channels.

### What makes each component correct

* **readConn**: delivers frames 1..counter in order with no gap or duplicate,
  drops stale frames and keeps going, reports its sticky error, and wakes
  parked readers on close.
* **ClientConn**: the server reads a prefix of what was written, and
  eventually all of it. The write buffer stays bounded.
* **Orchestrator**: it never sends on a closed `respCh`, and no frame is
  stranded.
* **Listener**: `Close` and `Accept` never block forever.

## 2. Plan

Modules, in order of importance (✔ = done):

1. ✔ `ReadConn`: the read side, with variables as functions over a set `Ends`
   of read sides so that other modules can compose it. `MCReadConn` checks it
   alone, with the respLoop workers as an environment that feeds frames 1..N
   in any order.
2. ✔ `Upload` (EXTENDS `ReadConn`): the client→server direction. It covers the
   write side, the tick, the orchestrator's hand-off, the faulty carrier, the
   server handler (spec-modelled) and the server's read side and reader.
   `MCUpload` holds the fault sets.
3. ✔ `Download` (EXTENDS `ReadConn`): the server→client direction. It covers
   the server write buffer drained into replies (spec-modelled), `respCh`
   with its two `respLoop` workers and the force-close timer, the
   orchestrator ping with its demux and `optClosed` handling, and
   `ClientConn.Close` closing `respCh`.
4. ✔ `Listener`: `Close`/`Accept` over `httpServeErr` (capacity 1).
5. ✔ Refinement: `ReadStream`, the abstract ordered stream a read side
   promises; `MCReadConn` checks `ReadConn` against it through
   `INSTANCE ReadStream WITH`.
6. ✔ `Orch`: several connections, of two endpoints, sharing the
   orchestrator: the full-channel fallback of `orchSendWriteBuf`, the 50 ms
   collection, the dispatch to direct sends or one ping through `lastconn`,
   and concurrent ping goroutines. It checks that no server frame is stranded
   while its connection is open (spec 9).
7. ✔ (as a variant of upload_delivery, see §4) Numeric edge: a narrow `IdxBits`. When `counter+1`
   wraps to 0, the frame is read as the chain terminator.
8. Considered, not done: a refinement of `Upload`'s server read side
   against `ReadStream`. With one writer `written` is a prefix of the
   chunks in issue order, so the mapping would be the one `MCReadConn`
   uses. In these instances the server side never closes, so the
   refinement would add only "readable bytes never shrink" to
   `StreamPrefix`. Every plausible bug in the code that breaks one also
   breaks the other, so `StreamPrefix` is kept alone.

## 3. Modules and how they map to the code

### ReadConn

Every variable is a function over `Ends`:
* `frames`: the channel;
* `counter`, `buf`;
* `future` (a function idx→frame, i.e. `futureframes`) and `futureSize`;
* `err`, `closed`;
* `loopOn`: the rearrange goroutine is still running;
* `ready`: an unconsumed Touch;
* `timedout`: the deadline has passed;
* `rd`, `rdRes`: the reader's phase and its last result;
* `got`: a history of what `Read` returned.

Actions:
* `Rearrange(e)` is one whole iteration of `readLoopRearrange`. It covers the
  connIdx check, the stale check (which **returns**, as the code does), the
  store, the drain loop, the overflow check and the Touch.
* `LoopExit(e)` is the closed-channel return.
* `ReadCall(e)` is one pass of `Read` from `READ:` to a return or to `Wait`.
* `ReadWake(e)` is the return from `Wait`.
* `Close`, `FeedError` and `DeadlinePasses` are the remaining operations.

`FeedFrameVals` is one iteration of `feedframes`' loop after the parse
(`read_conn.go:77-89`). It blocks while the channel is full, and a closed or
errored side refuses the frame. The codec's own checks are not modelled:
the parse failure, the un-synced counter test and `optSyncCtr`. In
`Download`, `BodyTimeout` stands for the one parse failure this code
provokes, a body closed by its timer.

`FeedErrorVals` sets `err`, touches `ready` and closes the side in one step.
So the short window in which a `Read` sees `err` set but `closed` not yet
set (`read_conn.go:166`) is not in the model. No property depends on it.

The wait object is modelled as a single pending-Touch token, so a Touch
without a waiter is not lost. This follows spec §4.2. The library is not under
`src/`.

Bytes are chunk identifiers: a frame's `data` is a sequence of chunks, and one
chunk counts as one byte of length.

### Upload

Client variables:
* `wbuf`, `wctr` (mod `2^IdxBits`), `pending`, `tick`;
* `wlock`, held by `sendWriteBuf` across the whole POST and retry loop;
* `wpc[w]`, `wchunk[w]`: each writer's phase and its chunk;
* `issued`, and the history `written` in append order.

Orchestrator variables: `orchQ` and `spawned`.

Carrier variables:
* `net`, the requests in flight, each `[f, try]`;
* `cur`, the attempt the sender waits on;
* `replied`, which says the server answered `cur`.

Write is split where the code drops the lock:
* `WriteCheck` runs the unlocked checks at `REWRITE`.
* `WriteAppend` takes the lock, reschedules the tick, appends, unlocks and
  runs the threshold test and `schedSending`. The code tests
  `len(c.write.buf)` after the unlock. The model uses the length right after
  this writer's append, which leaves out a sender or second writer changing
  the buffer in between.

`sendWriteBuf` is three actions:
* `SendStart`: lock, grow `pendingSize`, the error return, build the frame and POST it.
* `SendOk`: truncate the buffer, advance the counter, unlock.
* `SendFail`: one failed `c.send`, then either a retry of the same frame or
  `feedError` once `MaxTries` attempts are spent.

`MaxTries` stands for the `InactivePurge - 1s` deadline. `ServerHandle` is the
handler (spec-modelled) plus `feedframes` on the server's read side. A frame
with idx 0 is taken as the chain's terminator.

### ReadStream

The abstract read side: `rcvd` (the bytes reassembled, always a prefix of
the peer's stream `Data`), `out` (the bytes returned by `Read`, a prefix of
`rcvd`) and `open`. `Deliver` extends `rcvd`, `Read` extends `out` while
open, `CloseSide` closes. `MCReadConn` maps `rcvd` to `got \o buf`, `out` to
`got` and `open` to `~closed`.

### Listener

Variables: `errQ` (the channel `httpServeErr`), `pend` (`pendingConns`),
`lnOpen`, `lclosed` (`l.closed`), `serve` (the goroutine Listen starts),
`acc[a]`/`accRes[a]` (each application accept loop), `cl[c]` (each Close
call), and the counters `arrived`, `accepted`.

* `ServeReturn`/`ServeFail`: `http.Serve` returns, after `l.ln.Close()` or
  on a listener error; `ServeSend` is its blocking send on `httpServeErr`.
* `AcceptErr`/`AcceptConn`: the two cases of Accept's `select`.
* `CloseCall` and `CloseSend`: Close is called (a deferred Close only once
  every accept loop has returned), then its single-case `select` sends,
  sets `l.closed` and closes `l.ln`.
* `Handle` is the handler queuing a new ServerConn, or dropping it when
  `pendingConns` is full (spec-modelled, §4.6). Handlers of HTTP
  connections already accepted run on after `http.Serve` returns.

### Download

Variables, besides `ReadConn`'s for `Ends = {Cli}`:
* `srvAvail`, `srvNext`, `srvClosed`: the server application's writes, the
  next frame it puts into a reply, and its close (spec-modelled);
* `respCh`, `respClosed`;
* `sender`, `sbody`: `sendWriteBuf` between a 200 reply and its enqueue;
* `ping`, `pbody`: the ping goroutine and the frames left in its reply;
* `wk[w]`, `wkind[w]`, `wb[w]`: each respLoop worker and the node it feeds;
* `appClosed`, `panicked` (a panic ends every action: the process is dead).

Actions: `Post` and `SendEnqueue` (the success path of `sendWriteBuf`, with
its recovered send), `PingPost`, `PingCheck` (one iteration of the reply walk:
dropped frame, `optClosed`, or go on to send) and `PingSend` (the
unrecovered send), `WorkerRecv`, `WorkerFeed` (one frame of `feedframes` or
`feedframe`), `BodyTimeout` (the `ClientReadTimeout` force-close),
`AppClose`, `SchedClose` (the tick finding a broken connection), and the
client's `ClientLoop`/`ClientRead`. One ping goroutine runs at a time.
`Post`, like `sendWriteBuf`, tests only the sticky `err`, so a connection
the application has closed may still POST; its reply then meets the closed
`respCh`.

### Orch

Data are counts per connection; the order of frames inside a connection is
`ReadConn`'s and `Download`'s business. Counts cannot express a frame handed
to the wrong connection, so `Orch` checks that no frame is stranded. It does
not check where each frame goes. Variables:
* `orchQ`: the `orch` channel (`OrchCap`, 256 in the code);
* `cyc`: the orchestrator's `conns` map of the current collection;
* `wbuf[c]`: `c.write.buf` is not empty; `spawn[c]`: `sendWriteBuf`
  goroutines of `c` waiting for its write lock;
* `posted`, `replies`: the ping goroutines in flight, as bags (pings with
  equal contents are interchangeable): those waiting for the reply, each
  with its polled ids and the endpoint of its `lastconn`, and those reading
  it, each with the frames its reply still carries for each connection;
* `srvBuf[c]`, `written[c]`: the server connection's unsent and written
  frames (spec-modelled); `handed[c]`: frames put on `c.write.respCh`;
* `closed[c]`; `fails`: failed ping POSTs (bounded by `MaxFails`).

Actions: `Tick` (schedSending submitting an open connection), `Write`
(buffering, and schedSending when the threshold is reached), `Close`, both
through `SubmitVals` (`orchSendWriteBuf`: the channel, or a direct
`sendWriteBuf` goroutine when it is full); `SendWriteBuf` (one locked POST:
the reply carries all the server holds for `c`, a closed `respCh` swallows
it); `Collect` and `Dispatch(lc)` (the READ loop and the end of a cycle with
`lastconn = lc`); `PingServed` (the server of `lastconn`'s endpoint drains the
polled connections it knows), `PingFail`, `PingDeliver` and `PingDone`.
`Dispatch` can fire only when the channel is empty: the timer is made anew on
each pass of the READ loop. Goroutines beyond `MaxSpawn` for one connection
are merged into the waiting ones, which only removes POSTs; at most
`MaxPings` pings are in flight. The send on `respCh` is atomic with the
closed test here; `Download` shows what happens when it is not.

## 4. Runs

| run | cfg | expect | shows |
|---|---|---|---|
| readconn_reorder | MCReadConn.cfg | pass | The read side, fed frames in any order, refines `ReadStream`; every frame is eventually read; `close()` wakes a parked reader. |
| upload_faults | MCUpload.cfg | pass | Under drops, late requests and lost replies, with retries, the server application reads a prefix of what was written. |
| upload_writebuf | MCUploadBuf.cfg | pass | The write buffer stays within `MaxWriteBufferSize` plus one chunk per concurrent writer. The bound is tight: two writers reach it. |
| upload_delivery | MCUploadLive.cfg | pass | When requests may be dropped but no handled request is answered into the void, everything written is read. |
| upload_dup_stall | MCUploadDup.cfg | violation | A lost reply makes `sendWriteBuf` resend a frame the server already took; the server's rearrange loop `return`s on it and nothing written later is read. |
| listener_close | MCListener.cfg | pass | Two accept loops and one Close, with `http.Serve` possibly failing first: Close returns and both loops get an error. |
| listener_double_close | MCListenerDefer.cfg | violation | A `defer ln.Close()` after a stopping Close blocks forever. |
| download_faults | MCDownload.cfg | pass | Under lost replies, body timeouts, peer and application closes, a closed connection closes `respCh` and both respLoop goroutines return (or the process has panicked). |
| download_delivery | MCDownloadLive.cfg | pass | On a reliable carrier, every frame the server writes is read by the client, through direct replies and pings alike. |
| download_close_panic | MCDownloadPanic.cfg | violation | `ClientConn.Close` between the ping goroutine's closed test and its `respCh` send makes the send panic. |
| download_peer_close | MCDownloadPeerClose.cfg | violation | A peer's `optClosed` in a ping reply ends the connection before data the server sent earlier, in a direct reply, is read. |
| orch_polling | MCOrch.cfg | pass | Two connections of two endpoints share the orchestrator: with a one-slot channel (so the fallback runs), a failing ping, two pings at once and Close, every server frame written for a connection is eventually handed to it unless it closes. |

Bounds:
* `MaxWrites` 2 to 4 chunks, with `MaxBuf` 1 and `PendingCap` 2. So the
  buffer-full park, the threshold doubling and its cap are all reached.
* `MaxTries` 2, so both the retry and the give-up happen.
* `FramesCap` 1 or 2 and `RespCap` 1, so a full channel blocks a feeder or
  a sender.
* `MaxFuture` 1 in `MCReadConn`, so the future-frames overflow is reached.
* `MaxSpawn` 1: one handed-off sender may wait for the lock while another holds it.
* `IdxBits` 8: no wrap in these runs. With `IdxBits = 1` in `MCUploadLive.cfg`, `Delivery` fails: the second frame gets idx 0 and the server takes it for the chain terminator, as the code would after 2^32 frames.
* `NFrames` 2 in `Download`: two frames are enough for one to travel in a
  direct reply and the other in a ping reply, in either order.
* Orch: two connections, of different endpoints, so one cycle can poll a
  connection its ping's server does not know; `OrchCap` 1, so a tick finds
  the channel full and falls back; one frame per connection (`MaxData` 1),
  `MaxSpawn` 1, `MaxPings` 2 (two ping goroutines in flight at once, so
  their replies interleave) and `MaxFails` 1: 426 000 states in three
  minutes. Two frames per connection exceed five minutes.
* Listener: two accept loops so that both errors on `httpServeErr` are
  needed; `PendCap` 1 and two connections, so the handler finds the channel full
  and drops one.
  With three accept loops (`Acceptors = {a1, a2, a3}`), `AcceptSeesClose`
  fails: only two errors are ever posted, so one Accept blocks forever.

Fairness:
* Goroutines and timers are weakly fair: the scheduler runs a runnable
  goroutine, and `sched` fires its tick. The tick keeps an open connection
  submitted to the orchestrator, so an idle connection is pinged again and
  again (spec 9).
* `WriteAppend` and `SendStart` contend for `c.write`'s mutex, so they are
  strongly fair.
* Blocked channel senders (Close and Serve on `httpServeErr`, the ping
  goroutine and `sendWriteBuf` on `respCh`) are strongly fair: the Go runtime
  queues blocked senders and hands them the first free slot.
* The orchestrator's cycle ends only after 50 ms without a submission.
  Weak fairness cannot promise such a gap while ticks keep refilling the
  channel, and with it TLC finds `NotStranded` violated: the collector never
  leaves its loop. `Orch` assumes the gaps (strong fairness for `Dispatch`),
  which the code gets only while the process submits fewer than about 20
  times a second. The choice of `lastconn` is strongly fair per connection,
  standing for Go's random map order; if the same connection were always
  last, TLC finds the other endpoint's connection stranded.
* New `Write` calls, `Close`, deadlines, server writes and closes, direct
  POSTs and carrier faults are the environment's. They are never forced.

`CHECK_DEADLOCK FALSE`: the inputs are finite. After the last write, a
finished reader, an exhausted retry or a closed listener, the model may stop,
as the program does: a `Read` with no more data blocks forever.

## 5. Findings

* **upload_dup_stall** (`read_conn.go:129-132`). The spec (§4.4, §8.2) says
  frames with `idx <= counter` are dropped. The code `return`s from
  `readLoopRearrange` instead. A retried POST whose first attempt was handled
  by the server is enough to trigger it.
* `read_conn.go:162-168` (checked by an earlier run; `ErrPrecedence` in
  `MCReadConn` is still there). The spec (§4.4) says `err` takes precedence
  over `ErrClosedConn`. `Read` tests `closed` first, and `feedError` always
  calls `close()`, so a failed connection reports `ErrClosedConn`. TLC finds
  `ErrPrecedence` violated under `MCReadConn.cfg`'s constants.
* `read_conn.go:96` (no run of its own; `StickyErr` in `Download`). The
  spec (§4.4) calls `feedError` a sticky assignment of `err`. The code
  assigns `c.err` unconditionally. When the server's `optClosed` has
  failed the connection and the `ClientReadTimeout` callback then closes a
  body a respLoop worker was still reading, `feedframes` feeds "invalid
  frames" over the first error. TLC finds `StickyErr` violated under
  `MCDownload.cfg`'s constants. Only `Write` reports the replaced error,
  and `Read` returns `ErrClosedConn` first (the item above).
* **listener_double_close** (`listen.go:24`). `Close` sends on the one-slot
  `httpServeErr` with no default case. After a first Close, the Serve
  goroutine posts its own error; a second Close blocks forever.
* **download_close_panic** (`orch.go:71-78`). The ping goroutine tests
  `c.read.closed` and then sends on `c.write.respCh` with no recover; a
  `ClientConn.Close` in between closes the channel and the send panics.
* **download_peer_close** (`orch.go:72-75`). On `optClosed` the ping goroutine
  closes the connection at once. Data the server sent earlier in a direct
  reply is then dropped by the recovered enqueue in `sendWriteBuf`, or by
  the respLoop workers' closed test, and `Read` tests `closed` before `buf`.

## 6. Not modelled (yet)

* The frame codec: bytes, AES and length prefixes. This is out of TLC's reach
  and not under `src/`.
* The legacy `ClientConn` in `part_000` lines 1-148.
* The Dialer: `NewDialer` calls `d.start`, which is not in the source.
* The test harnesses.
* The `Verbose` stats goroutine and the listener's `conns` map (written only
  by the handler, which is not under `src/`).
* `SetWriteDeadline`, a no-op.
* `Orch` abstracts the POST retries of `sendWriteBuf` (`Upload` has them)
  and does not compose with `ReadConn`: its connections' read sides are the
  counts `handed`.
* A server that knows a polled connection index from another client
  process: connection indices are made by `newConnectionIdx`, which is not
  in `src/`, so a collision across processes cannot be modelled.
* `Upload`'s `ClientConn.Close` leaves out the `respCh` close, which
  `Download` models; the `optClosed` POST carries nothing back and is left out.
* Server-side reaction to `optClosed` and server GC: they are not in `src/`
  and the spec does not describe them.
