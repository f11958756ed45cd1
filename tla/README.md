# A TLA+ verification of Freak

Freak is a video-camera framework: a capture process pulls streams and frames out of a
HiSilicon SDK and publishes them through shared-memory FIFOs; other processes serve them over
RTSP and HTTP or run a face detector on them; every process is configured by requests that
travel over nanomsg sockets. This directory holds the TLA+ modules that model it, the TLC
configurations that check them and the TLAPS proofs about them. Paths are relative to the
root of the repository.

## 1. Inventory

`fw/` (nanomsg, mongoose, media-server, ufifo, cJSON, jsonb, freetype) and `sdk/` are external:
they appear only through the way the code uses them. The vendor's sample code in
`mod/vsf-hi3516d/sample` is compiled into vsf, and the functions the capture chain calls are
modelled as code of the project; the rest of it (display, audio, decoder, bitmaps, dual pipes,
stitching) is called by nothing.

### 1.1 The processes

| process | code | state | operations |
|---|---|---|---|
| vsf | `mod/vsf`, `mod/vsf-hi3516d` | per stream and per frame channel a config and a FIFO; OSD layers; the SDK's channels | bring the capture chain up before `main` and down after it; configure a stream, a frame channel or the OSD; pump threads that copy captured data into the FIFOs |
| rtsp | `mod/rtsp` | sessions hashed by client address, a media object and a sender thread per session | DESCRIBE, SETUP, PLAY, PAUSE, TEARDOWN, server on and off |
| web | `mod/web` | websocket sessions, a thread per session that muxes FLV, a websocket command server | open, close, server on and off, forward a command to another process |
| app | `mod/app`, `mod/alg-hi3516d` | the face detector: worker thread, result thread, result queue | enable, disable |
| bsp | `mod/bsp` | a dummy object per id | get, set |

### 1.2 The libraries

| library | code | state | what makes it correct |
|---|---|---|---|
| blocking queue | `mod/utils/common/src/que.c` | a ring, a length, two cursors, a mutex, two condition variables | no lost wakeup, FIFO order, cursors inside the ring |
| messaging | `mod/utils/nnm/src` | one socket and at most one thread per endpoint | one reply per request, close before join, no endpoint used after destroy |
| RPC | `mod/proto` | a handler table per process, a client stub per remote object | a request reaches the process that has a handler for it; answers carry the key of their request; client and server agree on the object |
| media FIFO | `mod/media` | records in a byte ring that run over its end | what comes out is what went in, byte for byte; key frames are marked |
| packages | `mod/proto/jsonb` (generated), `mod/*/cfg` | none: one conversion to and from JSON per structure | what was written is read back into memory that held anything; a package fits the buffers of both ends |
| json-cfg, log, mm | `mod/utils/{json-cfg,log,mm}` | a file, a log level, mappings | a bad file leaves the defaults; unmap releases exactly what map mapped |

### 1.3 How they interact

* **Requests.** A client stub (`proto/interface`) packs a call, sends it on a nanomsg REQ socket
  and blocks for the answer. The REP thread of the owning process runs the handler to the end
  before it receives the next request, so all calls into one process are serialised; the
  process's own `main` configures itself through the same socket.
* **Callbacks.** The SDK pump threads of vsf call a function pointer that the configuration code
  registers and clears while they run (`venc.c`, `vpss.c`); the face worker calls back into
  `alg_mgr.c` for its frames and results.
* **Shared state without locks.** `media/` FIFOs are opened with `UFIFO_LOCK_NONE`: one writer,
  several readers with private read positions. `status` words (`rtp-media.c`, `web-media.c`,
  `web-http.c`, `face.c`) are written by one thread and polled by another.
* **Shared state with locks.** The session table of `rtsp-server.c` is under a mutex, the media
  object found in it is used after the unlock.

### 1.4 What is hard

Asynchronous stop (a flag, then a join), callbacks that outlive what they use, sessions whose
connection is gone, two tables that must agree on the order of an enum, configuration that is
applied step by step with other threads running, a ring buffer whose records wrap, a key-frame
policy that drops stream data when the reader is slow, a chain of forty driver calls any of which
may be refused and whose undo runs at the exit of a process that may be killed half way, six
switches over the same sensor that must agree. `PROJECT.json` lists each hazard at its
line under `hazards`.

## 2. Plan

### 2.1 Modules, in the order of importance

| step | module | models | state |
|---|---|---|---|
| 1 | `Que`, `BoundedFifo` | the blocking queue, and what it promises | done, proved |
| 2 | `FaceAlg` | the face detector and its manager | done, safety proved |
| 3 | `StreamMgr` | the video streams and the pump | done, safety proved |
| 4 | `Rpc` | requests between processes, requests sent again, and the boot | done, safety proved |
| 5 | `RtspServer` | the RTSP server, its sessions and their threads | done, safety proved |
| 6 | `WebMedia` | the HTTP server, its sessions, their threads and their buffers | done, safety proved |
| 7 | `MediaRecord` | the records of the media FIFOs | done |
| 8 | `FrameMgr` | frame channels: one thread per VPSS channel, a put that waits, a ctrl that fails half way | done, safety proved |
| 9 | `OsdMgr` | what is drawn over the video, and the regions of the driver that show it | done, proved |
| 10 | `Capture` | the capture chain: every driver call of boot, request and exit, refused, killed, started again | done, proved |
| 11 | `Sensors`, `Encoding` | the attributes the chain is set up with, for every sensor and encoder setting | done |
| 12 | `CaptureSetup` | `Capture` with `Sensors` and `Encoding` | done |
| 13 | `Packages` | what requests carry and configuration files hold | done |
| 14 | `RpcPackages` | `Rpc` with `Packages` | done |
| 15 | `Vsf` | `StreamMgr`, `FrameMgr` and `OsdMgr` on the one request thread of vsf | open |
| 16 | `Pipeline`, `PubSub` | the receiving threads of `nnm_pipeline.c` and `nnm_pubsub.c`, their close and join | open |

What one component needs of another is stated in the model of the first and shown, where it
can be, in the model of the second: `FaceAlg` uses the result queue as a counter whose calls are
atomic, which `QueProofs` proves of `que.c`; `StreamMgr`, `FrameMgr`, `OsdMgr`,
`FaceAlg`, `RtspServer` and `WebMedia` have one request at a time, which is what the reply thread
of `Rpc` does; `StreamMgr` and `FrameMgr` take a record for atomic and for what was put, which
`MediaRecord` checks cell by cell, and they take a chain that stands, which is what `Capture` has
when `main` begins.

### 2.2 Abstract specifications

* `BoundedFifo`, of `Que`: a sequence of at most `Depth` elements whose operations are atomic.
  `Que` is proved to implement it.
* `Constructors` of `Capture`: the list of everything a started process has, against which the
  chain, its undo and its exit are checked and proved.
* One of `MediaRecord`: a sequence of frames; today `stored` plays that part inside the module.
* One of `StreamMgr` and `FrameMgr` together: a channel is on or off, and serves what it is on for.

### 2.3 Theorems worth proving next

* `Vsf`, when it exists: that the three managers do not disturb each other, from the invariants of
  `StreamProofs`, `FrameProofs` and `VsfProofs`.
* `StreamMgr` and `FrameMgr`: that both implement the one abstract channel of 2.2.

What is out of reach is listed in 7.

## 3. Modules and code

Every module has one action for each step of a thread that another thread can see; a lock, an
unlock, a call of the driver that only returns data, and an early return are guards or
alternatives of those actions. `PROJECT.json` maps every definition to its lines.

**`Que`** (`utils/common/src/que.c`). `pc[t]` is where thread t is in an operation, `elements`,
`len`, `curRd`, `curWr` are the fields of the queue. The mutex is implicit: what happens between
two lock operations is one action. `pthread_cond_wait` is two: sleep (which gives up the mutex)
and, after a signal or spuriously, `woken` and the competition for the mutex. Create and delete
are actions too; delete with a thread inside is the caller's fault and is ruled out by the guard,
which `FaceAlg` shows the one caller to respect. `call` and `ret` forget a call that returned and
the result of the one before, which nobody can see any more. Not modelled: an error of `pthread_cond_wait`,
which `que.c` passes on although the element stays, and failing allocations.
**`BoundedFifo`** is the promise; **`MCQue`** instantiates.

**`FaceAlg`** (`app/src/interface/alg_mgr.c`, `alg-hi3516d/src/hal/face.c`). `ctl` walks through
`set`: attach the FIFO, allocate the buffer, create the OSD stub, init; or drop the three and then
signal, join twice and delete the queue, in the order of the code. Each init makes a generation
`g` of a worker, a reader and a queue; `asleepOn[g]` is the queue the reader went to sleep on,
which need not be the current one. `fault` records the first use of what is gone. The frame
callback is called once at the head of the loop and again at its end, both times with FRAME_GET as
in the code (face.c never passes FRAME_FREE), so the worker waits for a frame at both places.
External: the detector, the tracker.

**`StreamMgr`** (`vsf/src/interface/stream_mgr.c`, `vsf/src/msgbox/msgbox_stream.c`,
`vsf-hi3516d/src/hal/venc.c`). `req` is the request thread inside `set`: create or destroy the
FIFO, then the pointer and the two words of the callback. Nothing orders these writes for the
pump, so any order is possible; `req.left` holds those not yet visible. The pump selects, takes a
frame of a ready channel, reads func, then args, then func again to call it, makes room, puts,
releases. `raced` is the history of requests that overlapped the frame being served. External:
the driver; ufifo, of which the model has a sequence of records, a put that fits, `oldest` and
`newest` (which, with no key frame in the FIFO, may drop all or nothing), and what a put on a
destroyed FIFO does (anything). A failing select ends the pump, as in the code; the JPEG callback
may fail to open its file and then uses NULL.

**`FrameMgr`** (`vsf/src/interface/frame_mgr.c`, `vsf/src/msgbox/msgbox_frame.c`,
`vsf-hi3516d/src/hal/vpss.c`). `req` is the request thread in `set` as in `StreamMgr`, with `ctrl`
between the pointer and the two words of the callback: the driver may refuse each of its steps, so
the channel `chn[c]` stays as it was, is down, or is down with the new size; `set` does not look.
`task[c]` is the thread of channel c: it takes a frame, reads func, args and func again, puts the
frame and releases it. `raced` is the history of requests that overlapped the frame. `Vpss` are the
channels that have a VPSS object; for the others `set` makes a FIFO and nothing else. External: the
driver; a put that waits until the record fits and may refuse, or keep for ever, one that never fits.

**`OsdMgr`** (`vsf/src/interface/osd_mgr.c`, `vsf/src/msgbox/msgbox_osd.c`,
`vsf-hi3516d/src/hal/rgn.c`). A request is one step, since only the reply thread uses regions.
`rgn[id]` is the region in the driver: what it was attached as, its layer, whether it is shown.
`canvas[id]` is the set of cells of the canvas that were painted, computed by the drawing code with
its unsigned arithmetic (`Word`) in a small picture. The driver may refuse any call, and does refuse
to use a region as what it was not attached as; then an assert of the handler fails. Abstracted:
colours and the shape of a glyph (a character is a filled square), texts of more than one
character, the corners of a mask. Not modelled: a font file that cannot be opened, which fails an
assert at the first request, and ids beyond those of the configuration.

**`Rpc`** (`proto/msgbox/msgbox.c`, `proto/interface`, `utils/nnm/src/nnm_reqrep.c`, the `main.c`
of every process). `Stub[key]` is the process a stub connects to and what it can ask for,
`Dispatch[key]` what the handler of the key knows, `Route` the table `msgbox_do_forward` looks in.
`call[t]` is the pending request of thread t, `inbox[p][t]` the requests of thread t that wait at
process p, one pipe per caller, and `turn[p]` the order in which p receives from the callers that
have any. The boot of a
main (register handlers, bind, then NUM, GET, SET of each of its keys through its own socket), the
nested requests of app, and the get that a set reads before it writes are steps of their own.
Nothing in the repository orders the start of the processes, so they start in any order. A request
socket sends its request again after a minute without an answer (`Resend`): the copy is served
although its caller may have its reply, and a late copy of a set undoes a newer one. Of a
configuration the model has the enable flag, of what the handlers do the FIFO that app attaches to
and as much of the face detector as requests depend on: the thread `Res` that asks vsf to draw its
results (`Deliver`), and the disable that joins that thread before it is answered (`StartDisable`,
`Joined`). The join waits for the result under way, and may never return (`asleep`), which is `Stuck`
of `FaceAlg`; where a disable meets threads that use what it frees, the process may end (`face`). When
exactly is in `FaceAlg`; here either may happen at any disable. `early` and `late` are histories of
the enabling under way and end with it. `Forwards` is what browsers ask web for.
Not modelled: the error code of a reply, a peer that goes away (what nanomsg does then is not in
this repository), the channel number within a key, `nnm_rep_destory`, which no process reaches.

**`Packages`** (`proto/jsonb/*.c`, `*/cfg/cfg.c`, `utils/json-cfg`). Every generated structure is a
table of members: the set of its leaves, each with its path of names and the member of a union it is
in, and the length of the longest text it is written as. `Write` and `Read` are the two directions,
on the memory the structure is read into; `Save` and `Load` those of a file. `Load` leaves the
built-in value of what the file lacks, and all of them when it does not parse. The conversions of
leaves (jsonb) and cJSON are libraries: a leaf is read as it was written. **`RpcPackages`** puts it
under `Rpc`: the buffers of both ends have 2048 bytes, the stubs do not look at the result of the
print and the handlers read into structures nobody initialised. The longest package is that of an
OSD of 16 objects (1846 characters), but for one: four texts have 1329 when quotes and backslashes are
escaped, and 2321, which does not fit, when every character is a control character and is written
as six. `PackagesCarry` names that one (`Overlong`), and says that it, and nothing else, is too
long. It does not speak of the text of a browser's own request: web copies as many bytes as the
header of the browser says, up to 65535, into the 2048 (`web/src/main.c:22-32`); the answer is printed
within the length of the browser's text (`main.c:38`). `json_cfg_save` truncates
the file before it writes, so a crash there leaves a file that does not parse and the built-in
values; `sdk_cfg.c` saves only when the process exits.

**`Capture`** (`vsf-hi3516d/src/hal/{sys,vi,vpss,venc}.c`, `sample_comm_{sys,vi,isp,vpss,venc}.c`).
The constructors run before `main` and the destructors after it. Both are lists of calls
(`Constructors`, `Destructors`), written with the loops and the early returns of the code; one step
takes the first call of `todo`. `up` is what the driver holds, `Needs(r)` what must stand below a
resource for the driver to make it (an assumption about the driver, which is external). A refused
call of a start function is followed by the undo of that function and the assert that aborts
the process; of a stop function some carry on and some return, which leaves the rest (`stuck`). A
killed process leaves what it had; the driver drops with it only what lives in it, its ISP threads.
A new process finds `up` as it is, and the first thing it does is to release it; `found` says that
the process of now has met something it was about to make, and begins anew with each start. `pump` is
the thread that asks the encoders by two numbers, the position in its list and the channel
that was configured, while the exit frees their objects. A request may change a VPSS channel at any time
(`Reconfigured`), behind the destructors too, since nobody joins the reply thread.

**`Sensors`** and **`Encoding`** (`sample_comm_vi.c`, `sample_comm_isp.c`, `sample_comm_sys.c`,
`hal/vi.c`, `hal/venc.c`) are the tables as functions of the sensor, of the encoding,
the rate control, the picture size and the profile, with the defaults of every switch and the values
a configuration file can hold that no switch knows (`unlisted`, `other`). **`CaptureSetup`** joins
them with the chain. What they show of the code, beside what the properties say: `vi.c` asks for
receiver 0 only, so the attributes of the second two-lane sensor are never used; the WDR mode of the
configuration is ignored; the frame rate that encoders count with is that of the sensor the
program was built for; `SAMPLE_COMM_VENC_Create` takes failure for success when that sensor is
the BUTT value (`HI_FALSE` is 0); the QPMAP branch of a smart GOP cannot be reached.

**`RtspServer`** (`rtsp/src/rtsp/rtsp-server.c`, `rtp-media.c`, `rtp-transport-{tcp,udp}.c`,
`interface/svr_mgr.c`). A session is `<<server, client address>>`; `handler[k]` is where the
request of client k is once it has released the lock of the table; `ctl` is `uninit`, which holds
that lock while it joins. `sender[s]` is the thread that takes a record and sends its packets.
`odd[s]` is the history of what befell session s that should befall none (`Befalls`): its client
asked for PLAY before SETUP, for SETUP during PLAY, or left; the server answered 200 to a SETUP
whose track it does not send (`unmatched`) or whose transport it could not make (`failed`); or a
DESCRIBE got the lock after `uninit` had emptied the hash and before it was freed, and added the session
to it (`late`). Three ways end the process in SETUP itself: `assert(0)` for multicast, the assert on the
ports of the client, and a track that is NULL (`multicast`, `port`, `track`); what a client sends
decides, so any SETUP may. Assumed of media-server: the requests of
one connection are served one after another, those of different connections at the same time;
`unlisten` stops new connections only. The first misuse ends the model. PAUSE answers 200 and
pauses nothing (`rtp_pause` has no caller), so it changes no state. A session whose client
vanished stays until the same address sends TEARDOWN or the server stops.

**`WebMedia`** (`web/src/web/web-http.c`, `web-media.c`, `interface/svr_mgr.c`). `at` is the event
thread, `sender[s]` the detached thread of the session at address s, `queue` the messages of
`mg_broadcast` and `replies` the bytes that answer them on a socket pair which all senders share.
The buffer of a session has no lock: the sender appends (`Append1` to
`Appended`, a span in which it may move) and the event thread sends it and empties it (`Read` to
`Clear`). What keeps them apart is that a sender waits for its byte, and since senders take each
other's bytes that is not enough. Two histories say why, and end with the session: `ahead`, its
sender took a byte while its own message was pending, and `stale`, when it was opened a message was
queued that names the session which had its address before (`on_media_read` compares addresses).
A uri of more than 64 bytes is copied into a `path` of that size (`OpenLong`) and ends the model.
Assumed of mongoose 6.18: a message is answered before its callbacks run; `mg_mgr_free` polls,
closes the socket pair and then closes every connection with its close event; a thread that waits
on the closed pair may wait for ever. Addresses are reused once freed, as an allocator does.
The command server (web-ws.c) is the thread `Ws` of `Rpc`. `WebAssumption`: the addresses are finitely
many, so that waiting senders can be counted.

**`MediaRecord`** (`media/src/video_stream.c`, `video_frame.c`, `media.c`, the readers of
`rtp-media.c` and `web-media.c`). The ring is a function from cells to values; `Recput`,
`Recsize`, `Rectag`, `Recget` split every structure and every pack at the end of the ring as the
code does. External: ufifo's cursors, which the code opens with UFIFO_LOCK_NONE; what its cursors
do when writer and reader race is unknown, and the model gives every operation in one step.
`Recget` gives the size of the record whatever the buffer of the reader is, as the code does.

## 4. Runs

Twelve runs, one per question. Bounds are constants of the cfg files.

| run | instance | shows | why the bounds are enough |
|---|---|---|---|
| `que` | 3 threads, all six operations, depth 2, 2 values | types, the ring, no lost wakeup, `Que` implements `BoundedFifo`, a reader beside elements and a writer beside room are served | the cursors lap; two sleepers at one condition and one waker is the smallest case of a lost wakeup. Any depth and number of threads: proved for all but the last |
| `face` | queue 2, at most 2 enables | misuse only after a disable, and, when requests alternate, only inside it; the queue outlives its threads; a stop hangs in two named ways only | two generations are what is needed to mix handles, queues and threads up. Any queue and number of enables: proved for the safety part |
| `stream` | an H.264 and a JPEG channel, FIFO 4, key 2, delta 1 | what can kill the pump; configurations are served; only a key frame waits; the pump returns | two channels share the pump; the FIFO holds a key frame and deltas on both sides of it. Any number and size: proved for the safety part |
| `frame` | two channels, one without VPSS; FIFO 2, records of 1 and 3 | misuse only under a request that overlaps the frame; channel, FIFO and callback are what was configured unless the driver refused; the thread returns unless its FIFO goes or its frame can never fit | channels share nothing but the request thread; a record of 3 never fits, one of 1 fits twice. Any number and size: proved for the safety part |
| `osd` | one region, a picture of 16 by 12 in rows of 18, units of 16, words of 12 bits, 120 objects, 4 texts | the canvas shows the last drawing and stays in the picture; the region is what was configured, in every sequence of set and trigger | regions share nothing; objects start left of, inside, at the end of and right of the picture with sizes from nothing to more than what is left. Any number of regions and size: proved |
| `rpc` | vsf and app; a browser turns the detector on and off, and sends one misrouted key and one action its stub lacks (`MCSomeForwards`); one set of the frames, or the one by which app boots, sent again (`MCSomeSets`); 0.57 million states | asserts fail for named reasons only; every caller gets its own reply, and gets one, unless it asked app and app is in a join that never returns; what each package of each key carries, whatever its union says, and what each file gives back | the calls made while a request is served are app's to vsf, nested and by the thread it joins; web is the only other caller; one copy already overtakes a newer set. More copies and more keys only repeat this, and are too many states with liveness. The packages are those of all keys, actions and arms. Any processes, keys and number of copies: proved for the safety part, but not for the packages |
| `rpc_forward` | vsf, web, rtsp; all keys | violation: see 8 | |
| `rtsp` | one client, all transports, two servers | what can strike which session, and why; no session is lost but one added to a hash that uninit has emptied; requests and stops end unless overtaken or the process ends | the table is per address, so clients meet only at the lock and at stop; two servers are needed for a client that outlives one. Any clients and servers: proved for the safety part |
| `web` | two addresses, any number of starts | sessions and connections agree; the byte count; causes of misuse; which two causes alone lose bytes or close a healthy connection; ends | two senders are needed to take each other's byte and to reuse an address. Any finite set of addresses: proved for the safety part |
| `record` | ring of 16 cells, packs of 1 to 3, pictures of 1 and 4 | sizes, tags, contents survive, readers start at key frames | the ring starts at any cell, so it ends inside every part of every record |
| `record_offset` | packs with an offset | violation: see 8 | |
| `capture` | one or two VI objects, two encoders, two VPSS channels, three starts, two refused calls | the driver's objects always stand on each other; a process starts clean however the one before ended; exit leaves out nothing; why the pump ends; the tables agree for every sensor and every encoder setting | the second start meets what the first left, wherever it ended, and the third what the second left of it; one refusal starts an undo and the second strikes inside it; two encoders are what a wrong number needs. 1 SYS object is what the configuration has. Any number of all of these: proved, but for the tables |

Two clients with one server over TCP, safety only (1.13 million states), was explored too and has
no error; with liveness it is too large to be one of the runs.

Deadlock is checked for `Que` and for the records. The other systems may stop, and say so in their cfg: a model
ends with its first fault, a process of `Capture` ends and is started a bounded number of times, and stop hangs are what `StopEnds`, `RequestsAndStopsEnd` and
`SessionsAndStopsEnd` describe.

Each property has a mutant: a definition of the model changed the way a bug would change the code
(`PROJECT.json`, `mutants`), which the run must refute. The mutated forms stand beside the
definitions they replace.

## 5. Fairness

* A thread that can run does so: weak fairness on every step of every thread. The code has no
  priorities; the scheduler of Linux is fair to threads of one class.
* `Que`: weak fairness per thread is enough, because an operation is never disabled by the mutex:
  nobody holds it while waiting. Signals wake somebody, not a chosen one.
* `FaceAlg`: vsf goes on to produce frames, as long as the FIFO is there.
* `FrameMgr`: every thread of a channel runs, and readers go on to read; nothing is assumed of the
  driver, which may never yield a frame.
* `StreamMgr`: readers go on to read. Without that a key frame may block all channels, which is
  the hazard at stream_mgr.c:30 and no property promises otherwise.
* `RtspServer`: strong fairness for the end of a sender: it looks at the status at every round.
* `WebMedia`: strong fairness for taking a message, closing the sockets and a sender taking a byte:
  the event loop polls all its sockets in every round, and the kernel serves those who wait in turn.
* `Rpc`: every thread of every process runs (the reply thread also inside a set of the detector), and a
  join returns once the result under way is drawn, unless it is `asleep`; that a request is sent
  again, or a result found, is never promised.
* `Capture` has no liveness: an exit may hang on a refused call, as the code does.
* Clients, browsers and requests: none.

## 6. What is proved

All proofs are for every value of the constants under the assumptions each module names.

* **`QueProofs`**: `RingAlwaysOK` (`TypeCorrect` and `RingCorrect` together), `WakeupsCorrect`,
  `NoMutualSleep`. The ring
  invariant (`curWr` is `len` slots after `curRd`) needs only the type invariant and arithmetic
  modulo the depth (`ModBelow`, `ModWraps`). `NoLostWakeup` is not inductive alone: a thread that
  sleeps at a condition of the other operation, or inside a queue that was deleted, would break the
  count, so it is proved with `DeadIsQuiet` and `SleepersMatch` as `QueInv`. The count itself
  says that, while a reader sleeps, the elements are at most the readers already woken; each action
  changes both sides by at most one (`CountGains`, `CountLoses`).
  `QueImplementsFifo` is the refinement: the mapping reads the ring from `curRd` on; put appends, get
  removes the head, peek and the questions leave it, and all waiting stutters.
* **`StreamProofs`**: `Inductive`, `OnlyDisableRacesAlways`, `ConfiguredIsServedAlways`,
  `DeltaNeverWaitsAlways`.
  `IInv == ControlOK /\ Channels /\ PumpSafe`. `Channels` says what each word of each channel is
  between requests (`Settled`) and half way through one (`Halfway`): what is written is written,
  and as long as the words appear in order a visible func has args and a FIFO behind it.
  `PumpSafe` says that while only harmless requests overlap, everything the pump has checked still
  holds where it is used. The first is needed because a request may begin at any step of the pump,
  the second because what the pump read is older than what is there.
  For `DeltaNeverWaits` two conjuncts are added. `Fills` says that no FIFO holds more than its size:
  what it holds is the number of its key records and of its deltas (`Count`, a cardinality)
  times their sizes, so `UsedAppend` and `UsedDrop` say what a put and a skip change. `RoomMade` says
  that from the skip to the put a delta fits; it needs `IInv`, because a FIFO that is destroyed and made
  again between the two is what `raced` excludes.
* **`FrameProofs`**: `FrameMisuseNeedsRaceAlways`, `FrameConfiguredAlways`, from
  `FrameAssumption` (the channels are numbered from 0, those with a VPSS object among them).
  `Settled` and `Halfway` are those of `StreamProofs` with the driver's channel added, which a
  refused call leaves in one of three ways; the safety of a thread is stated for a frame nobody
  disturbed (`raced = {}`): the pointer, function and argument it has read are still there.
* **`RpcProofs`**: `RpcInvariant`, `SocketsAgree`, `RejectionsForwarded`, `RepliesMatch`,
  `AttachFinds`, from `RpcAssumption` (the processes, keys and actions are those of the code), for
  every choice of processes and of what browsers forward, and however often requests are sent again.
  `RpcInv` has four parts. `Sockets`: a process takes in turn, each once, from the callers that have a
  request (`Turns`); a request asks for what its caller can ask for (`Asked`) and, if it counts,
  belongs to the call that waits (`Belongs`); a caller that waits has one that counts (`Pending`); and as
  long as nothing was sent again there is only that one (`Single`). `Calls` and `Boots` say who calls
  when: a main until it has booted, the reply thread of app while it turns the detector on; while it
  turns it off it calls nobody, and the detector's own thread calls only vsf.
  `Enables` is what `OnlyEarlyAppFails` lives on: while app serves the request that made it call vsf,
  that request stays in front, and between its set and its attach the FIFO of the frames is there
  unless app began early or a copy came late. Why a request that no browser forwarded is never
  rejected is in the tables (`Tables`, `Own`): a stub asks the process whose main registers its
  key, for what its handler knows.
* **`VsfProofs`**: `RegionAsConfiguredAlways`, `CanvasIsLastAlways`, from `OsdAssumption`. The first
  is inductive as it stands, because a request is one step; the work is that every way through the
  create, attach and show ladder that the driver may cut short ends in one of the states it allows.
  The second rests on `Painted`, that a canvas holds what the code drew for the last request, and on
  the arithmetic of that code: a place and a length of a request, scaled and cut, stay in the picture
  (`Spans`); no product or sum of the drawing code reaches `Word` (`RowsExact`, `PixelExact`); the
  four strips, whose distances from the far end are counted in unsigned numbers, are the border of
  the rectangle when it is not thinner than that (`BorderIsFrame`).
  The other half of the module is the capture chain: `ChainStandsAlways`, `StartsCleanAlways`,
  `ExitStopsAllAlways`, `PumpEndsForCauseAlways`, from `CaptureAssumption` (all six constants are natural
  numbers, at least one system object and room for a VI), so also for a chain of any length. None of
  the four is inductive: what stands depends on how far boot has come, and what an exit still has to
  do on what the lists of calls say. So the lists are proved about first.
  + *Boot*: after the calls of the system objects the list makes each thing once and in the order of
    a weight `W` (`Rising`), each of its calls makes what the configuration has (`Boots`), and what
    stands when a call is refused weighs less than what that call makes (`Before`); `BootShape` joins the
    parts, also for several VIs, where boot meets what it made itself and never ends (`Second`).
  + *Exit and undoing*: `Stops(s, ops, standing)` says that a list of calls takes away a thing only
    after what stands on it (`Orderly`), and that the calls a refused one leaves out (`skip`) are in the
    list and take away something, too (`Skips`). Every stop function, every list of them and every
    undo path (`Undo`) is shown to be one, and it stays one when its first call is made, refused or
    left out (`StopsRest`).
  + *The invariant* `ChainInv`: a booting process has made exactly what its first p calls make (`BootAt`)
    or has an undo and an abort before it (`Failing`); one that reached main has it all (`UpOK`); one that
    exits has a list left that stops in order and covers all that stands (`Exiting`, `Covers`); what
    stands, stands on what it needs (`StandsOn`); the pump has a cause to end (`PumpOK`). That a started process
    meets nothing is `BootAt` at p = 0: whatever an earlier one left, in whatever state of `Failing` or
    `Exiting` it was killed, the first calls of boot clear before anything is made.
  Flattened lists need no induction because the model writes them as functions of the place
  (`Each`): a place in a list of n parts of equal length is a quotient and a remainder. `ChainInv` was
  checked with TLC before it was proved: with two system objects, one VI, three starts and two refused
  calls, and with two VIs, two starts and one refused call.
* **`FaceProofs`**: `FaultOnlyWhileStoppingAlways`, `StoppedIsQuietAlways`. Neither is inductive.
  `Unstopped` says what each thread of a detector that was never disabled may find; `Alternating`
  says, for every place of set, what is still there and who still runs while requests alternate, with
  one generation alive at a time (`Alone`) or none (`Quiet`); `Fresh` bounds the generations.
* **`RtspProofs`**: `SessionsAndThreadsAgreeAlways`, `HandlersSafeAlways`,
  `StrikesHaveCauseAlways`, from `RtspAssumption`. `Consistent` ties a session's state to its
  thread and its place in the hash, `Owned` says that a session that lives is in the hash
  of a server that still looks after it (`Tended`: it runs, or its uninit has not emptied the hash yet),
  or was added too late for that (`late`), or belongs to the one handler or the uninit that took it out and joins its thread, `Places` where
  those are, and `Found` that, until the server is stopped, what a handler found under the lock is
  still there when it uses it without.
* **`WebProofs`**: `SessionsLinkedAlways`, `RepliesAddUpAlways`, `MisuseHasCauseAlways`,
  `TroubleHasCauseAlways`, from `WebAssumption`. `Linked` says who has a session, `Started`
  why a buffer may be raw, `Counted` is the balance of messages, bytes and waiting senders, and
  `Ordered` is the discipline that the last theorem lives on: a sender that never overtook, in a session
  that was opened with no message queued for its address, has at
  most one message on the way, and while it is pending it waits and holds a buffer with data, so that
  nobody appends to what is sent and nobody finds it empty.

## 7. What is only model-checked

Liveness under fairness (`SleepersServed`, `StopEnds`, `PumpReturns`, `ThreadReturns`,
`EveryRequestAnswered`, `RequestsAndStopsEnd`, `SessionsAndStopsEnd`): the prover has no rule for
ENABLED.

Two invariants of `MediaRecord` (`HeadersFound`, `PayloadKept`) and its action property
(`StartsReadable`): what its folds over the parts of a record and `Walk`, a recursive function, compute
for every ring is an induction over data, which no installed prover can do. `PackagesCarry` of `RpcPackages` and
`SetUpForOnePicture` and `EncodersSetUp` of `CaptureSetup` speak of tables: the
tables of `Sensors`, `Encoding` and `Packages` have no parameters but the values they are defined
for, all of which the runs enumerate: nothing is left to prove.

## 8. Where code and comments or asserts disagree

* `rpc_forward`: the node table of the message box is in another order than the keys; the keys of
  the frames and of the RTSP server are sent to the wrong process, whose `assert(func)` ends it.
* `record_offset`: a record keeps the bytes before a pack's offset and loses as many at its end.
  A driver that never reports an offset never shows it.

The passing runs describe more of what may go wrong, as the only ways in which it can: an app that
turns the detector on before vsf has booted (vsf writes back the configuration it read before app enabled the
frames, and `assert(priv->fifos[cfg->id])` of app fails: `OnlyEarlyAppFails` of `rpc`, which has
a late copy of a set as the other cause), a browser's odd request that ends a process
(`OnlyForwardedRejected`), the order
of a disable in `FaceAlg` and `StreamMgr`, a join that never returns in `FaceAlg`, `RtspServer` and
`WebMedia`, in `RtspServer` a session used after its server, one lost in a hash that is freed, a 200
for a SETUP that left no transport, with the PLAY after it that uses it, and a SETUP that ends the
process; in `WebMedia` a thread that starts before its callbacks, and a healthy connection that is
closed because another sender took its byte or because a message of the session that had its
address before was still queued; an OSD whose texts are longer than a package,
an object that starts outside of the picture or is thinner than its border
in `OsdMgr`, and in `capture`: a configuration with two VI objects never comes up, because the second
starts all VIs once more; an ISP that fails to start pulls the pipes from under those that run; a
`HI_MPI_ISP_Exit` that is refused leaves an exit that joins a thread for ever; a request may turn a VPSS channel on again
behind the destructors; encoders that are not numbered as their objects end the pump
without a word; the receiver of the four-lane IMX327 and IMX307 takes 12 bits in WDR mode and the
device 10; the 12M mode has a statistics interval of no frames; a picture size that a table does not
list gets more bits than a 4K picture. No comment or test of the repository says otherwise, so they are hazards
and properties rather than findings.

## 9. What is not modelled

* The managers of vsf beside each other (steps 15 and 16 of the plan): each is modelled alone.
* Memory that runs out, threads that cannot be created, files that cannot be opened, except where
  the code goes on with the result (the JPEG file, a transport that could not be made, a
  configuration that cannot be read).
* The bytes of protocols: RTSP headers, RTP packets, FLV tags, the characters of JSON. The counter of
  interleaved channels in rtsp-server.c:134 outgrows the byte it is sent as after 128 SETUPs.
* `alg_mgr.c:66` copies as many objects as the detector found, up to 32, into an OSD of 16; how many it
  finds is decided in the SDK, so no model of this repository says whether it happens.
* A reader of a media FIFO whose read cursor the writer moves (media.c:114): ufifo's sources are
  not in the repository, so its races cannot be modelled.
* The RTP receivers, the log, the mappings, the pipeline and publish/subscribe sockets: hardly any
  state and no caller that would race; `PROJECT.json` gives each its reason. bsp has a dummy object
  behind a boot, a dispatch and a stub, which are in `Rpc`.
* The samples no code of the repository calls (most of sample_comm_vo.c, _audio.c, _vdec.c,
  _region.c, and the dual-pipe, stitching and dump functions of sample_comm_vi.c and
  sample_comm_venc.c): dead code here. About three quarters of the implementation's lines that the
  map leaves out are in these files.
* The two calls of `SAMPLE_COMM_SYS_Exit` are one in `Capture`, refused as a whole. The end of the pump
  on a failed select is in `StreamMgr` only, as no driver call of the chain is refused by it.
* What a text that does not fit its buffer overwrites: the models end there, or do not speak of it.
* The stand-ins for other boards, and third-party code.
