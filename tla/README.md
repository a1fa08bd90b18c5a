# PAIRV: formal models of the runtime

PAIRV is bare-metal C for a Nuclei RISC-V core that drives a PAICORE neuromorphic
chip over a network-on-chip (NoC) port. This directory holds TLA+ models of the code that
carries its concurrency and its protocols, TLC configurations that check them on small
instances, and TLAPS proofs that hold for every size. Paths below are those of the repository.

## 1. The system

```
 main.c (mnist) ──> paicore_runner.c ──> session.c ──> evalsoc_noc.c ══ NoC ══ PAICORE
                        │   frame_codec.c    ▲  │           ▲
                        └── session_io.c ────┘  └─ paicore_noc_handler (interrupt)
 relay/main.c:  UART <─ ringbuf.c, evalsoc_uart.c, evalsoc_noc.c ─> NoC
 uart_app.c, snn_head: shells and framed UART requests over the same drivers
```

One core runs everything. Concurrency comes from the NoC interrupt (which preempts the main
program and runs to its end), from the UART interrupt, and from the chip, which works beside
both and may be slow or silent.

| Component | State | Operations | Talks to |
|---|---|---|---|
| NoC driver (`evalsoc_noc.c/.h`) | FIFOs, interrupt enable and pending register | write a frame, read a frame, acknowledge, enable, disable | chip by MMIO |
| Session (`session.c`) | `g_active_session`; per session: artifact, mode, `completed_timesteps`, `faulted`, RX barrier, `rx_frames` | init, deinit, load_config, send_frames, reset_model, sync_wait_payload, sync_wait_until (with or without an RX handler), `paicore_noc_handler` | NoC driver, RX handler callback |
| Byte ring buffer (`ringbuf.c`) | storage, head, tail | init, put, get, reset, available | one interrupt writer, one main reader |
| Session input transfer (`session_io.c`) | codec cursor | encode a chunk into the workspace, send it, repeat | codec, session |
| Runner (`paicore_runner.c`) | session, workspace, deployed flag, decode context | deploy, release, run_sample with three RX handlers | session, session_io, codec |
| Frame codec (`frame_codec.c`) | a resumable input cursor; `received_mask` of each voltage | pack and read work frames, encode a chunk of a row, decode DATA and VOLTAGE frames | artifact reader |
| Artifact reader (`artifact_reader.cpp`) | none | verify and look up a FlatBuffers file | – |
| Relay (`relay/main.c`) | receive ring buffer, overflow and `timestep_finished` flags, bytes of a partial frame | UART and NoC handlers, forward frames both ways, wait after a SYNC | ringbuf, UART, NoC |
| UART shell (`uart_app.c`) | pending response: kind, frames counted and expected, ready flag | eleven commands, `clear`, time limit, report, NoC handler | NoC, UART, ringbuf |
| SNN head (`snn_head_uart.c`, `main.c`, `snn_head.c`) | scan position, header, input buffer, deadline | serve one framed request: scan, read, check, acknowledge, infer, answer | UART, runner |

Vendored code (NMSIS, FreeRTOS, RT-Thread, Nuclei board support, benchmarks), generated FlatBuffers
accessors, the numerical kernels and the build system have no protocol of their own. They are listed
in `PROJECT.json` as not modelled.

### What is hard here

* **A handler that may strike anywhere.** `run_control_barrier` clears the barrier, enables the
  interrupt, writes the control frame, polls, and may give up; the handler may run between any two of
  these. The races are: an answer that arrives between the poll and the timeout, a pending
  interrupt left from before, and an answer that comes after the call has returned, when `rx_frames`
  and the handler's `user_data` are no longer the handler's to write.
* **COMPLETE carries no identification.** If one answer is not drained to its end, the next call
  succeeds on the wrong COMPLETE. The session's defence is the `faulted` flag and the contract that
  the board is recovered before the next `rvrt_session_init`.
* **A timeline in two places.** `completed_timesteps` must remain the chip's own time, through resets,
  rejected targets and changes between raw and cumulative mode.
* **One interrupt, several session objects.** A session that looks initialised but is not
  `g_active_session`, or the reverse, dispatches into storage the caller may reuse.
* **An unbounded loop inside an interrupt.** The handler drains until COMPLETE; the time limit is
  checked by code that cannot run meanwhile.
* **Lock-free indices.** The ring buffer is shared by an interrupt and the main loop with compiler
  barriers only.
* **Buffers with three roles.** The runner's workspace is at the same time the encode buffer and the
  session's `rx_frames`.
* **Two decoders for one layout.** Regular output mappings are decoded by arithmetic on address bits, all others by
  look-up; a difference would show only for artifacts of one sort.
* **Answers without a name, again.** The relay and the shell decide from the frames they forward when an answer ends, and
  which request it belongs to from a flag that anything may have changed meanwhile.
* **Byte streams without resynchronisation.** The relay counts bytes; the SNN head scans for a magic that a payload or
  a cut-off request may contain.
* **One UART, two printers.** In the shell the handler prints each frame to the UART the main loop prints to.

`PROJECT.json` lists the forty that matter most at their lines, with the properties that cover them.

## 2. Modules

| Module | What it is |
|---|---|
| `Noc` | FIFOs, interrupt line, driver operations of `evalsoc_noc.c`; the chip, as an external component |
| `Session` | `session.c`, over `Noc`: API calls of several sessions, handler, chip, board recovery |
| `SessionProperties` | its invariants, action properties, liveness, and the mapping to `SyncService` |
| `SyncService` | abstract specification: a server leased by one client at a time |
| `RingBuf` | `ringbuf.c`, one action per access to a shared variable |
| `ByteQueue` | abstract specification: a bounded FIFO of bytes |
| `Runner` | `paicore_runner.c` and `session_io.c`, over the session's barrier; the chip's data flow, external |
| `RunnerProperties` | what a caller of the runner relies on |
| `SampleLayout` | the buffer checks of `run_sample`, and the bytes it then uses |
| `WorkFrame` | the work frame of `frame_codec.c`: packing, time stamps, addresses, payloads; operators only |
| `InputCodec` | the resumable encoder and the loop of `session_io.c` around it, and its property |
| `OutputCodec` | the choice of a decoder, the generic and the fast decoders, lane assembly, and their properties |
| `TestChip` | the chip of `Noc`, which also answers test requests |
| `Relay`, `RelayProperties` | `relay/main.c` with the driver's receive drain, composed with `TestChip` and so `Noc` |
| `UartApp`, `UartAppProperties` | the shell, composed likewise |
| `SnnUart`, `SnnUartProperties` | the framed transaction and the service loop of the SNN head |
| `SessionProofs`, `ServiceProofs` | theorems about the session (the second uses the first) |
| `RunnerProofs` | theorems about the runner |
| `DataPathProofs` | theorems about `SampleLayout`, `InputCodec` and `OutputCodec` |
| `RingBufProofs`, `RelayProofs`, `UartAppProofs`, `SnnUartProofs` | theorems about the modules of these names |
| `MCSession`, `MCRingBuf`, `MCRunner`, `MCDataPath`, `MCRelay`, `MCUartApp`, `MCSnnUart` | instances for TLC |

### Noc and Session against the code

State. `owner` is `g_active_session`; `session[x]` the members of `rvrt_session_t` that decide
anything (`artifact` stands for "bound", the pointers and the thread index are data);
`barrier[x]` is `session->rx_barrier` with `rx_frames[0 .. rx_count-1]` as a sequence; `decoded` is
what the caller's RX handler has stored; `irqEnabled` and `irqPending` are the enable byte and the device
register; `pc`, `call`, `irqWasEnabled` are where the main program is and its locals; `isr` is the session the
running handler serves. `answer` and `epochStart` are history variables that nothing reads but
properties.

Granularity. One core: main takes no step while `isr # None`, so a handler entry between any two
main actions is every interleaving that can matter.

| Code | Action |
|---|---|
| `rvrt_session_init` (+ `register_irq`, which may fail) | `InitSession` |
| `rvrt_session_deinit` | `DeinitSession`; `NestedDeinit` from an RX handler |
| `load_config`, `send_frames` | `RejectSubmit`, or `BeginSubmit` (early returns and `irq_was_enabled`) then `Submit` (interrupt off); `NestedSend` from an RX handler |
| early returns of the three control functions | `RejectControl` |
| `start_rx_barrier`, which runs with the interrupt disabled | `ResetModel`, `SyncWaitPayload`, `SyncWaitUntil`, `SyncWaitUntilWithRxHandler` |
| the write of the control frame | `WriteControl` |
| `wait_rx_barrier`: the poll, the clock, the second look | `PollSucceeds`, `TimeLimitPasses`, `Expire` |
| the end of `run_control_barrier` and the epilogue of the API function | part of `PollSucceeds` and `Expire` (`Finish`) |
| `paicore_noc_handler` | `EnterIsr`, then one `IsrReads...` per turn of the drain loop |

A frame is a kind and a number. A "data" frame stands for a batch of configuration or input frames, which
are never answered. The RX handler of `SyncWaitUntilWithRxHandler` is the runner's:
it ignores what is no work frame and may refuse a work frame.

The code does not say what a read of the *empty* uplink FIFO does: `noc_fifo_read_words` reads without asking
and always returns 0, while the host tests' mock fails. So the constant `EmptyRead` has three values: `stall`
(the bus read ends when a frame arrives), `idle` (it returns words that are no frame) and `error` (the mock).
For safety, `idle` allows every behaviour of `stall` and more; the runs check safety under `idle` and under `error`, the proofs cover all three. With `idle` words
in the buffer, OVERFLOW is no statement about the answer, so `OverflowIsReal` is about the other two.

The chip is not in the repository. It is modelled as the runtime expects it: INIT resets its
time, SYNC(n) advances it by n, either is answered by any number of work frames and then one COMPLETE;
it may be slow or stop for ever; a work frame may or may not raise the interrupt, COMPLETE does.
`Recover` is the platform recovery that `session.h` demands after a failure; `InitSession`
requires the result of it (`Quiet`), because the header says initialising without it is not valid.

Left out: statistics, NULL checks, the cycle counter behind the time limit (`TimeLimitPasses` may happen
at any poll), which FlatBuffers vector a frame comes from.

### RingBuf against the code

One writer (`rv_ringbuf_put`) and one reader (`rv_ringbuf_get`, `rv_ringbuf_reset`,
`rv_ringbuf_available`). Each action reads or writes at most one variable that the other
side writes: `BeginPut` loads tail and decides, `StoreByte` writes the slot, `AdvanceHead` publishes it; `BeginGet`,
`FetchByte`, `AdvanceTail`, and the two halves of reset and available likewise. Locals
(`head`, `next_head`, `tail`, the byte) live in `writer` and `reader`.

### Runner against the code

State. `runner[x]` is the part of a `rvrt_paicore_runner_t` that decides anything: deployed
(`session.artifact` set), and its session's `faulted` and `completed_timesteps`. `run` holds the arguments and locals of
`run_sample`, with `submitted` for `decode.submitted_timesteps` and `target` for the cumulative target of the current synchronisation.
`input`, `output` and `mask` are the caller's memory: whether an input row still is what the caller wrote, the lanes
of each output element, and `received_mask`.

The session is not composed in but modelled by what the `Session` modules establish: a barrier reads frames up to the
next COMPLETE or fails and faults the session (`BarrierStatus`), nothing is read or decoded outside a barrier
(`NoLateDelivery`), the payload is the distance to the target (`TimelineAgrees`). The last step of the handler, which
reads COMPLETE, is merged with the poll that sees it; between the two no variable of this module changes.
COMPLETE still carries no identification here: which COMPLETE ends which barrier is
decided by the FIFO alone, and that is what `runner_no_recovery` is about.

| Code | Action |
|---|---|
| `rvrt_paicore_runner_deploy` | `RejectBusy`, `FailDeploy` (early, or with part of the configuration sent), `Deploy` |
| `rvrt_paicore_runner_release` | `RejectBusy`, `Release` |
| argument checks of `run_sample` | `RejectSample`; which buffers pass is `SampleLayout` |
| clearing of the lane state and `rvrt_session_reset_model` | `BeginSample`, `ResetCompletes` |
| one turn of the loop of `rvrt_session_send_input_timestep` | `SendChunk`, or `EncodeFails` |
| `memset` of the row, `submitted_timesteps`, start of the synchronisation | `SubmitTimestep` |
| the pipeline's last synchronisation | `CompletePipeline` |
| the three RX handlers, `rvrt_store_voltage_lane` | `HandleFrame` (`Refuses`, `Store`) |
| ends of a barrier | `SyncCompletes`, `BarrierFails` (at any time) |

Data. A lane of the output holds `Zero`, the number of the sample whose complete input it was computed from, or
`Junk`/`Wrong`; so a property can say that an output is a function of *this* sample's input without computing it. The chip
labels its outputs `Wrong` as soon as a consumed row is missing a chunk, has a chunk twice, was encoded from overwritten input,
mixes samples, or belongs to another runner's configuration. It puts out row t after `pipeline_latency - 1`
further timesteps. `Early` lets it stamp frames with a row it has not computed. `Recovered` says whether
callers follow the contract of `session.h` (recover the platform before initialising) or only the steps of
`Lib/runtime/README.md`. A chunk of frames is one element of the downlink FIFO. Error codes of a failed deployment and of
`EncodeFails` are not told apart.

### SampleLayout against the code

One call of `run_sample`: `LayoutStatus` is its argument checks in their order, with sums in `size_t` (`Wrapped`).
`ReadByte` and `StoredByte` are the addresses that the encoder reads and the decoders write; VOLTAGE decoders divide the
stride by four and count words, which is why `Misaligned` matters. The overflow guard and the sums that it protects are
separate, so that the theorem is about the guard.

### WorkFrame, InputCodec and OutputCodec against the code

A frame is a record of its header bits, its destination and its low word; the low word is a number, packed and
unpacked with the code's own shifts as multiplications and remainders. The destination's core and copy coordinates are one field (`offset`, of which
sign and magnitude are encoded as in `sign_magnitude6`). Mappings and rows enter as the constants `InputRows` and `Views`; `ReadableRow` and `ReadableView` say what
`artifact_reader.cpp` guarantees of them, and TLC checks these assumptions.

| Code | Definition |
|---|---|
| one turn of the loop of `rvrt_encode_input_chunk` | `RejectValue`, `SkipZero`, `FillBuffer`, `RejectEntry`, `EncodeFrame` |
| one turn of the loop of `rvrt_session_send_input_timestep` | `SendWorkspace` |
| `build_work1_frame`, `frame_dest` | `Buildable`, `WorkFrameOf` |
| `configure_fast_layout` | `FastLayout`: "fast", "generic", or "refused" (the deployment fails) |
| `runner_decode_data_fast_frame`, `runner_decode_voltage_fast_frame` | `DataFast`, `VoltageFast` |
| `decode_data_work_frame`, `decode_voltage_work_frame`, behind the time stamp check of the generic handler | `DecodeData`, `DecodeVoltage`, `Generic` |
| `rvrt_store_voltage_lane` | `StoreLane` |
| `memset` of the row and `submitted_timesteps` | `Submit` |

The chip's side (`FrameOf`) is the inverse of the address computation of the decoders and marked external; it packs with the codec's own `Pack`.

### Relay against the code

Main is frozen while the NoC handler runs; the UART handler preempts both, and only `Masked` sections keep it out. The ring buffer is a sequence with a capacity: that is
what `RingBuf` implements (`ImplementsQueue`, and `Refinement` for every size). A byte is a record of which frame, which word and which place it comes from, so that a frame that is put together from
bytes of two frames is told from a whole one. Bytes in the place of a header that are no header may look like any kind (`LooksLike`).

| Code | Action |
|---|---|
| `relay_init`, and `main` when it fails | `Boot`, `Returned` |
| `send_config_frames` | `Configure` |
| `UART0_IRQHandler`, `uart_drain_rx_fifo`, `buffer_uart_byte` | `UartInterrupt` |
| `paicore_noc_handler` | `EnterHandler`, `HandlerForwards` (a frame), `LeaveHandler` |
| one turn of the main loop | `GetByte`, `GetNothing`, `ReportOverflow` then `ClearOverflow` |
| a whole frame | `DecodeFrame` (and the clearing of `timestep_finished`), `EnterCritical`, `StoreFrame`, `WaitForTimestep` |

The driver's reads and writes never fail, so `noc_error` stays clear and its branches cannot be reached.

### UartApp against the code

The gates `output_critical_enter/exit` are `Gate` and `Ungate`; an enabled pending interrupt is taken before main's next step (`At`). `app` holds the fields of `g_uart_app`
that decide anything; the shell's own byte buffer is `RingBuf`, and a command arrives whole or not at all.

| Code | Action |
|---|---|
| `uart_app_init` | `Boot`, `Returned` |
| `uart_app_poll_command` | `BeginPoll`, `Echo` |
| `uart_app_process_command`, `send_frame`, `send_user_frame` | `BeginCommand`, `Decide` or `NotSent`, `Store`, `LeaveCommand` |
| `release_timed_out_response`, `response_busy`, `begin_response` | `AfterRelease`, `Busy`, `AfterBegin` in `Decide` |
| `uart_app_service_received_data` | `BeginService`, `Service` |
| `paicore_noc_handler`, `handle_noc_frame` | `EnterHandler`, `HandlerReads`, `LeaveHandler` |

Two constants state what the run assumes beyond the code. `CleanIrq`: an answer raises the interrupt once, at its end; the shell acknowledges on entry only, so one that is raised again during the drain
starts the handler a second time with nothing to read. `Patient`: commands the shell does not guard are typed only when nothing is outstanding; INIT, which it does guard, and `clear` are typed at any time.
`uart_shell_order` has no patient user.

### SnnUart against the code

A token of the line is a letter of the magic or of a payload, or the 44 header bytes behind a magic; checksums detect every damage (a damaged header says anything about length and number). `late` is whether the deadline in
force has passed; it may pass at any poll. `snn_head.c`'s chain of layers is one step that may fail (`Infer`): its deploy, run, release sequence is among the call sequences of `Runner`.

| Code | Action |
|---|---|
| `read_header` | `ScanByte` (with the fallback table), `ReadHeader` |
| the length checks, the payload, the checks of it in their order | `ReadHeader`, `ReadByte`, `CheckPayload` |
| `uart_read_bytes` at the deadline: a byte is popped before the clock is read | `ReadTimesOut` |
| `reply_error`, the ACK, the inference, the RESULT | `ReplyError`, `SendAck`, `Infer`, `SendResult` |
| `uart_write_bytes` at the deadline | `WriteTimesOut` |
| the loop of `main`, with the text and the halt of diagnostic builds | `Return`, `Halted` |

## 3. Properties

Session:

* `TypeOK`: types, no underflow of the step count, no receive buffer beyond `rx_capacity`.
* `SoleOwner`: a session has an artifact exactly while it is `g_active_session`.
* `HandlerServesCaller`: the handler works only for the call main is blocked in; a barrier is active for exactly the length of it.
* `HonestTimeout`: TIMEOUT is never returned for a completed barrier.
* `HealthyIsQuiet`: between calls, a session that is not faulted has left nothing in the chip or FIFOs, so the next COMPLETE is its own.
* `TimelineAgrees`: `completed_timesteps` is the chip's time since the epoch began, except in raw mode.
* `AnswerDelivered`: an OK synchronisation has delivered the whole answer, in order.
* `OverflowIsReal`: OVERFLOW only for an answer longer than `rx_frames`.
* `WritesOnlyToQuietChip`: no frame is written by a faulted session, from a handler, or between a request and its COMPLETE.
* `NoLateDelivery`: outside calls, no receive buffer or handler data grows.
* `ImplementsService`: refinement of `SyncService`: exactly-once execution, OK only for one's own answer, true claims about time.
* `WaitReturns`, `EveryCallAnswered`: liveness.

Ring buffer: `TypeOK`, `NoSlotRace` (never both sides in one slot), `AvailableIsThere` (a count
returned to the reader is a count of bytes really present), `ImplementsQueue` (refinement of `ByteQueue`: FIFO order,
nothing lost or duplicated, FULL and EMPTY only when that was true during the call, reset discards).

Runner:

* `TypeOK`: types; no row, chunk or timestep beyond the sample.
* `OwnerIsDeployed`: a runner is deployed exactly while its session owns the chip, through deployments that fail at any point.
* `UnsentInputIntact`: rows that are still to be encoded hold the caller's input, also when outputs replace them in place.
* `SampleIsRight`: a sample that returns OK has computed every output row from the complete rows of this very sample on the runner's
  own configuration, with zero where the chip did not fire, whatever failed before it. The abstract statement "a sample is a function of its input".
* `RefusalIsDue`: a handler refuses a frame only for a row that was not submitted; lane state of a sample that failed half-way refuses nothing.

Sample layout: `UnsentRowsSurvive` (no byte stored for a timestep is an input byte of a later one), `StoresHitTheirRow` (each stored
byte lies in the buffer and in the row that was cleared for its timestep), `ReadsStayInside`.

Codecs:

* `InputIsExact`: however a row is cut into chunks, the frames sent are its spikes, each once and in order, and read back with the codec's decoders they give address, time and value; a call that fails
  has sent a prefix, and fails only for an entry without a frame.
* `OutputIsDelivered`: an element of a submitted row holds what the chip has put out for it and zero where that is nothing, whichever decoder is chosen, under stray frames of other kinds and axons. Its premise
  `StampsSuffice` (T timesteps fit the time stamp) is established by no line: `deploy` checks it for the input mapping only. In the views of the run there is one without it.
* `PathsAgree`: for frames of the mapping's kind the fast decoder stores, ignores and refuses as the generic one. (For frames of the *other* kind they differ: the generic handler refuses
  one stamped too early, the fast one passes over it.)

Relay:

* `FramesAreTheHosts`: the NoC receives the host's frames and nothing else, whole and in order, up to the first lost byte. After it the framing is shifted for good, and the property says nothing.
* `HandlerDrainsAnswer`: the handler leaves with the answer forwarded to its last frame.
* `SyncWaitIsExact`: the wait after a SYNC ends with the answer to this SYNC.
* `EveryRequestAnswered`, `EveryFrameForwarded`: liveness, up to the first lost byte.

UART shell:

* `OutputExclusive`: the handler never prints while the main loop does.
* `ReportIsOwn`: a report counts exactly the frames of the answer to the latest request. Given up after a response was released or cleared, until all is quiet again.
* `ControlIsOrdered`: no INIT or SYNC is sent while the COMPLETE of an earlier one is outstanding.
* `RequestConcluded`: every request is reported, released or cleared.

SNN head:

* `CleanRequestIsAnswered`: a request that begins while the board scans, behind bytes that cannot be mistaken for a magic, gets exactly the replies that are due, whatever went wrong before it.
* `ResultIsEarned`: ACK and RESULT only for a request that arrived whole, once each, and a RESULT only after the ACK, which is all that was said of its request before.
* `TransactionEnds`: liveness.

## 4. Runs

| Run | Instance | Shows |
|---|---|---|
| `session_two` | two sessions, `idle`, two-frame FIFOs and buffer | all invariants and action properties but `OverflowIsReal` |
| `session_service` | two sessions, `error`, one-frame FIFOs and buffer, core fairness | `ImplementsService`, `OverflowIsReal`; every wait returns |
| `session_wakeup` | one session, no time limit, chip fair | `EveryCallAnswered`: no lost interrupt |
| `session_stall` | one session, `stall`, core fairness | *violated*: a silent chip holds the core in the handler |
| `ring_buffer` | 4 slots, 2 byte values | all ring buffer properties |
| `runner` | two runners: A with two DATA elements, two chunks per row, latency 2; B with one VOLTAGE element of two lanes, latency 1; wrong time stamps | all runner properties |
| `runner_no_recovery` | one runner, DATA, one chunk per row, latency 2, no recovery | *violated*: OK with outputs that are not the sample's |
| `data_path` | 69 120 buffer layouts in 32 bytes of address space; 2 304 rows in chunks of 1 to 3 frames; nine output mappings under 72 stray frames | the sample layout's and the codecs' properties |
| `relay` | two-byte frames, two-byte ring and FIFO, three host frames, test responses of up to two frames | all relay properties |
| `uart_shell` | all ten commands that send, four typed, time limits and `clear` | all shell properties |
| `uart_shell_order` | INIT, WORK and SYNC typed at any time, no time limit | *violated*: two SYNCs outstanding |
| `snn_uart` | three builds, two requests of nine sorts, payload of two tokens, a FIFO of three | all SNN head properties |

Bounds. An answer has up to `MaxOut = 2` work frames and COMPLETE, one more than `RxCapacity = 2`, so a
buffer fits, fills exactly and overflows. `UpDepth` is smaller than an answer, so the chip waits for the
handler. `PayloadLimit = 1` with arguments up to 2 gives payloads of zero, at the limit and beyond it.
`MaxTime = 2` allows two successful synchronisations before a reset, in each order of modes, targets in
the past and targets equal to the present; it bounds the driven chip time (guard of `BeginControl`) and the enumerated targets,
nothing else. Two sessions are enough for every pair of owner and
contender; both proofs and symmetry treat sessions alike. In the ring buffer three usable slots and two values let head and tail wrap
in every relative position; the byte values tell reordering and duplication apart.

In the runner two timesteps are the least for which there is a row before and a row after; two chunks, so that a row can be half
sent; two samples, so that one can follow a failure, and the labels tell them apart. Latency 2 is the least with outputs that come out
after the last input; latency 1 has no completing synchronisation, and both occur. FIFOs are shorter than an
answer, so that frames are left in the chip as well as in the FIFOs when a barrier fails. `MaxSamples` is a guard of `BeginSample`.
In `data_path` sizes, strides and addresses are chosen around the row size, the alignment and the end of
the address space, so that sums wrap. Rows have four entries over three bytes, with dtypes of one, two and eight bits of either sign, values at and beyond their limits, axons, ticks and offsets at and
one past theirs, and timesteps at the wrap of the time stamp; capacities from one frame to more than half of the row cut it everywhere. Output mappings are regular (both kinds, one with a second group), permuted, sparse,
with addresses beyond the axon field, with missing elements, with T exactly filling the time stamp and with T one too large. The three components share no state, so the run explores them one at a time.

In `relay` a frame is two words of one byte: framing needs a word order and a first and second byte, not four of each. The ring buffer holds exactly a frame and the UART's FIFO as much, so bytes are lost when main is kept away.
The uplink FIFO is shorter than the longest answer. Three frames are a request, its successor and one more. In `uart_shell` four commands are enough for one that is pending, one that is released or closes it, and the next two.
In `snn_uart` the second request follows every way the first can go wrong; payloads that are short, long, long with a magic inside or with the beginning of one are among them. `MaxFrames`, `MaxCommands` and `MaxRequests` are guards of the
host, the user and the client.

What the environment is assumed to do. `Pipelined = {"init", "sync"}` and `InitOut = 0` in `relay`: the host sends data while it waits for an INIT or a SYNC, but not
during a test response. If it does, the bridge can deadlock: main stores a word into a full downlink with all interrupts masked, the chip takes no frame while it answers, and its answer does not fit the uplink that only the masked handler empties.
The same happens with work frames in the answer to INIT. The repository does not say how deep the FIFOs are, nor that a host must not do this.

Deadlock is checked in every run, as a caller can always call, except in `data_path`, where a call returns and that is all, and in the shell's two runs: commands are bounded, and after a response was released the
handler may wait for a frame that never comes.

Fairness. Safety runs have none. `CoreFairness`: the core executes the program it is in, and takes an
enabled pending interrupt; weak fairness of each of these actions is what a running core does. Callers
need not call, and the chip may stop. `LiveSpec` adds weak fairness of the chip, for the one question that is about
the core alone (is a wake-up lost?), and there `ClockRuns = FALSE` removes the timeout that would hide a lost
interrupt. `session_service` and `session_stall` use `CoreSpec`: the chip may be silent and the clock runs. `relay` assumes weak fairness of both handlers, of main, of the chip, and of a host that
finishes the frames it began and reads its line; it need not begin any. `uart_shell` assumes the same of the core and the chip, and strong fairness of the report step that finds the time limit expired: the clock runs, main polls for ever, and so a limit that is
exceeded is seen at some poll. `snn_uart` assumes only that the transaction proceeds when it can and that the clock runs.

### What the violated runs say

* `session.h` documents `timeout_ms` as the "Maximum wall-clock wait". The limit is tested by `wait_rx_barrier` in
  main; `paicore_noc_handler` loops until `completed` and cannot be left otherwise. If a read of the empty FIFO waits for a frame,
  a chip that raises the interrupt and stops in the middle of its answer keeps the core there. With `idle`
  the same happens whenever an RX handler is installed, as idle words then never fill the buffer. Only the mock's reading, where the
  read fails, ends the loop (`session_service`).
* `Lib/runtime/README.md:115` tells callers to deinitialise and initialise the session after an unrecoverable error. `rvrt_session_deinit` flushes
  nothing. In the counterexample a barrier times out, the runner is deployed again, and the late COMPLETE answers the new
  INIT; from there each barrier is answered by the COMPLETE before it, and the sample returns OK before its last row is
  there. `session.h` names the missing step (platform recovery); with it, `SampleIsRight` holds in the other run. `snn_head.c:143-147`
  releases and later deploys again without it.
* `uart_app.c:206-207` says that the shell enforces the completion ordering of INIT and SYNC. WORK, SYNC, SYNC defeats it: the first SYNC closes the WORK response and begins none of its own, so the
  state that let it pass lets the second pass as well. With users who wait for the WORK's response after its SYNC the ordering holds (`uart_shell`).

Two expectations of the host tests also describe an earlier version of the code (they name a member that no longer exists): `test_runtime_control.c:282-283` expects OVERFLOW of a reset with a long answer, where the code discards the
frames of a reset before COMPLETE, and `:410-411` expects a send after a timeout to succeed, where the code refuses sends of a faulted session, as `session.h` says.

## 5. Proofs

For all constants that satisfy the modules' assumptions: any set of sessions or runners, any artifacts, any positive capacities, any way to read
an empty FIFO, any ring of at least two slots and any alphabet, any word size and order on the relay's line, any mapping the artifact reader admits.

### Session

`SessionProofs`. The inductive invariant is
`Ownership == TypeOK /\ Detached /\ Attached /\ Engaged /\ IsrEngaged /\ TimedOut`. None of the invariants of interest is
inductive alone. `SoleOwner` needs to know that what is not the owner is cleared storage (`Detached`); that a
call in progress belongs to an owner that is not faulted (`Engaged`) is what keeps `deinit`, which would clear it,
away; that the handler runs only inside a control call on a barrier not yet complete (`IsrEngaged`) is what makes
its writes harmless; `TimedOut` remembers why a timed-out barrier stays incomplete until its session is
detached. After the typing lemmas of the driver and the chip there is one lemma per action, then
`OwnershipInvariant`, and from it `TypeCorrect`, `OneOwner`, `HandlerConfined` and `TimeoutsHonest`.

The second part adds `Requests == OneRequest /\ HealthyIsQuiet /\ NotYetAsked /\ Drained`, inductive
together with `Ownership`: where the request is between the write of its control frame and its COMPLETE.
`OneRequest` (at most one control frame, the last thing written; a COMPLETE only as the last thing emitted) is what makes
the first COMPLETE the handler sees the caller's own; `NotYetAsked` covers the step
between `start_rx_barrier` and the write; `Drained` carries "completed without an error, so nothing is left" from the handler to
the poll that returns OK, where it becomes `HealthyIsQuiet`. Results: `QuietBetweenCalls`, `WritesToQuietChip` and
`NothingArrivesLate`.

`ServiceProofs`. `Timeline` relates three clocks: the session's count, the chip's time and the caller's target. `TimelineAgrees` speaks of moments between calls and is
not inductive; the missing part is what happens inside of one. A control frame anywhere in the FIFO, even one left by a call that timed out, is that of the
latest call (`RequestIsTheCalls`), with the steps that the checks computed before the interrupt was enabled (`Planned`, true still when the call ends, as nothing
else may write the session meanwhile). Until the chip takes it, the count is the chip's time (`CountHolds`); afterwards the chip is where the call is about to say it is
(`Executed`). Result: `CountsTimesteps`.

`Refinement` is `Spec => ImplementsService`, under the mapping of `SessionProperties`. Each action is shown to be a step of `SyncService` or a stutter: the write of the control frame asks, the chip's
taking of it executes, its COMPLETE answers, the poll that sees the completed barrier or gives up returns. That OK returns the answer to the client's *own* request is
`OneRequest`; that a reset or a synchronisation is executed with the client's number is `RequestIsTheCalls`; that the claim made after it is true is `CountHolds`.

`Answers`, inductive together with all of the above, follows one answer through FIFO and handler. What the handler has taken is a prefix of what the chip has emitted and the uplink holds the rest (`RestInFifo`);
the prefix is in `rx_frames`, with the words of an empty FIFO in between (`Buffered`), or was handed to the RX handler without its COMPLETE (`Handed`); an overflow means that the answer is longer than the buffer, and a faulted
session leaves it so (`OverflowKept`). `DeliveryKept` carries the result past the return. Results: `DeliversAnswers` and `OverflowsAreReal`.

### Byte ring buffer

`RingBufProofs`. The invariant relates the locals of each side to the shared indices: the writer's `head` is the
head, the reader's `tail` the tail, the slot being stored is free, the one being fetched is occupied, and a stale
count never exceeds what is there. From it `TypeCorrect`, `SlotRaceFree`, `AvailableIsSound` and
`Refinement`: `Spec => ImplementsQueue`, for every size.

### Runner

`RunnerProofs`. `RunnerInvariant` adds to `OwnerIsDeployed` and `UnsentInputIntact` what the number of submitted rows is at each place of the sample's
loop (`RowsSubmitted`): the row being sent before its synchronisation, one more after it, and the last one while the pipeline is completed. That is what makes
the check of a frame's time stamp against `submitted` protect the rows still to be sent, with no assumption about the chip: its frames may be stale, early or wrong.
The last synchronisation is never short of T because a pipeline latency is at least one. Results: `OwnershipIsDeployment` and `InputSurvives`.

Samples. `SampleIsRight` speaks only of the moment a sample returns OK; the inductive invariant `SampleInvariant == RunnerInvariant /\ LinkInvariant` says why it will be. On the link:
between barriers nothing is on its way but configuration and input (`Resting`), and inside of one the request is the last frame down, or the chip is busy with it, or its COMPLETE is the last frame up
(`Asked`, `Answering`, `Answered`) - so a barrier that completes has left the link empty, and a healthy session's configuration is the runner's own or is on the way behind every other (`ConfigComes`). Of the sample: of the current row some chunks are on the chip and the others in the
FIFO, each once and in order (`InputsArrive`), the two clocks agree with the loop (`Clock`), what the chip has computed is labelled with this sample (`Computed`), and each frame of a row that has been due is either on its way or stored, never both
(`FramesAreDue`, `Assembled`). The last is what makes a lane arrive once, so that the lane mask refuses nothing: `RefusalsAreDue` follows, as a property of steps. `Earned` keeps the result after the return.
`TypesHold`, `SamplesAreRight` and `RefusalsAreDue` have the hypothesis `Recovered`: callers recover the platform before they deploy after a failure, as `session.h` demands. It is not removable: `runner_no_recovery` is the counterexample.
The chip is otherwise free: any order of outputs, any timestamps within what is due or early, any moment to stop.

### Data path

`DataPathProofs`, sample layout. For every `SizeMax` and every set of layouts. From the guard `timesteps - 1 <= (SizeMax - row) \div stride` follows
that the sum after it does not wrap, so the region of each row lies in its buffer; word addressing of aligned rows is byte
addressing (a multiple of four divided by four and multiplied again). Disjoint regions then have no byte in common; in place,
equal strides put timestep t's outputs and timestep u's inputs into different intervals of one stride each. Results:
`InPlaceIsSafe`, `StoresAreConfined`, `ReadsAreConfined`.

Frames and decoders. A time stamp is timestep * 2^lcn + tick below 256, so both parts come back by division; the three fields of the low word likewise; sign extension
undoes the narrowing of a value that fits; the address keeps the tick of the stamp in front of the axon. Together: `SpikeRoundTrip`. For the decoders, a regular
layout has as many keys as elements and every canonical axon is a key; canonical axons are distinct, so (a counting argument) the keys are exactly these. The generic
look-up of any address then finds an element exactly when the arithmetic of the fast decoder does, and the same one. Result: `FastEqualsGeneric`.

Encoder. `Encoded`: what was sent and what waits in the workspace are the spikes among the entries before the cursor. A full buffer steps the cursor back to the entry it has read but not encoded, which is the step a wrong
cursor would make visible; `SendWorkspace` moves frames and changes no concatenation; `SpikeRoundTrip` reads each back. Result: `InputsAreExact`, for every row that passes `ReadableRow` and every capacity. "The frames are the spikes" is stated with an increasing map from frames
to entries, which needs no recursion.

Decoder. `Delivered`: submitted rows hold what the chip has put out, rows not submitted have been put out nothing, and `received_mask` of a voltage is the set of lanes put out (a completed mask is cleared, and
then no lane comes again). Between the two stand the address arithmetic of `FrameOf` and the decoders' inverse of it, where a lane's bits must not disturb the element's (`Wired`), and the frames that are for no element,
which both decoders must pass over. Result: `OutputsAreDelivered`. It needs `WiringAssumption` on the chip, stated in `OutputCodec`: an element that fires has an axon, its address fits the frame, and the lane bits of a
voltage's axon are zero. The compiler that writes artifacts promises this, and no line of the reader checks it.

### Relay and shell

`RelayProofs`. The invariant `Framing` speaks of all buffers at once: what is in `frame_bytes`, the ring buffer, the UART and still with the host, in this
order, is the bytes of the host's frames after those written (`Stream`, which says it of the bytes that frames take on a `Wire`). Each interrupt and each turn of main moves bytes from the front of one buffer to the end of the one before it, which leaves the
concatenation alone; only a new frame of the host makes it longer, by exactly a frame, and only a store makes it shorter, by exactly its first frame, which `Decode` reads in either word order.
It is given up with the first lost byte. Result: `FramingSurvives`.

`Ordered` is about answers, and needs `Framing`: that the frame main decodes is the host's next one makes `kind` the kind the host sent. The host's latest request is still on its way or its answer complete (`Resting`), the only one in the downlink
FIFO (`Asked`), or with the chip and the handler (`Answering`); in the last, what is in the uplink FIFO and what the chip has left is what the handler counts down to, before the header (`WholeTest`) and after it (`TestTail`), or ends
in the one COMPLETE (`ControlTail`). The line to the host is whole frames of which at most the last ends an answer (`LineOpen`, `LineEnds`), so the host stops waiting, and may ask again, exactly when handler, chip and FIFOs are at rest. A SYNC on its way has
cleared `timestep_finished`, and no handler is left to set it for an earlier request (`Awaited`). Results: `HandlerDrains` and `SyncWaitsExactly`, for every answer length, FIFO depth and word size. They rest on what `Relay` takes for granted of the two sides that are not in
the repository: the host asks again only after it read the last frame of the answer, and no frame after a header looks like a header or a COMPLETE.

`UartAppProofs`. `Gated`: while main prints, the interrupt is disabled and the handler is not running. It is the pairing of `Gate` and `Ungate` around every output of main, through every branch of a command that refuses, sends or reports.
Result: `OutputsDoNotMix`.

`Order` adds where the latest request is, for as long as no response was given up: not written yet (`Unsent`), the only request in the downlink FIFO (`Asked`), with the chip (`Answering`), or answered, with the rest of the
answer in the FIFO and the handler at work or due (`Answered`). In each, what has been counted and what is still to come add up to what is expected, or to the one COMPLETE at the end; that is what makes the handler stop at the
last frame and not before. Main is kept from a due interrupt only where it prints, and then a frame is waiting (`Interrupts`), so a report is never made between an answer and its handler; what a patient user saw when typing
still holds when the command is decided (`Chosen`). Results: `ReportsAreOwn` and `ControlsAreOrdered`, for any answer lengths, FIFO depths and number of commands. Two hypotheses, which the run `uart_shell` shares: the interrupt is raised once
for each answer (`CleanIrq`), and everything but CONFIG, INIT and `clear` is typed only when no response is outstanding (`PatientUser`). Neither is removable: the handler acknowledges on entry only, and `uart_shell_order` is the counterexample for an impatient user.

### SNN head

`SnnUartProofs`. `ResultIsEarned` relates what the board says of a request to what it has read of it, which the line between client and board decides. The inductive invariant is `Earned`. Of the line: the bytes of a request are in one piece, behind those of
every earlier request, at most a magic before its header and at most its body after it (`LineOrdered`); bytes that are lost only bring the others closer together (`Thinned`), so no loss and no interruption by the client can make a request longer than it was. Of
the payload: as long as only bytes of the request itself were read, no more of them are to come than the payload lacks (`Arriving`), so a payload whose checksum is right leaves nothing of the request on the line, and the board can never find it a second time
(`Served`). Of the header: a board that took the beginning of a request for a header, and says something about the request's number, has eaten a letter of its magic: the letters seen and those to come are too few for the scan to find it (`Spoilt`, with
`ScanAdvances` about the fallback table). `Current` says the same of the transaction in hand: once its header is read, no header of that number is on the line, and nothing was said of it before its ACK. Result: `ResultsAreEarned`, for every build, payload length, FIFO depth and any mix of
requests: good, short, long, damaged, with anything in their bodies, interrupted anywhere.

`CleanRequestIsAnswered` is the other direction: what is due does come. The inductive invariant is `Tended`: a clean request is in one of the stages `Ahead` (all of it on the line, behind bytes the scan will read past), `Matching` (part of its magic read),
`Headed`, `Filling` (what was read of the payload is the beginning of its body, the rest is next on the line), `Handled` (the replies are being made) and `Answered`. The bytes ahead of the magic are carried by a sequence of scan
positions, one for each byte and none at the end of a magic (`Skips`), which exists because the request was harmless to them when it was sent (`HarmlessSkips`). The position the board is really at may differ from it, as a header
token also takes the scan back to the start, but only in ways that still find the magic (`Border`, `MagicScanned`). Behind the request, what a later interruption leaves unsent is only of the last request (`RestOwned`), and the line is in
order (`Earned`), so nothing gets between its bytes. A request whose length was refused leaves its body on the line, yet what is said of its number stays what was due (`Answered` with `ResultIsEarned`). The scan positions are a
recursive function, and the facts about them are inductions on the number of bytes: the library's induction theorems cannot be instantiated with an operator here, so `LeastNumber` takes the least counterexample of a set of naturals
from the well-foundedness of the finite sets, and `Upwards` is induction over `0..l` as a statement about sets. Result: `CleanRequestsAreAnswered`, for the same constants. Both invariants are held by TLC on the instance of `snn_uart`.

### Only model-checked

* Liveness (`WaitReturns`, `EveryCallAnswered`, `EveryRequestAnswered`, `EveryFrameForwarded`, `RequestConcluded`, `TransactionEnds`): fairness and ENABLED are out of the prover's reach.

## 6. Plan

1. *(done)* Noc, Session, SyncService; RingBuf, ByteQueue; ownership and ring buffer proofs.
2. *(done)* `Runner` with the chunk loop of `session_io.c`; `SampleLayout` and its proofs.
3. *(done)* The frame codec: `WorkFrame`, `InputCodec`, `OutputCodec`.
4. *(done)* `Relay`, `UartApp`, `SnnUart`.
5. *(done)* Proofs: ownership, outstanding requests, timeline, refinement and answers of the session; the ring buffer; the runner's samples; layouts, encoder and decoders; the relay's framing and the order of its answers; the shell's output and the order of its requests; what the SNN head acknowledges and computes, and that it answers a clean request.
   Every safety invariant and action property of the runs is stated by a theorem.

## 7. Not modelled, and why

* **Missing lanes.** `run_sample` returns OK for a VOLTAGE sample of which lanes are missing. The model's chip sends all lanes before COMPLETE; a statement about lost frames needs a promise about
  the NoC that the repository does not make. The same holds for a lane that is repeated after its element is complete, which restarts the element, and for raw test frames that look like a header or a COMPLETE.
* **Layers of the SNN head** (`snn_head.c:106-230`). Arithmetic between deployments; here a step that may fail.
* **Reader and kernels.** FlatBuffers verification is stateless; what it guarantees is an assumption of the codec modules. Kernels are numerical functions without a protocol.
* **Hardware access.** UART registers beyond the receive drain, start-up code and the interrupt controller; their effect is an assumption (registration may fail; an enabled pending interrupt is taken).
* **Line editing, help, status, log levels** of the shell; statistics and profiling of the runtime: they change nothing but themselves.
* **FreeRTOS variants** of the NoC critical section are not built into the bare-metal runtime.
* **Vendored and generated code.** NMSIS, FreeRTOS, RT-Thread, the Nuclei SDK, benchmarks, golden test data and FlatBuffers accessors are more than nine tenths of the repository's lines. They
  have no behaviour of PAIRV's own, so most of the repository's lines are outside of any model here; the code that is PAIRV's protocol logic is inside.
