# TLA+ models of the binder interface pairs and the VPU encoder

This directory holds the TLA+ specifications kept beside the code under
`src/`, the TLC configurations that check them, and `PROJECT.json`. That file
records every component, run, mutant, source mapping, finding and hazard.

## The system

The repository has five source files:

| file | part | lines |
|---|---|---|
| `base/media/libmedia/IMediaPlayer.cpp` | proxy `BpMediaPlayer` and dispatcher `BnMediaPlayer::onTransact` of the 29-method IMediaPlayer interface | 522 |
| `base/libs/surfaceflinger_client/ISurface.cpp` | proxy `BpSurface` and dispatcher `BnSurface::onTransact` of the 8-method ISurface interface | 266 |
| `base/media/libstagefright/codecs/vpu/enc/VPUEncoder.cpp`, `include/VPUEncoder.h` | a MediaSource wrapping a hardware video encoder | 935 |
| `base/core/jni/android_net_Ethernet.cpp` | JNI glue forwarding commands to an ethernet driver library | 278 |

`spec.md` describes the cross-process invocation protocol:

1. A proxy writes the interface descriptor and its arguments into a Parcel, then calls `transact(code, data, &reply, flags)`.
2. The transport hands the Parcel to a worker thread of the server process.
3. That worker runs `onTransact`. `onTransact` checks the descriptor (`CHECK_INTERFACE`), switches on the code, decodes the arguments, calls the implementation and writes the results.
4. Unless the call is oneway, the reply travels back. The proxy then reads the reply in the same order.

The Parcel, the transport and `BBinder` are outside the repository. They are modelled from spec sections 4.1–4.3, 5 and 7, and every definition taken from the spec is marked `spec_modelled` in the map.

### State and operations per component

- **Parcel** (`Parcel.tla`, from the spec)
  - State: a sequence of fields and a data position.
  - Operations: `Write` overwrites the field at the position or appends; `SetDataPosition`; `ReadField` returns `UNDERFLOW` past the end, as spec 4.1 requires ("never silently returns zero"). The platform's `Parcel::readInt32` returns 0 there instead. No property depends on which: a proxy that reads its status from an empty reply returns something other than the failure either way, and `StatusTruthful` is violated either way.
- **Interface contract** (`IMediaPlayer.tla`, `ISurface.tla`)
  - The descriptor, plus the transaction enum, dense from `FIRST_CALL_TRANSACTION` in declaration order.
  - The two interfaces' codes overlap: code 1 is DISCONNECT for IMediaPlayer and REGISTER_BUFFERS for ISurface.
- **Proxies**
  - Each method writes a fixed list of fields (`BpMediaPlayerArgs` / `BpSurfaceArgs`, as kinds int/float/binder/caller-parcel), transacts, and reads a fixed layout (`BpMediaPlayerReads` / `BpSurfaceReads`).
  - Special cases:
    - `captureCurrentFrame` reads the status first and returns NULL on failure.
    - `invoke` and `setMetadataFilter` send a Parcel the caller built; the descriptor is present only if the caller wrote it.
    - `getMetadata` returns the reply to its caller after reading the status.
    - `requestBuffer` fills a newly constructed `GraphicBuffer` from whatever the reply holds.
    - `createOverlay` reads an `OverlayRef`.
    - `postBuffer` is oneway.
- **Dispatchers**
  - Each case runs `CHECK_INTERFACE`, then decodes its arguments, runs the method, writes its reply fields (`BnMediaPlayerReply` / `BnSurfaceReply`) and returns NO_ERROR.
  - Special cases:
    - Arguments read inside one call expression (`BnMediaPlayerCallArgDecode`) are decoded in an unspecified order.
    - GET_METADATA writes the status at position 0, over the implementation's data.
    - INVOKE ignores the status.
    - ATTACH_AUX_EFFECT ends in `break` and falls to `BBinder::onTransact`.
    - REQUEST_BUFFER returns BAD_VALUE for a NULL buffer.
    - An unknown code goes to `BBinder::onTransact` (UNKNOWN_TRANSACTION).
- **Transport** (`BinderIPC.tla`, from the spec)
  - Transactions in flight form a set, and the worker pool takes them in any order.
  - A failing `onTransact` sends back its status without reply data.
  - A oneway reply is dropped.
  - If the server dies, every pending twoway call fails with DEAD_OBJECT, and later calls fail at once.
  - The server also dies inside GET_TRACK_NAME when `getTrackName` returns NULL: `writeCString` takes `strlen` of it (IMediaPlayer.cpp 503-508).
- **VPUEncoder**
  - State: `mInitCheck`, `mStarted`, `mGroup` (one output MediaBuffer), `mInputBuffer`, `mNumInputFrames`, `mPrevTimestampUs`, the encoder handle and frame buffers.
  - Operations: constructor, `start`, `stop`, `read`, destructor.
  - It interacts with a consumer, which gets output buffers from `read` and releases them back into `mGroup`.
  - Modelled in `VPUEncoder.tla`.
- **Ethernet JNI** (`EthernetJNI.tla`)
  - State: the `dhcpInfoFieldIds` cache (set once by registration, or left without the DhcpInfo class), the `DhcpInfo` a lease was copied into, and the last native call with its conversions.
  - Operations: registration and every native method. `doCommand` gives the driver `replybuflen - 1` bytes, strips one trailing newline and terminates the reply; `doBooleanCommand` compares it with the expected word; `getMacAddressCommand` parses it with `sscanf("%*s = %255s")`; `doDhcpRequest` casts the status to `jboolean` and fills `info` only when the field IDs were found.
- **YUV420 conversion** (`YUV420.tla`)
  - `ConvertYUV420SemiPlanarToYUV420Planar` (VPUEncoder.cpp 47-75): copies the luma plane, then reads the interleaved chroma four bytes at a time as a little-endian `uint32` and stores two `uint16` halves, one into each output chroma plane, flipping U and V.
  - No code in the repository calls it; it is checked on its own.

## Modules

| module | models |
|---|---|
| `Parcel` | the message buffer (spec 4.1) |
| `Binder` | status codes, `CHECK_INTERFACE`, the default `BBinder::onTransact`, argument decoding order, reply layouts |
| `IMediaPlayer` | the IMediaPlayer enum, every `BpMediaPlayer` method's request and reply reading, `BnMediaPlayer::onTransact` as a function of (code, data, implementation outcome, evaluation order) |
| `ISurface` | the same for ISurface |
| `BinderIPC` | the composed system: clients calling either proxy on any object, a transport, the server's dispatchers, server death |
| `MC_BinderIPC` | model values and definitions for TLC |
| `VPUEncoder` | `VPUEncoder.cpp`: both constructors with `initCheck`, `start`, `stop`, every path of `read`, the destructor, a consumer returning buffers, and the physical and virtual memory of the bitstream and frame buffers |
| `MC_VPUEncoder` | the MIME types, hardware outcome and allocation outcome sets for TLC |
| `EthernetJNI` | `android_net_Ethernet.cpp`: registration and every native method, with the driver library's status and reply as nondeterministic choices |
| `MC_EthernetJNI` | the reply alphabets and driver statuses for TLC |
| `YUV420` | the conversion loop, its two counters and three pointers, and the planar frame it should produce |
| `MC_YUV420` | the frame sizes for TLC |

### State and actions of `BinderIPC`

Variables:
- `pc[c]`: whether client `c` is idle or blocked in a twoway transact.
- `call[c]`: the call `c` is making.
- `txs`: the transactions in flight.
- `reply[c]`: the reply delivered to `c`.
- `alive`: whether the server is alive.
- `ncalls[c]`: how many calls `c` has made, bounded by `MaxCalls`.
- Two history variables: `invoked`, every implementation method that ran, with what its proxy sent; `returned`, every call that returned, with what the implementation produced. `Returned(c)` builds that record as the proxy method returns. Its `borrows` field names the reply Parcel the result points into: `getTrackName` returns `readCString`'s pointer, not a copy (`BpMediaPlayerBorrowsReply`). `ProxyReturn` releases the reply, which is the end of the method's local `Parcel reply`.

Actions:
- `ProxyCall(c, o, i, m, ref, withToken)`: the proxy method up to `transact`, for any object `o` used through any interface `i`.
  - `ref` is the object reference passed where the method takes one.
  - `withToken` says whether a caller-built Parcel carries the descriptor.
- `Dispatch(t)`: one worker runs `onTransact` for the transaction `t`.
  - The implementation's outcome comes from `ImplResults`: its status, for REQUEST_BUFFER whether it returned NULL, and for GET_TRACK_NAME on a media player whether `getTrackName` returned NULL.
  - A NULL track name kills the server after the method ran (`BnMediaPlayerWritesNull`): every waiting caller gets DEAD_OBJECT (`DeadReplies`), as in `ServerDeath`.
  - The argument evaluation order comes from `ArgOrders`.
- `ProxyReturn(c)`: the proxy method after `transact`. It decodes the reply and returns.
- `ServerDeath`: the server process dies.

### State and actions of `VPUEncoder`

Variables:
- `obj`: whether the object is constructed, destroyed, or the process aborted on a `CHECK`.
- `pc`: whether a `read` is in progress and waiting for the output buffer.
- `vpu`: whether the VPU library is initialised (`vpu_Init`/`vpu_UnInit`).
- `initCheck`: `mInitCheck`, or `UNSET` when no constructor path assigned it.
- `handle`: whether `mEncHandle` is open.
- `mime`: the MIME type `initCheck` saw.
- `ptr[p]`: for each pointer the destructor deletes, whether it is unassigned, live or freed.
- `started`: `mStarted`.
- `outBuf`: the one buffer of `mGroup` (none, free, held by `read`, delivered to the consumer).
- `frames`: `mNumInputFrames`.
- `prevTs`: `mPrevTimestampUs`.
- `srcTs`: the next timestamp the source can give.
- `reads`: how many reads have been made, bounded by `MaxReads`.
- `out`: the buffers handed to the consumer.
- `faults`: undefined behaviour the code reached.
- `bitstream` and `frameBufs[i]`: the `VPUMemory` of `mBitStreamBuffer` and the `VPUFrameBuffer`s of `mFrameBuffers`, i.e. whether the object exists and whether it holds its physical (`IOGetPhyMem`) and virtual (`IOGetVirtMem`) mapping. `FrameIds` is `0..MinFrameBuffers`, because `allocFrameBuffers` takes `minFrameBufferCount + 1`. The last buffer is the source frame.
- `fbRegistered`: whether `vpu_EncRegisterFrameBuffer` succeeded for the open encoder. `start` ignores its status (`regOk`), and `stop` closes the encoder.

Memory operators:
- `NewMemory` and `NewFrameBuffer` are the two constructors. When the virtual mapping fails, the physical memory is freed again.
- `Allocated` is the `mAllocated` flag.
- `Freed` is what the destructors free.
- `FreeFrameBuffersFaults` is `freeFrameBuffers`.
- Faults: freeing what is not held is `free_unheld`, and holding what is not freed is `leak`. Handing the VPU, or copying through, a mapping that is not held is `use_unheld`.

Actions:
- `Construct`: either constructor. `vpu_Init` and `vpu_GetVersionInfo` may fail, and then the constructor returns early.
  - Otherwise the MIME type is forced to AVC (source constructor) or taken from the metadata, and `InitCheck` runs. `InitCheck` returns BAD_VALUE for an unknown type, allocates, and opens the encoder, which may fail.
- `Start`: every early return of `start`. The MX27 rotation commands, `vpu_EncGetInitialInfo` and the frame buffer allocation use the handle.
- `Stop`: frees the frame buffers, releases `mGroup`, closes the handle.
- `Destroy`: the destructor's deletes, including the bitstream buffer, and `vpu_UnInit`.
- Memory in these actions:
  - `Construct` allocates the bitstream buffer and gives `vpu_EncOpen` its physical address.
  - `Start` allocates the frame buffers and registers the first `MinFrameBuffers`.
  - `ReadHeader` copies the headers out of the bitstream buffer, for MPEG-4 and AVC.
  - `ReadEncode` copies into the source frame and, on success, out of the bitstream buffer.
  - Every allocation may fail, as `AllocOutcomes` allows, and so may the registration.
  - `ReadEncode` runs `vpu_EncStartOneFrame` on the registered frame buffers. If the registration failed, that is the fault `use_unregistered`.
- `ReadCall` and `Acquire`: `read` blocks in `acquire_buffer` until the one buffer is free.
- `Read` has four paths:
  - `ReadHeader`: codec config.
  - `ReadSourceFailed`: the source returns an error or a wrong-size frame. The buffer is released.
  - `ReadRepeat`: a repeated timestamp gives an empty buffer.
  - `ReadEncode`: the `CHECK` on timestamps, then encoding. The hardware may fail in three ways, and the model merges them into one `"error"` outcome.
- `ConsumerRelease`: the consumer returns a delivered buffer. The buffer goes back to `mGroup` through `MediaBuffer::release`, which is not in the repository (`VPUEncoder::signalBufferReturned` is empty), so this action is spec-modelled.

### State and actions of `EthernetJNI`

Variables:
- `fieldIds`: `dhcpInfoFieldIds`: "unset" before registration, "cached", or "no_class" when `FindClass("android/net/DhcpInfo")` failed.
- `info`: whether a lease was copied into the `DhcpInfo` Java passed.
- `last`: the last native call, with the driver's status and reply and what the method made of them.
- `calls`: native calls made, bounded by `MaxCalls`.

Actions: `Register`, then one action per kind of native method: `DriverControl` (load/unload), `WaitForEvent`, `StatusCommand`, `BooleanCommand` (ping, disconnect, reconnect, reassociate, the driver commands, `setSuspendOptimizations`), `GetMacAddress`, `DoDhcpRequest`, `GetDhcpError`. The conversions are operators: `DoCommand`, `DoBooleanCommand`, `DoStringCommand`, `ScanMac` (sscanf), `GetMacAddressResult`.

### State and actions of `YUV420`

Variables: the frame (`width`, `height`, `in`), the output buffer `out` (bytes the code has not written are `UNWRITTEN`), the loop counters `i` and `j`, the byte offsets `inw`, `cbp`, `crp` that `inyuv_4`, `outcb` and `outcr` point at, and `pc`.

Actions: `CopyY` (pointer set-up and the luma `memcpy`), `OuterLoop` (the test of the outer loop), `Inner` (one word read, split into `tempU` and `tempV`, two halfword stores), `InnerDone` (`--i`).

## Runs

| run | cfg | expect | what it shows |
|---|---|---|---|
| protocol | `MC_BinderIPC_protocol.cfg` | pass | With left-to-right evaluation, every call runs only the method invoked (`InvocationFidelity`), with the arguments written (`ArgsRoundTrip`). It returns the implementation's results (`ReplyRoundTrip`). The run includes a oneway call followed by a twoway one, server death, and a server killed by a NULL track name. |
| roundtrip | `MC_BinderIPC_roundtrip.cfg` | violation | Spec 8's round trip (`RoundTrip`, i.e. `ArgsRoundTrip` and `ReplyRoundTrip` together), where the code leaves open the build's argument evaluation order and whether getMetadata reserves a status slot. The cfg sets both: right-to-left evaluation and no reserved slot. Arguments decoded inside one call expression reach the implementation swapped (SET_AUDIO_EFFECT, SET_VOLUME, GET_METADATA, SET_VIDEO_CROP). GET_METADATA's status overwrites the first metadata field. TLC's trace shows the first case, a swapped SET_AUDIO_EFFECT. |
| status | `MC_BinderIPC_status.cfg` | violation | The status a call ends with is not true of the call (`StatusTruthful`). `onTransact` answers UNKNOWN_TRANSACTION for an attachAuxEffect that ran. A failing invoke() is reported as NO_ERROR. Every proxy but `invoke` drops `transact`'s status, so a call that failed (DEAD_OBJECT, BAD_INTERFACE, UNKNOWN_TRANSACTION) returns a status read from an empty reply instead of the failure (spec 4.4). TLC's trace shows the last case, the shortest: setVideoSurface after the server died. |
| references | `MC_BinderIPC_references.cfg` | violation | Spec 4.5 on both sides of a call (`ReferencesUsable`). An IMediaPlayer reference reaches setVideoSurface as if it were a surface (`CapabilityChecked`). A refused or misdirected requestBuffer returns an empty GraphicBuffer, not NULL (`NoSilentEmptyObject`). TLC's trace shows the first case. |
| lifetime | `MC_BinderIPC_lifetime.cfg` | violation | `getTrackName` hands its caller a pointer into the reply Parcel it releases on return (`ResultsOutliveReply`). Spec 3 says a reply is discarded only after the caller has finished reading it. |
| vpu_stream | `MC_VPUEncoder_stream.cfg` | pass | Over every constructor, start, source and hardware outcome, the consumer gets the codec config first and once. Frame timestamps increase, an empty buffer only repeats a frame's timestamp (`OutputStreamWellFormed`), and the timestamp `CHECK` never aborts (`CheckHolds`). Whichever physical or virtual allocation fails, every mapping obtained is freed exactly once, and none is left once the encoder is destroyed (`MemoryReturned`). |
| vpu_liveness | `MC_VPUEncoder_liveness.cfg` | pass | With hardware that never fails, every read returns (`ReadReturns`). |
| vpu_hang | `MC_VPUEncoder_hang.cfg` | violation | A failed encode step keeps the only output buffer, and the next read blocks forever. |
| vpu_members | `MC_VPUEncoder_members.cfg` | violation | Members are used that no code path assigned, or that were closed (`MembersValidWhenUsed`). When `vpu_Init` fails, `start` reads an `mInitCheck` that was never assigned; the destructor deletes pointers no constructor or `start` assigned; `start` after `stop` drives the encoder handle `stop` closed. TLC's trace shows the first case, the shortest. |
| vpu_memory | `MC_VPUEncoder_memory.cfg` | violation | A failed `IOGetPhyMem` or `IOGetVirtMem` goes unnoticed, because only the private `mAllocated` flag records it. The VPU is then given, and `read` copies through, memory the encoder does not hold. A failed `vpu_EncRegisterFrameBuffer` is logged, `start` still returns OK, and every read encodes with frame buffers the VPU refused (`HardwareGivenReadyBuffers`). TLC's trace shows the shortest case: `vpu_EncOpen` gets the address of a bitstream buffer whose physical allocation failed. |
| yuv | `MC_YUV420.cfg` | pass | On every frame of the bounds, every word the conversion reads lies in the input chroma plane and every halfword it stores in its output plane (`AccessesInPlanes`); when the loops end the output is the planar frame with U and V flipped (`ConversionPlanar`). |
| ethernet | `MC_EthernetJNI_conversions.cfg` | pass | For every driver status and reply that fits its buffer, `doCommand` writes its terminator inside the buffer (`ReplyTerminatorInBuffer`); a boolean command succeeds exactly on the expected word with at most one newline (`BooleanCommandResult`); `getMacAddressCommand` returns the word after `=` cut at the width, else NULL (`MacAddressResult`, against the reference `MacAddressOf`); no lease is stored without the field IDs (`TypeOK`). |

The `findings` of `PROJECT.json` say what each violation means for the code.

Every property of the pass run is broken by a mutant of the code it is about, and each mutant is defined next to the operator it replaces:
- `ProxyReturnKeepsCall`: the call in progress is not cleared.
- `BnSurfaceOnTransactUnchecked`: the dispatcher has no `CHECK_INTERFACE`.
- `BpSurfaceRequestSwapped`: registerBuffers writes the strides swapped.
- `BnSurfaceReplySwapped`: getDestRect's reply fields are written out of order.
- `StopKeepsGroup`: `stop` does not delete `mGroup`.
- `HeaderDueOffByOne`: the codec config is due while `mNumInputFrames <= 0`.
- `IsRepeatFromSecond`: the repeat test starts one frame late.
- `ReadSourceFailedKeepsBuffer`: a source error returns without releasing the buffer.
- `OuterLoopHalfwords`: the inner count is `width >> 1`.
- `InnerWidePointers`: `outcb` and `outcr` declared `uint32_t *`.
- `VOfShifted`: `tempV` takes byte 2 where it should take byte 3.
- `DoDhcpRequestUnchecked`: the lease is copied without the `dhcpInfoClass` check.
- `ReplyCapacityFull`: `reply_len` is the whole buffer.
- `DoCommandStripsAny`: the last byte is dropped whether or not it is a newline.
- `ScanMacNoLiteral`: the ` = ` literal of the format is not matched.
- `NewMemoryKeepsPhys`: when the virtual mapping fails, the constructor keeps the physical memory (`MemoryReturned`).
- `FreedUnchecked`: the destructor frees without looking at `mAllocated` (`MemoryReturned`).

### Bounds and why they are enough

- The protocol run has one client, two calls, one media player `mp1`, one surface `s1` and one heap `h1`.
  - Every method of both interfaces is called through both proxies on both objects.
  - Each call is made with every object reference, and with and without the descriptor in a caller-built Parcel.
  - Two calls are enough for a oneway `postBuffer` to still be in flight while the next twoway call is dispatched and answered, in either order, and for the server to die at any point between them.
  - A second client adds no new case for these properties: they are about each call on its own, replies are delivered per client, and the dispatchers are pure functions of their input. (Two clients with one call each pass too: 1.1 million states in under two minutes.)
- The implementation status is NO_ERROR or UNKNOWN_ERROR. That is enough to tell "ran and succeeded" from "ran and failed".
- Arguments are the position tokens `a1..a8`. Swapped, dropped or shifted fields therefore change the decoded tuple, as spec 8's "exact round trip" requires.
- Each violation run uses one call. That is enough for its counterexample, and it keeps the traces short.

- The VPU runs use three MIME types (AVC, MPEG-4, H.263), which cover the header and no-header paths. `"error"` stands for the three failing hardware returns.
  - Timestamps are bounded by `MaxTs` 2, which is enough for a repeat and for an increase.
  - Four reads are enough for header, frame, repeat, and a read after a failed one.
  - The violation runs need at most three reads.
  - `MinFrameBuffers` is 1, so there are two frame buffers: one registered, plus the source frame. That covers both uses.
  - `vpu_stream` and `vpu_memory` take every allocation outcome: both mappings obtained, virtual failed, physical failed. The other VPU runs allocate successfully, so that their questions keep small state spaces.
- The Ethernet run scales the 256-byte buffers to 6 bytes and the 4096-byte one to 4. The cases the properties are about (a reply that fills the buffer with or without a newline, an empty reply, a reply of newlines) need only a few bytes.
  - Command replies are sequences over `OK`, `PONG`, `FAIL` and newline; MAC replies over `a`, `=` and space, enough for "a = a", "a =a", "a=a", no `=` and no value.
  - Driver statuses are 0 and -1, what the library returns. One native call per behaviour is enough, because every method reads only the cache `Register` set.
- The YUV run takes every frame with width a multiple of 4 up to 20 and even height up to 8 whose 1.5 * width * height bytes stay below 128. Every byte is then distinct and a `uint32` word fits TLC's integers. The encoder only accepts multiples of 16 (`initCheck`, VPUEncoder.cpp 280), so the loop counts of a real frame are multiples of those checked. The frames cover one to five words per row and one to four rows.

### Fairness

`BinderIPC`, `EthernetJNI` and `YUV420` have no fairness: their runs check invariants only. The protocol cfg sets `CHECK_DEADLOCK FALSE`, because a client stops after `MaxCalls` calls and nothing runs once the server has died. `YUV420` is a terminating loop, and its cfg sets `CHECK_DEADLOCK FALSE` for the end state. The Ethernet cfg does too, because Java stops after `MaxCalls` calls.

`VPUEncoder` has weak fairness on `Read`, because the thread blocked in `acquire_buffer` is woken when the buffer is returned. It also has weak fairness on `ConsumerRelease`: a MediaSource consumer returns each buffer it reads, and the MediaSource contract requires this.

There is none on the lifecycle calls, which the client may never make. Their cfgs set `CHECK_DEADLOCK FALSE`, because a destroyed encoder is a legitimate end.

Assumptions kept from the MediaSource contract:
- `read` is called only after a successful `start`.
- `stop` and the destructor run only when the consumer has returned its buffer.

## Not modelled, and why

- Parcel field widths and byte encodings. Every field is one cell, which is exact for the code's one overwrite, an int32 written over an int32 (GET_METADATA).
- The ethernet driver library (`ethernet_command`, `ethernet_wait_for_event`, `do_dhcp_request`). It is a nondeterministic status and reply. `waitForEvent` passes `buf` to `NewStringUTF` relying on the library to terminate it, and the `jboolean` cast of `do_dhcp_request`'s status matters only for statuses that are multiples of 256, which the library does not return.
- `doIntCommand`. It is defined but no native method calls it.
- VPU hardware calls and `mSource`. They are nondeterministic outcomes, not modelled code.
- The bytes of `FillHeaders` and the encoder parameters. These are data; the model keeps only that a codec-config buffer comes first.
- A second stream session after restart. `start` after `stop` fails on the closed handle (a `vpu_members` finding), so no second session exists in which `mPrevTimestampUs` surviving `stop` would matter.
- The YUV conversion on frames whose width is not a multiple of 4. The encoder rejects them, and no code calls the conversion.

## Plan

1. **Done: core protocol.** `Parcel`, `Binder`, `IMediaPlayer`, `ISurface`, `BinderIPC`, the protocol run and the six findings.
2. **Done: VPUEncoder lifecycle.** The two pass runs, and four findings: the read hang, the unset `mInitCheck`, the destructor's deletes, and restart on a closed handle.
3. **Done, then withdrawn: abstract RPC specification.** `RemoteCall.tla` was refined by `BinderIPC`, but its mapping took "ran" from the hidden fact that the method ran, not from what the caller is told, and its other parts held by the shape of the spec-modelled transport. It was removed with `ReplyMatchesCall` and `CallReturns`, which also held whatever the proxies and dispatchers do. `writeCString(NULL)` in GET_TRACK_NAME as a server crash stays.
4. **Done: Ethernet JNI and the YUV conversion.**
5. **Done: VPU memory.** The allocation outcomes of `VPUMemory` and `VPUFrameBuffer`, `MemoryReturned`, and the finding that allocation failures go unchecked (`vpu_memory`). The argument-order and metadata runs are merged into `roundtrip`.
6. **Done: reply lifetime and registration.** The `lifetime` run, for `getTrackName`'s pointer into a released reply. The ignored `vpu_EncRegisterFrameBuffer` status, checked in `vpu_memory`. The emptybuffer and capability runs are merged into `references`, one run for spec 4.5.
7. Not done, and why:
   - A refinement whose answer is what the caller is told. Every proxy but `invoke` drops `transact`'s status, so it would fail like `StatusTruthful` does.
   - `read` before `start`. The MediaSource contract rules it out.
   - A `do_dhcp_request` status that is a multiple of 256. The library does not return one.
