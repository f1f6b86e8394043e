----------------------------- MODULE VPUEncoder -----------------------------
(***************************************************************************)
(* The hardware video encoder MediaSource of                               *)
(* src/base/media/libstagefright/codecs/vpu/enc/VPUEncoder.cpp: its        *)
(* constructors and initCheck, start, read, stop and destructor, called by *)
(* one client thread, and a consumer that holds each buffer read returns   *)
(* until it releases it.  The VPU library, the MediaSource that supplies   *)
(* raw frames and MediaBufferGroup are external: their results are         *)
(* nondeterministic choices.                                               *)
(*                                                                         *)
(* Data is abstracted to what the code branches on: the MIME type, whether *)
(* the metadata is one initCheck accepts, the status of each VPU call, and *)
(* frame timestamps as small integers.  The one output buffer of mGroup is *)
(* "free" (in the group), "held" (acquired by read and neither released    *)
(* nor returned) or "delivered" (returned by read to the consumer).        *)
(***************************************************************************)
EXTENDS Integers, Sequences

CONSTANTS
  Mimes,       \* MIME types the (source, meta) constructor may be given
  HwOutcomes,  \* outcomes of encoding one frame: "ok" or a failure
  IsMX27,      \* cpu_is_mx27(): start sets the search RAM parameter
  MaxReads,    \* bound on the calls of read
  MaxTs,       \* source timestamps are 0..MaxTs
  AllocOutcomes,   \* <<IOGetPhyMem succeeded, IOGetVirtMem succeeded>>
  MinFrameBuffers  \* initinfo.minFrameBufferCount of vpu_EncGetInitialInfo

ASSUME "ok" \in HwOutcomes
ASSUME <<TRUE, TRUE>> \in AllocOutcomes /\ AllocOutcomes \subseteq BOOLEAN \X BOOLEAN
ASSUME MinFrameBuffers \in Nat

\* allocFrameBuffers(minFrameBufferCount + 1): the last one is the source frame.
FrameIds == 0..MinFrameBuffers
SourceFrame == MinFrameBuffers

\* status_t values, and the marker of a never-assigned member.
OK            == "OK"
BAD_VALUE     == "BAD_VALUE"
OPEN_FAILED   == "OPEN_FAILED"    \* the -1 initCheck returns at 399
UNSET         == "UNSET"

AVC   == "video/avc"
MPEG4 == "video/mp4v-es"

\* The members the destructor deletes; none is set by the init lists.
Pointers == {"mBitStreamBuffer", "mEncOpenParam", "mEncParam", "mEncOutputInfo"}

VARIABLES
  obj,        \* "unborn" | "alive" | "destroyed" | "aborted" (a CHECK fired)
  pc,         \* the client thread: "idle" | "read_wait" (inside read)
  vpu,        \* the VPU library: "up" after vpu_Init, "down" after vpu_UnInit
  initCheck,  \* mInitCheck
  handle,     \* mEncHandle: UNSET | "open" | "closed"
  mime,       \* the MIME type in the metadata
  ptr,        \* Pointers -> UNSET | "live" | "deleted"
  started,    \* mStarted
  outBuf,     \* the output MediaBuffer: "none" (no mGroup) | "free" | "held" | "delivered"
  input,      \* mInputBuffer: "none" | "held"
  frames,     \* mNumInputFrames
  prevTs,     \* mPrevTimestampUs
  srcTs,      \* the source's last timestamp (it never decreases)
  reads,      \* number of read calls made
  out,        \* history: the buffers delivered since the last successful start
  faults,     \* history: undefined operations the code performed
  bitstream,  \* the VPUMemory of mBitStreamBuffer
  frameBufs,  \* FrameIds -> the VPUFrameBuffer of mFrameBuffers[i]
  fbRegistered  \* vpu_EncRegisterFrameBuffer succeeded for the open encoder

memVars == <<bitstream, frameBufs, fbRegistered>>

vars == <<obj, pc, vpu, initCheck, handle, mime, ptr, started, outBuf, input,
          frames, prevTs, srcTs, reads, out, faults, memVars>>

(***************************************************************************)
(* A VPUMemory or VPUFrameBuffer: whether the object exists and whether it *)
(* holds its physical (IOGetPhyMem) and virtual (IOGetVirtMem) mapping.    *)
(***************************************************************************)
NoMemory == [obj |-> FALSE, phys |-> FALSE, virt |-> FALSE]

MemoryStates == {NoMemory} \cup [obj : {TRUE}, phys : BOOLEAN, virt : BOOLEAN]

\* The constructors: IOGetPhyMem, then IOGetVirtMem; when the second fails
\* the physical memory is freed again and the object is left unallocated.
\* Mutant: the virtual-memory failure keeps the physical memory.
NewMemoryKeepsPhys(physOk, virtOk) ==
  [obj |-> TRUE, phys |-> physOk, virt |-> physOk /\ virtOk]

NewMemory(physOk, virtOk) ==
  [obj |-> TRUE, phys |-> physOk /\ virtOk, virt |-> physOk /\ virtOk]

\* VPUFrameBuffer's constructor takes the same two steps, with
\* mFrameBufferAllocated as its flag.
NewFrameBuffer(physOk, virtOk) == NewMemory(physOk, virtOk)

\* mAllocated / mFrameBufferAllocated: set once both mappings were obtained.
Allocated(m) == m.virt

\* What the destructors free: both mappings, only when allocated.
\* Mutant: the destructor frees without looking at the flag.
FreedUnchecked(m) == {"phys", "virt"}

Freed(m) == IF Allocated(m) THEN {"phys", "virt"} ELSE {}

Held(m) == {k \in {"phys", "virt"} : m[k]}

\* Deleting m: freeing a mapping it does not hold, or not freeing one it holds.
DeleteFaults(m) ==
  (IF Freed(m) \ Held(m) # {} THEN {"free_unheld"} ELSE {})
  \cup (IF Held(m) \ Freed(m) # {} THEN {"leak"} ELSE {})

\* Handing the VPU an address (k = "phys") or copying through one ("virt").
UseFaults(m, k) == IF m[k] THEN {} ELSE {"use_unheld"}

\* freeFrameBuffers: every VPUFrameBuffer of mFrameBuffers is deleted.
FreeFrameBuffersFaults == UNION {DeleteFaults(frameBufs[i]) : i \in FrameIds}

Init ==
  /\ obj = "unborn"
  /\ pc = "idle"
  /\ vpu = "down"
  /\ initCheck = UNSET
  /\ handle = UNSET
  /\ mime = AVC
  /\ ptr = [p \in Pointers |-> UNSET]
  /\ started = FALSE
  /\ outBuf = "none"
  /\ input = "none"
  /\ frames = -1
  /\ prevTs = -1
  /\ srcTs = 0
  /\ reads = 0
  /\ out = <<>>
  /\ faults = {}
  /\ bitstream = NoMemory
  /\ frameBufs = [i \in FrameIds |-> NoMemory]
  /\ fbRegistered = FALSE

(***************************************************************************)
(* initCheck(meta): an unsupported colour format or a size that is not a   *)
(* multiple of 16 returns BAD_VALUE before anything is allocated;          *)
(* otherwise mEncOpenParam and mBitStreamBuffer are allocated and          *)
(* vpu_EncOpen decides between -1 and OK.                                  *)
(***************************************************************************)
InitCheck(metaOk, openOk) ==
  CASE ~metaOk -> [status |-> BAD_VALUE, alloc |-> {}, open |-> FALSE]
    [] ~openOk -> [status |-> OPEN_FAILED, open |-> FALSE,
                   alloc |-> {"mEncOpenParam", "mBitStreamBuffer"}]
    [] OTHER   -> [status |-> OK, open |-> TRUE,
                   alloc |-> {"mEncOpenParam", "mBitStreamBuffer"}]

(***************************************************************************)
(* Both constructors: vpu_Init, vpu_GetVersionInfo (on failure vpu_UnInit) *)
(* and initCheck.  The one-argument form forces the MIME type to AVC.  An  *)
(* early return leaves mInitCheck and the pointers unassigned.             *)
(***************************************************************************)
Construct(m, initOk, versionOk, metaOk, openOk, bs) ==
  LET ran   == initOk /\ versionOk
      ic    == InitCheck(metaOk, openOk)
      hasBs == ran /\ "mBitStreamBuffer" \in ic.alloc
  IN  /\ obj = "unborn"
      /\ obj' = "alive"
      /\ mime' = m
      /\ vpu' = IF ran THEN "up" ELSE "down"
      /\ initCheck' = IF ran THEN ic.status ELSE UNSET
      /\ handle' = IF ran /\ ic.open THEN "open" ELSE UNSET
      /\ ptr' = [p \in Pointers |-> IF ran /\ p \in ic.alloc THEN "live" ELSE UNSET]
      \* vpu_EncOpen is given the bitstream buffer's physical address.
      /\ bitstream' = IF hasBs THEN NewMemory(bs[1], bs[2]) ELSE NoMemory
      /\ faults' = faults \cup (IF hasBs THEN UseFaults(bitstream', "phys") ELSE {})
      /\ UNCHANGED <<pc, started, outBuf, input, frames, prevTs, srcTs, reads,
                     out, frameBufs, fbRegistered>>

(***************************************************************************)
(* start.  mInitCheck is read even when the constructor never assigned it *)
(* (undefined: the garbage may or may not equal OK).  Past the checks, the *)
(* search RAM command (i.MX27 only) and vpu_EncGetInitialInfo use          *)
(* mEncHandle; with a handle that is not open they fail.  The status of    *)
(* vpu_EncRegisterFrameBuffer (regOk) is logged and ignored.  The offset   *)
(* checks at 487-494 compare mVideoWidth/Height with picWidth/Height,      *)
(* which initCheck set to the same values, so they never fail.  On success *)
(* the frame buffers, mEncParam, mEncOutputInfo and mGroup (one buffer)    *)
(* are created, and mNumInputFrames is reset for AVC only.                 *)
(***************************************************************************)
Start(garbageOk, searchOk, infoOk, fb, regOk) ==
  LET passed  == IF initCheck = UNSET THEN garbageOk ELSE initCheck = OK
      usesHw  == passed /\ ~started
      setupOk == handle = "open" /\ (IsMX27 => searchOk) /\ infoOk
      \* allocFrameBuffers, then vpu_EncRegisterFrameBuffer of the first
      \* minFrameBufferCount (their physical addresses).
      allocated  == [i \in FrameIds |-> NewFrameBuffer(fb[i][1], fb[i][2])]
      registered == UNION {UseFaults(allocated[i], "phys") : i \in 0..(MinFrameBuffers - 1)}
  IN  /\ obj = "alive"
      /\ pc = "idle"
      /\ faults' = faults
                   \cup (IF initCheck = UNSET THEN {"uninit_read"} ELSE {})
                   \cup (IF usesHw /\ handle # "open" THEN {"handle_not_open"} ELSE {})
                   \cup (IF usesHw /\ setupOk THEN registered ELSE {})
      /\ IF usesHw /\ setupOk
           THEN /\ frameBufs' = allocated
                /\ fbRegistered' = regOk
                /\ ptr' = [ptr EXCEPT !["mEncParam"] = "live",
                                      !["mEncOutputInfo"] = "live"]
                /\ outBuf' = "free"
                /\ started' = TRUE
                /\ frames' = IF mime = AVC THEN -1 ELSE frames
                /\ out' = <<>>
           ELSE UNCHANGED <<frameBufs, fbRegistered, ptr, outBuf, started, frames, out>>
      /\ UNCHANGED <<obj, pc, vpu, initCheck, handle, mime, input, prevTs,
                     srcTs, reads, bitstream>>

(***************************************************************************)
(* stop of a started encoder (stop of a stopped one returns OK and changes *)
(* nothing): mInputBuffer is released, mGroup deleted, the frame buffers   *)
(* freed and mEncHandle closed (closed again after                         *)
(* RETCODE_FRAME_NOT_COMPLETE), then mStarted cleared.  The client stops   *)
(* only once the consumer has returned the buffer it was given.           *)
(***************************************************************************)
\* Mutant: stop does not delete mGroup.
StopKeepsGroup ==
  /\ obj = "alive"
  /\ pc = "idle"
  /\ started
  /\ outBuf # "delivered"
  /\ input' = "none"
  /\ handle' = "closed"
  /\ started' = FALSE
  /\ frameBufs' = [i \in FrameIds |-> NoMemory]
  /\ fbRegistered' = FALSE
  /\ faults' = faults \cup FreeFrameBuffersFaults
  /\ UNCHANGED <<obj, pc, vpu, initCheck, mime, ptr, outBuf, frames, prevTs,
                 srcTs, reads, out, bitstream>>

Stop ==
  /\ obj = "alive"
  /\ pc = "idle"
  /\ started
  /\ outBuf # "delivered"
  /\ input' = "none"
  /\ outBuf' = "none"
  /\ handle' = "closed"
  /\ started' = FALSE
  /\ frameBufs' = [i \in FrameIds |-> NoMemory]
  /\ fbRegistered' = FALSE
  /\ faults' = faults \cup FreeFrameBuffersFaults
  /\ UNCHANGED <<obj, pc, vpu, initCheck, mime, ptr, frames, prevTs, srcTs,
                 reads, out, bitstream>>

(***************************************************************************)
(* The destructor: stop if started, then delete the four pointers          *)
(* (assigned or not) and vpu_UnInit (initialised or not).                  *)
(***************************************************************************)
Destroy ==
  /\ obj = "alive"
  /\ pc = "idle"
  /\ outBuf # "delivered"
  /\ obj' = "destroyed"
  /\ ptr' = [p \in Pointers |-> "deleted"]
  /\ vpu' = "down"
  /\ faults' = faults
               \cup (IF \E p \in Pointers : ptr[p] = UNSET THEN {"delete_unset"} ELSE {})
               \cup (IF vpu = "down" THEN {"uninit_down"} ELSE {})
               \cup (IF started THEN FreeFrameBuffersFaults ELSE {})
               \cup (IF ptr["mBitStreamBuffer"] = "live" THEN DeleteFaults(bitstream) ELSE {})
  /\ bitstream' = NoMemory
  /\ frameBufs' = IF started THEN [i \in FrameIds |-> NoMemory] ELSE frameBufs
  /\ fbRegistered' = FALSE
  /\ input' = "none"
  /\ outBuf' = "none"
  /\ handle' = IF started THEN "closed" ELSE handle
  /\ started' = FALSE
  /\ UNCHANGED <<pc, initCheck, mime, frames, prevTs, srcTs, reads, out>>

(***************************************************************************)
(* read.  The client enters read only on a started encoder (the            *)
(* MediaSource contract) and blocks in mGroup->acquire_buffer until the    *)
(* one output buffer is free; each alternative below is one path from the *)
(* acquire to a return.                                                    *)
(***************************************************************************)
ReadCall ==
  /\ obj = "alive"
  /\ pc = "idle"
  /\ started
  /\ reads < MaxReads
  /\ pc' = "read_wait"
  /\ reads' = reads + 1
  /\ UNCHANGED <<obj, vpu, initCheck, handle, mime, ptr, started, outBuf, input,
                 frames, prevTs, srcTs, out, faults, memVars>>

\* acquire_buffer returns: the thread is in read and the buffer is free.
Acquire == pc = "read_wait" /\ outBuf = "free"

\* mNumInputFrames < 0: the codec headers are due.
\* Mutant: the headers are due again after the first frame.
HeaderDueOffByOne == frames <= 0

HeaderDue == frames < 0

\* A frame whose timestamp repeats the last encoded one is dropped.
\* Mutant: a repeat of the first encoded frame is not recognised.
IsRepeatFromSecond(t) == frames >= 2 /\ prevTs = t

IsRepeat(t) == frames >= 1 /\ prevTs = t

\* The codec-config buffer of FillHeaders (kKeyTime 0) is returned.
ReadHeader ==
  /\ Acquire
  /\ HeaderDue
  /\ frames' = frames + 1
  /\ outBuf' = "delivered"
  /\ out' = Append(out, [kind |-> "config", ts |-> 0])
  /\ pc' = "idle"
  \* MPEG-4 and AVC headers are copied out through the bitstream's mapping.
  /\ faults' = faults \cup (IF mime \in {AVC, MPEG4} THEN UseFaults(bitstream, "virt") ELSE {})
  /\ UNCHANGED <<obj, vpu, initCheck, handle, mime, ptr, started, input, prevTs,
                 srcTs, reads, memVars>>

(***************************************************************************)
(* The previous input buffer is released and mSource->read fails, or       *)
(* returns a frame of the wrong size, which is released: the output buffer *)
(* goes back to the group and read returns the error.                      *)
(***************************************************************************)
\* Mutant: the source-error return keeps the output buffer.
ReadSourceFailedKeepsBuffer ==
  /\ Acquire
  /\ ~HeaderDue
  /\ input' = "none"
  /\ outBuf' = "held"
  /\ pc' = "idle"
  /\ UNCHANGED <<obj, vpu, initCheck, handle, mime, ptr, started, frames, prevTs,
                 srcTs, reads, out, faults, memVars>>

ReadSourceFailed ==
  /\ Acquire
  /\ ~HeaderDue
  /\ input' = "none"
  /\ outBuf' = "free"
  /\ pc' = "idle"
  /\ UNCHANGED <<obj, vpu, initCheck, handle, mime, ptr, started, frames, prevTs,
                 srcTs, reads, out, faults, memVars>>

\* The source returns a frame with timestamp t that repeats the last one: it
\* is released and the output buffer is returned empty, stamped t.
ReadRepeat(t) ==
  /\ Acquire
  /\ ~HeaderDue
  /\ t \in srcTs..MaxTs
  /\ IsRepeat(t)
  /\ srcTs' = t
  /\ input' = "none"
  /\ outBuf' = "delivered"
  /\ out' = Append(out, [kind |-> "empty", ts |-> t])
  /\ pc' = "idle"
  /\ UNCHANGED <<obj, vpu, initCheck, handle, mime, ptr, started, frames, prevTs,
                 reads, faults, memVars>>

(***************************************************************************)
(* A new frame with timestamp t: CHECK(mPrevTimestampUs < timeUs) aborts   *)
(* the process if it fails; otherwise the timestamp is recorded and the    *)
(* frame encoded.  vpu_EncStartOneFrame failing, the busy wait running out *)
(* of its 50 polls, or vpu_EncGetOutputInfo failing returns UNKNOWN_ERROR  *)
(* with the output buffer still acquired; on success it is returned with   *)
(* the frame and mNumInputFrames advances.                                 *)
(***************************************************************************)
ReadEncode(t, hw) ==
  /\ Acquire
  /\ ~HeaderDue
  /\ t \in srcTs..MaxTs
  /\ ~IsRepeat(t)
  /\ srcTs' = t
  /\ input' = "held"
  /\ pc' = "idle"
  /\ IF ~(prevTs < t)
       THEN /\ obj' = "aborted"
            /\ UNCHANGED <<prevTs, outBuf, frames, out>>
            /\ faults' = faults
       ELSE /\ prevTs' = t
            /\ obj' = obj
            \* The frame is copied into the source frame buffer (754) and
            \* vpu_EncStartOneFrame (762) runs on the registered frame buffers;
            \* on success the stream is copied out of the bitstream buffer (791).
            /\ faults' = faults \cup UseFaults(frameBufs[SourceFrame], "virt")
                         \cup (IF fbRegistered THEN {} ELSE {"use_unregistered"})
                         \cup (IF hw = "ok" THEN UseFaults(bitstream, "virt") ELSE {})
            /\ IF hw = "ok"
                 THEN /\ outBuf' = "delivered"
                      /\ frames' = frames + 1
                      /\ out' = Append(out, [kind |-> "frame", ts |-> t])
                 ELSE /\ outBuf' = "held"
                      /\ UNCHANGED <<frames, out>>
  /\ UNCHANGED <<vpu, initCheck, handle, mime, ptr, started, reads, memVars>>

Read ==
  \/ ReadHeader
  \/ ReadSourceFailed
  \/ \E t \in 0..MaxTs : ReadRepeat(t)
  \/ \E t \in 0..MaxTs, hw \in HwOutcomes : ReadEncode(t, hw)

\* The consumer releases the buffer read gave it; it returns to the group.
ConsumerRelease ==
  /\ outBuf = "delivered"
  /\ outBuf' = "free"
  /\ UNCHANGED <<obj, pc, vpu, initCheck, handle, mime, ptr, started, input,
                 frames, prevTs, srcTs, reads, out, faults, memVars>>

Next ==
  \/ \E m \in Mimes \cup {AVC}, initOk, versionOk, metaOk, openOk \in BOOLEAN,
       bs \in AllocOutcomes : Construct(m, initOk, versionOk, metaOk, openOk, bs)
  \/ \E garbageOk, searchOk, infoOk, regOk \in BOOLEAN, fb \in [FrameIds -> AllocOutcomes] :
       Start(garbageOk, searchOk, infoOk, fb, regOk)
  \/ Stop
  \/ ReadCall
  \/ Read
  \/ ConsumerRelease
  \/ Destroy

(***************************************************************************)
(* The thread blocked in acquire_buffer is woken when the buffer returns   *)
(* to the group and runs on; the consumer returns every buffer it is       *)
(* given.  Nothing obliges the client to call anything.                    *)
(***************************************************************************)
Fairness == WF_vars(Read) /\ WF_vars(ConsumerRelease)

Spec == Init /\ [][Next]_vars /\ Fairness

-----------------------------------------------------------------------------
TypeOK ==
  /\ obj \in {"unborn", "alive", "destroyed", "aborted"}
  /\ pc \in {"idle", "read_wait"}
  /\ vpu \in {"up", "down"}
  /\ initCheck \in {UNSET, OK, BAD_VALUE, OPEN_FAILED}
  /\ handle \in {UNSET, "open", "closed"}
  /\ ptr \in [Pointers -> {UNSET, "live", "deleted"}]
  /\ started \in BOOLEAN
  /\ outBuf \in {"none", "free", "held", "delivered"}
  /\ (outBuf = "none") = ~started
  /\ input \in {"none", "held"}
  /\ frames \in -1..MaxReads
  /\ prevTs \in -1..MaxTs
  /\ srcTs \in 0..MaxTs
  /\ pc = "read_wait" => started
  /\ bitstream \in MemoryStates
  /\ frameBufs \in [FrameIds -> MemoryStates]
  /\ fbRegistered \in BOOLEAN

(***************************************************************************)
(* The output stream (read, 703-805).  Since the last successful start the *)
(* consumer was given the codec-config buffer of FillHeaders first and     *)
(* never again; the encoded frames it was given carry strictly increasing  *)
(* timestamps; and an empty buffer (a dropped repeat) carries the          *)
(* timestamp of an encoded frame it was given before.                      *)
(***************************************************************************)
OutputStreamWellFormed ==
  /\ \A i \in 1..Len(out) : (out[i].kind = "config") <=> (i = 1)
  /\ \A i, j \in 1..Len(out) :
       i < j /\ out[i].kind = "frame" /\ out[j].kind = "frame" => out[i].ts < out[j].ts
  /\ \A j \in 1..Len(out) :
       out[j].kind = "empty" =>
         \E i \in 1..(j - 1) : out[i].kind = "frame" /\ out[i].ts = out[j].ts

(***************************************************************************)
(* CHECK(mPrevTimestampUs < timeUs) in read (748) never aborts the process *)
(* while the source's timestamps never decrease: the repeat test at 740    *)
(* catches every timestamp equal to the last one.                          *)
(***************************************************************************)
CheckHolds == obj # "aborted"

(***************************************************************************)
(* Every call of read returns: the thread blocked in acquire_buffer (703)  *)
(* gets the output buffer back on every path of the previous read.        *)
(***************************************************************************)
ReadReturns == pc = "read_wait" ~> pc = "idle"

(***************************************************************************)
(* Every member start and the destructor use holds what a code path put   *)
(* there: start reads mInitCheck (416) only after a constructor set it and *)
(* drives mEncHandle (431, 445) only while it is open, so never after stop *)
(* closed it (586); the destructor (250-260) deletes only pointers that    *)
(* were assigned and calls vpu_UnInit only while the library is up.        *)
(***************************************************************************)
MembersValidWhenUsed ==
  faults \cap {"uninit_read", "delete_unset", "uninit_down", "handle_not_open"} = {}

(***************************************************************************)
(* Every mapping the encoder obtains is given back exactly once: the       *)
(* constructors of VPUMemory and VPUFrameBuffer (95-112, 133-170) return   *)
(* the physical memory when the virtual mapping fails, the destructors     *)
(* (114-120, 172-178) free only what mAllocated says they hold, stop frees *)
(* the frame buffers of each start, and nothing is still held once the     *)
(* encoder is destroyed, whichever allocation failed along the way.        *)
(***************************************************************************)
MemoryReturned ==
  /\ faults \cap {"free_unheld", "leak"} = {}
  /\ obj = "destroyed" =>
       Held(bitstream) = {} /\ \A i \in FrameIds : Held(frameBufs[i]) = {}

(***************************************************************************)
(* The VPU is given, and read copies through, only buffers the encoder has *)
(* set up: memory it holds (the bitstream buffer handed to vpu_EncOpen at  *)
(* 310 and copied from in FillHeaders, 621-690, and read, 791; the frame   *)
(* buffers registered at 467 and the source frame copied into at 754), and *)
(* frame buffers vpu_EncRegisterFrameBuffer accepted before                *)
(* vpu_EncStartOneFrame encodes with them (762).                           *)
(***************************************************************************)
HardwareGivenReadyBuffers == faults \cap {"use_unheld", "use_unregistered"} = {}

=============================================================================
