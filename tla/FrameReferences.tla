-------------------------- MODULE FrameReferences ---------------------------
(***************************************************************************)
(* The wrappers through which the elements use a GstBuffer: frames in      *)
(* system, video and DMA memory, and coded data (mfxGstSystemMemoryFrame,  *)
(* mfxGstVideoMemoryFrame, mfxGstDMAMemoryFrame, mfxGstBitstreamBufferRef).*)
(*                                                                         *)
(* A wrapper holds one reference of the buffer.  The first srf() or bst()  *)
(* maps the memory, or imports the DMA handle as a VA surface, and copies  *)
(* the buffer's timestamp; getBuffer() and the destructor undo both, and   *)
(* write the timestamp back.  Several wrappers of one buffer live at once: *)
(* that of the element that made it, and one in every branch behind it.    *)
(*                                                                         *)
(* External: the codecs, GStreamer's counts, maps and pools, the sources   *)
(* and sinks that are not elements of this plug-in, and the tee.           *)
(***************************************************************************)
EXTENDS Integers, FiniteSets

CONSTANTS
  Buffers,        \* buffers in circulation
  Branches,       \* elements that get each buffer, behind a tee
  MaxMade,        \* bound: frames or coded pictures ever made
  MaxMapFailures  \* bound: failed maps and imports

ASSUME SetsAssumption == IsFiniteSet(Buffers) /\ IsFiniteSet(Branches)
ASSUME LimitsAssumption == {MaxMade, MaxMapFailures} \subseteq Nat
ASSUME ProducerAssumption == "producer" \notin Branches

VARIABLES
  memory, pooled, \* the stream's memory; is it made by an element of the plug-in?
  buf,            \* the buffers
  ref,            \* the wrappers, by owner and buffer
  step,           \* how far the producer is with each buffer
  inbox,          \* plain references of buffers, on their way to each branch
  frames,         \* how many were made
  misdated,       \* history: frames that were read with a timestamp not theirs
  zeroed,         \* history: frames whose timestamp was overwritten with zero
  lost,           \* history: did a mapping get lost between two threads?
  mapFailures

streamVars == <<memory, pooled>>
wrapperHistory == <<misdated, zeroed, lost>>
wrapperVars == <<streamVars, buf, ref, step, inbox, frames, wrapperHistory, mapFailures>>

WrapperOwners == {"producer"} \cup Branches
Times == -1 .. MaxMade     \* the time of a frame is its number
NoTime == -1                 \* GST_CLOCK_TIME_NONE

\* mem: has the wrapper mapped (mem_, srf_ or MemId set)?  "empty" is a mem_ whose
\* meminfo_ holds no mapping.  time: srf_.Data.TimeStamp or bst_.TimeStamp.
Wrappers == [there : BOOLEAN, mem : {"null", "mapped", "empty"}, time : Times]
NoWrapper == [there |-> FALSE, mem |-> "null", time |-> 0]
NewWrapper == [NoWrapper EXCEPT !.there = TRUE]

\* pts, and in video memory the TimeStamp of the surface that is the memory; refs:
\* references; maps: mappings of the memory, or VA surfaces made of its handle.
BufferStates == [content : 0 .. MaxMade, pts : Times, time : Times, refs : Nat, maps : Int]

\* A pool resets the buffers that come back; others are freed.
Unused == [content |-> 0, pts |-> NoTime, time |-> 0, refs |-> 0, maps |-> 0]

WrapperTypeOK ==
  /\ memory \in {"system", "video", "dma", "bitstream"} /\ pooled \in BOOLEAN
  /\ buf \in [Buffers -> BufferStates]
  /\ ref \in [WrapperOwners -> [Buffers -> Wrappers]]
  /\ step \in [Buffers -> {"none", "work", "done", "unmap", "shown"}]
  /\ inbox \in [Branches -> SUBSET Buffers]
  /\ frames \in 0 .. MaxMade /\ mapFailures \in 0 .. MaxMapFailures
  /\ misdated \subseteq 1 .. MaxMade /\ zeroed \subseteq 1 .. MaxMade /\ lost \in BOOLEAN

\* Video memory is only made here, and DMA memory only elsewhere.
WrapperInit ==
  /\ memory \in {"system", "video", "dma", "bitstream"}
  /\ pooled \in BOOLEAN /\ (memory = "video" => pooled) /\ (memory = "dma" => ~pooled)
  /\ buf = [b \in Buffers |-> Unused]
  /\ ref = [o \in WrapperOwners |-> [b \in Buffers |-> NoWrapper]]
  /\ step = [b \in Buffers |-> "none"] /\ inbox = [k \in Branches |-> {}]
  /\ frames = 0 /\ misdated = {} /\ zeroed = {} /\ lost = FALSE /\ mapFailures = 0

-----------------------------------------------------------------------------
(* The wrappers' functions, of a buffer x and a wrapper w of it; "both" is *)
(* the two of them afterwards.                                             *)

Both(x, w) == [buffer |-> x, wrapper |-> w]

\* srf() and bst(): map() unless mapped before.
Mapped(x, w) ==
  IF w.mem # "null" THEN Both(x, w)
  ELSE IF memory = "video"
    THEN Both([x EXCEPT !.time = x.pts], [w EXCEPT !.mem = "mapped"])
    ELSE Both([x EXCEPT !.maps = @ + 1], [w EXCEPT !.mem = "mapped", !.time = x.pts])

\* The first srf() gives NULL then, and so the caller gets no surface; mem_ stays
\* set, so a later one gives a surface without data.  An import is tried again.
MapFailed(w) == [w EXCEPT !.mem = IF memory = "dma" THEN "null" ELSE "empty"]

TimeOf(x, w) == IF memory = "video" THEN x.time ELSE w.time

WrittenBack(x, w) == [x EXCEPT !.pts = TimeOf(x, w)]
Released(x, w) == [x EXCEPT !.maps = IF w.mem = "mapped" THEN @ - 1 ELSE @]

\* Mutant of Unmapped: the timestamp is not written back.
UnmappedUndated(x, w) ==
  IF memory = "video" THEN Both(x, w)
  ELSE Both(Released(x, w), [w EXCEPT !.mem = "null"])

\* unmap(): in system and DMA memory the timestamp is written back always, in
\* video memory and to coded data only if mapped.  A video frame stays as it is.
Unmapped(x, w) ==
  LET y == IF memory \in {"system", "dma"} \/ w.mem # "null" THEN WrittenBack(x, w) ELSE x
  IN  IF memory = "video" THEN Both(y, w)
      ELSE Both(Released(y, w), [w EXCEPT !.mem = "null"])

\* gst_buffer_unref()
Unref(x) ==
  IF x.refs = 1 THEN [Unused EXCEPT !.maps = x.maps] ELSE [x EXCEPT !.refs = @ - 1]

\* Mutant of Destroyed: the classes have no destructors of their own.
DestroyedAsBase(x, w) ==
  Unref(IF memory \in {"system", "bitstream"} THEN Released(x, w) ELSE x)

\* The destructor: unmap() of the class, but of the base class for coded data.
Destroyed(x, w) ==
  Unref(IF memory = "bitstream" THEN Released(x, w) ELSE Unmapped(x, w).buffer)

Wrong(x, time) == IF time = x.content THEN {} ELSE {x.content}
Zeroed(x, y) == IF x.pts # 0 /\ y.pts = 0 THEN {x.content} ELSE {}

Put(o, b, both) ==
  /\ buf' = [buf EXCEPT ![b] = both.buffer]
  /\ ref' = [ref EXCEPT ![o][b] = both.wrapper]
  /\ zeroed' = zeroed \cup Zeroed(buf[b], both.buffer)

-----------------------------------------------------------------------------
(* An element that makes buffers: its task thread has the first and the    *)
(* last word on a frame, its sync thread sends it in between.              *)

Here(b) == ref["producer"][b]

\* GetBuffer() of a pool, and srf() or bst().
Acquire(b) ==
  /\ pooled /\ buf[b].refs = 0
  /\ Put("producer", b, Mapped([buf[b] EXCEPT !.refs = 1], NewWrapper))
  /\ step' = [step EXCEPT ![b] = "work"]
  /\ UNCHANGED <<streamVars, inbox, frames, misdated, lost, mapFailures>>

\* The codec writes into the surface, or the bitstream.
Code(b) ==
  /\ step[b] = "work" /\ frames < MaxMade
  /\ frames' = frames + 1
  /\ buf' = [buf EXCEPT ![b].content = frames + 1,
                        ![b].time = IF memory = "video" THEN frames + 1 ELSE @]
  /\ ref' = [ref EXCEPT !["producer"][b].time = IF memory = "video" THEN @ ELSE frames + 1]
  /\ step' = [step EXCEPT ![b] = "done"]
  /\ UNCHANGED <<streamVars, inbox, wrapperHistory, mapFailures>>

\* getBuffer() in the sync thread, but for the last line of unmap().
Unmap(b) ==
  /\ step[b] = "done"
  /\ Put("producer", b, Unmapped(buf[b], Here(b)))
  /\ step' = [step EXCEPT ![b] = "unmap"]
  /\ UNCHANGED <<streamVars, inbox, frames, misdated, lost, mapFailures>>

\* That line clears meminfo_, also that of a new mapping; then the buffer goes.
Send(b) ==
  /\ step[b] = "unmap"
  /\ LET again == memory # "video" /\ Here(b).mem = "mapped"
     IN  /\ ref' = [ref EXCEPT !["producer"][b].mem = IF again THEN "empty" ELSE @]
         /\ lost' = (lost \/ again)
  /\ buf' = [buf EXCEPT ![b].refs = @ + Cardinality(Branches)]
  /\ inbox' = [k \in Branches |-> inbox[k] \cup {b}]
  /\ step' = [step EXCEPT ![b] = "shown"]
  /\ UNCHANGED <<streamVars, frames, misdated, zeroed, mapFailures>>

\* The decoder looks for unlocked or shown frames with srf(), which maps again what
\* the sync thread has unmapped, or is about to unmap.
LookAt(b) ==
  /\ memory \in {"system", "video"} /\ Here(b).there
  /\ Put("producer", b, Mapped(buf[b], Here(b)))
  /\ UNCHANGED <<streamVars, step, inbox, frames, misdated, lost, mapFailures>>

\* The last shared_ptr to the wrapper goes, shown or not.
ProducerDrops(b) ==
  /\ Here(b).there /\ step[b] # "unmap"
  /\ Put("producer", b, Both(Destroyed(buf[b], Here(b)), NoWrapper))
  /\ step' = [step EXCEPT ![b] = "none"]
  /\ UNCHANGED <<streamVars, inbox, frames, misdated, lost, mapFailures>>

\* A source of another plug-in.
Source(b) ==
  /\ ~pooled /\ buf[b].refs = 0 /\ frames < MaxMade
  /\ frames' = frames + 1
  /\ buf' = [buf EXCEPT ![b].content = frames + 1, ![b].pts = frames + 1,
                        ![b].refs = Cardinality(Branches)]
  /\ inbox' = [k \in Branches |-> inbox[k] \cup {b}]
  /\ UNCHANGED <<streamVars, ref, step, wrapperHistory, mapFailures>>

-----------------------------------------------------------------------------
(* The elements that receive buffers.                                      *)

\* The chain function makes a wrapper in place of the reference it was given.
Wrap(k, b) ==
  /\ b \in inbox[k] /\ ~ref[k][b].there
  /\ inbox' = [inbox EXCEPT ![k] = @ \ {b}]
  /\ ref' = [ref EXCEPT ![k][b] = NewWrapper]
  /\ UNCHANGED <<streamVars, buf, step, frames, wrapperHistory, mapFailures>>

\* The task thread maps it, and the codec reads it.
Read(k, b) ==
  LET both == Mapped(buf[b], ref[k][b])
  IN  /\ ref[k][b].there /\ ref[k][b].mem # "empty"
      /\ Put(k, b, both)
      /\ misdated' = misdated \cup Wrong(both.buffer, TimeOf(both.buffer, both.wrapper))
      /\ UNCHANGED <<streamVars, step, inbox, frames, lost, mapFailures>>

MapFails(o, b) ==
  /\ mapFailures < MaxMapFailures
  /\ ref[o][b].there /\ ref[o][b].mem = "null" /\ memory # "video"
  /\ o = "producer" => step[b] = "shown"
  /\ ref' = [ref EXCEPT ![o][b] = MapFailed(@)]
  /\ mapFailures' = mapFailures + 1
  /\ UNCHANGED <<streamVars, buf, step, inbox, frames, wrapperHistory>>

\* The frame was coded, or a task that held it is thrown away.
BranchDrops(k, b) ==
  /\ ref[k][b].there
  /\ Put(k, b, Both(Destroyed(buf[b], ref[k][b]), NoWrapper))
  /\ UNCHANGED <<streamVars, step, inbox, frames, misdated, lost, mapFailures>>

\* A post-processor that passes frames through: it never calls srf(), and sends the
\* buffer that it received.
PassThrough(k, b) ==
  /\ memory # "bitstream"
  /\ ref[k][b].there /\ ref[k][b].mem = "null"
  /\ Put(k, b, Both(Unmapped(buf[b], ref[k][b]).buffer, NoWrapper))
  /\ inbox' = [inbox EXCEPT ![k] = @ \cup {b}]
  /\ UNCHANGED <<streamVars, step, frames, misdated, lost, mapFailures>>

\* An element that is not of the plug-in reads the buffer.
OthersRead(k, b) ==
  /\ b \in inbox[k]
  /\ misdated' = misdated \cup Wrong(buf[b], buf[b].pts)
  /\ inbox' = [inbox EXCEPT ![k] = @ \ {b}]
  /\ buf' = [buf EXCEPT ![b] = Unref(@)]
  /\ UNCHANGED <<streamVars, ref, step, frames, zeroed, lost, mapFailures>>

WrapperNext ==
  \E b \in Buffers :
    \/ Acquire(b) \/ Code(b) \/ Unmap(b) \/ Send(b) \/ LookAt(b) \/ ProducerDrops(b) \/ Source(b)
    \/ \E o \in WrapperOwners : MapFails(o, b)
    \/ \E k \in Branches :
         Wrap(k, b) \/ Read(k, b) \/ BranchDrops(k, b) \/ PassThrough(k, b) \/ OthersRead(k, b)

WrapperSpec == WrapperInit /\ [][WrapperNext]_wrapperVars

-----------------------------------------------------------------------------
(* Properties.                                                             *)

(***************************************************************************)
(* Types, and the counts: a buffer has one reference for each wrapper and  *)
(* each branch it is on its way to, and its memory one mapping, or one VA  *)
(* surface, for each wrapper that mapped it.  So what comes back to a pool *)
(* or is freed is not mapped, and no imported surface is leaked, whether   *)
(* wrappers end by getBuffer(), by their destructors or after a failed     *)
(* map.  Only the decoder can break the second count: its two threads map  *)
(* and unmap one wrapper without a lock.                                   *)
(***************************************************************************)
BuffersCounted ==
  /\ WrapperTypeOK
  /\ \A b \in Buffers :
       /\ buf[b].refs = Cardinality({o \in WrapperOwners : ref[o][b].there})
                          + Cardinality({k \in Branches : b \in inbox[k]})
       /\ ~lost /\ memory # "video" =>
            buf[b].maps = Cardinality({o \in WrapperOwners : ref[o][b].mem = "mapped"})

(***************************************************************************)
(* Whoever reads a frame reads it with its own timestamp, though every     *)
(* wrapper of the buffer writes one back when it goes, some of them long   *)
(* after the buffer was sent on.  The exception is real: a frame in system *)
(* or DMA memory whose wrapper never mapped it, for a post-processor       *)
(* passed it through or a stopped thread threw it away, gets time zero, in *)
(* the other branches too.                                                 *)
(***************************************************************************)
TimesAreKept == misdated \subseteq zeroed
=============================================================================
