--------------------------- MODULE DisplaySharing ---------------------------
(***************************************************************************)
(* How the elements of a pipeline come by one VA display (GstMfxVaDisplay, *)
(* utils/src/mfx_gst_context.cpp), and how long it lives.                  *)
(*                                                                         *)
(* On NULL to READY an encoder opens a display of its own.  A decoder or a *)
(* post-processor first asks its neighbours, with a CONTEXT query that the *)
(* nearest encoder or post-processor answers: those behind its source pad, *)
(* and, when nobody there answers, those before its sink pad.  The display *)
(* travels in a GstContext; the element keeps the context in its list (the *)
(* base class does, until READY to NULL) and a reference to the display.   *)
(*                                                                         *)
(* Both are counted objects on a heap shared by elements whose states      *)
(* different threads may change at the same time: the element that answers *)
(* reads dpyctx_ without a lock.                                           *)
(*                                                                         *)
(* External: GStreamer's queries, contexts and their lists, and which      *)
(* element the application or a bin changes next.                          *)
(***************************************************************************)
EXTENDS Integers, Sequences, FiniteSets

CONSTANTS
  Chains,      \* the pipelines: sequences of elements, from source to sink
  MaxChanges,  \* bound: changes from NULL to READY
  MaxChanging, \* elements whose state changes at the same time
  MaxFaults    \* bound: failed steps of InitBase()

ElementKinds == {"vdec", "vpp", "venc"}

\* hardware: "impl" is hardware or the output is in video memory, so the element
\* has a display.
ElementTypes == [kind : ElementKinds, hardware : BOOLEAN]

ASSUME ChainsAssumption == \A c \in Chains : c \in Seq(ElementTypes) /\ Len(c) >= 1
\* Of these elements only a decoder takes what an encoder puts out.
ASSUME LinksAssumption ==
  \A c \in Chains : \A i \in 1 .. Len(c) - 1 : c[i].kind = "venc" => c[i + 1].kind = "vdec"
ASSUME ChangesAssumption == {MaxChanges, MaxChanging, MaxFaults} \subseteq Nat

VARIABLES
  chain,            \* the pipeline
  gstState, pc,     \* GstState of each element, and where in a change of it
  asked, seen,      \* the element that answers its query; the display read there
  query,            \* the context in its query
  dpyctx_,          \* its display
  device,           \* the display its allocator and session work on
  contexts,         \* the context in its list
  heap,             \* contexts and displays, with their reference counts
  changes, faults,  \* history: changes begun and failed steps
  ordered,          \* history: has a bin raised the elements, sink first?
  dangling          \* history: did an answer reference a display that was gone?

elementVars == <<gstState, pc>>
queryVars == <<asked, seen, query>>
displayHistory == <<changes, faults, ordered, dangling>>
displayVars == <<chain, elementVars, queryVars, dpyctx_, device, contexts, heap, displayHistory>>

Elements == DOMAIN chain
None == 0

\* Each element may have one display and one context, and be about to get others.
MaxObjects == 2 * Len(chain)
Displays == 1 .. MaxObjects
Contexts == 1 .. MaxObjects

Hardware(e) == chain[e].hardware
Kind(e) == chain[e].kind

-----------------------------------------------------------------------------
(* The heap.  A count that is zero stays zero: GLib refuses to reference   *)
(* an object that is gone.                                                 *)

Up(n) == IF n > 0 THEN n + 1 ELSE n
Down(n) == IF n > 0 THEN n - 1 ELSE n

RefDisplay(h, d) == IF d = None THEN h ELSE [h EXCEPT !.display[d].refs = Up(@)]

\* g_object_unref(): the last one calls gst_mfx_display_finalize().
UnrefDisplay(h, d) ==
  IF d = None THEN h
  ELSE [h EXCEPT !.display[d].refs = Down(@),
                 !.display[d].valid = @ /\ h.display[d].refs > 1]

RefContext(h, c) == [h EXCEPT !.context[c].refs = Up(@)]

\* gst_context_unref(): the last one frees the structure with the display in it.
UnrefContext(h, c) ==
  IF c = None THEN h
  ELSE LET less == [h EXCEPT !.context[c].refs = Down(@)]
       IN  IF h.context[c].refs = 1 THEN UnrefDisplay(less, h.context[c].display) ELSE less

\* A block of memory that is free, and to which nothing points.
FreeDisplay ==
  CHOOSE d \in Displays :
    /\ heap.display[d].refs = 0
    /\ \A e \in Elements : d \notin {dpyctx_[e], seen[e], device[e]}
    /\ \A c \in Contexts : heap.context[c].refs > 0 => heap.context[c].display # d

FreeContext ==
  CHOOSE c \in Contexts :
    /\ heap.context[c].refs = 0
    /\ \A e \in Elements : c \notin {contexts[e], query[e]}

\* mfx_gst_va_display_new(): there is an object even if LibVA failed.
NewDisplay(h, d, valid) == [h EXCEPT !.display[d] = [refs |-> 1, valid |-> valid]]

\* Mutant of NewContext: the answer gives up the reference that it made.
NewContextReleased(h, c, d) ==
  [RefDisplay(h, d) EXCEPT !.context[c] = [refs |-> 1, display |-> d]]

\* mfx_gst_set_context_in_query(): the query takes a reference, and nobody gives up
\* the one of gst_context_new().
NewContext(h, c, d) ==
  [RefDisplay(h, d) EXCEPT !.context[c] = [refs |-> 2, display |-> d]]

-----------------------------------------------------------------------------
DisplayTypeOK ==
  /\ chain \in Chains
  /\ gstState \in [Elements -> {"null", "ready", "gone"}]
  /\ pc \in [Elements -> {"idle", "session", "askDown", "askUp", "answer", "take", "display",
                          "allocator", "codec", "undo", "drop", "free", "unref"}]
  /\ asked \in [Elements -> Elements \cup {None}]
  /\ seen \in [Elements -> Displays \cup {None}]
  /\ query \in [Elements -> Contexts \cup {None}]
  /\ dpyctx_ \in [Elements -> Displays \cup {None}]
  /\ device \in [Elements -> Displays \cup {None}]
  /\ contexts \in [Elements -> Contexts \cup {None}]
  /\ heap.context \in [Contexts -> [refs : Nat, display : Displays \cup {None}]]
  /\ heap.display \in [Displays -> [refs : Nat, valid : BOOLEAN]]
  /\ changes \in 0 .. MaxChanges /\ faults \in 0 .. MaxFaults
  /\ ordered \in BOOLEAN /\ dangling \in BOOLEAN

DisplayInit ==
  /\ chain \in Chains
  /\ gstState = [e \in Elements |-> "null"] /\ pc = [e \in Elements |-> "idle"]
  /\ asked = [e \in Elements |-> None] /\ seen = [e \in Elements |-> None]
  /\ query = [e \in Elements |-> None]
  /\ dpyctx_ = [e \in Elements |-> None] /\ device = [e \in Elements |-> None]
  /\ contexts = [e \in Elements |-> None]
  /\ heap = [context |-> [c \in Contexts |-> [refs |-> 0, display |-> None]],
             display |-> [d \in Displays |-> [refs |-> 0, valid |-> FALSE]]]
  /\ changes = 0 /\ faults = 0 /\ ordered = TRUE /\ dangling = FALSE

Goto(e, place) == pc' = [pc EXCEPT ![e] = place]

Busy == {e \in Elements : pc[e] # "idle"}

\* Steps that can fail go to the label _error of InitBase().
Fail(e) ==
  /\ faults < MaxFaults
  /\ faults' = faults + 1
  /\ Goto(e, "undo")
  /\ UNCHANGED <<changes, ordered, dangling>>

-----------------------------------------------------------------------------
(* NULL to READY: InitBase().                                              *)

\* As a bin does it: one element after the other, the ones behind it already up.
SinkFirst(e) ==
  /\ Busy = {}
  /\ \A f \in Elements : (f < e => gstState[f] = "null") /\ (f > e => gstState[f] = "ready")

AllDown == Busy = {} /\ \A e \in Elements : gstState[e] = "null"

ToReady(e) ==
  /\ gstState[e] = "null" /\ pc[e] = "idle"
  /\ Cardinality(Busy) < MaxChanging /\ changes < MaxChanges
  /\ Goto(e, "session")
  /\ changes' = changes + 1
  /\ ordered' = ((ordered \/ AllDown) /\ SinkFirst(e))
  /\ UNCHANGED <<chain, gstState, queryVars, dpyctx_, device, contexts, heap, faults, dangling>>

\* session_.InitEx() and QueryIMPL(); without hardware there is no display.
MakeSession(e) ==
  /\ pc[e] = "session"
  /\ \/ /\ Goto(e, IF ~Hardware(e) THEN "codec"
                   ELSE IF Kind(e) = "venc" THEN "display" ELSE "askDown")
        /\ UNCHANGED displayHistory
     \/ Fail(e)
  /\ UNCHANGED <<chain, gstState, queryVars, dpyctx_, device, contexts, heap>>

\* mfx_gst_query_peers(): other elements, and decoders, pass the query on.
Answering(S) == {f \in S : Kind(f) \in {"vpp", "venc"}}
Nearest(e, S) == CHOOSE f \in S : \A g \in S : (e - f) * (e - f) <= (e - g) * (e - g)

\* RunQueryContext() reads dpyctx_ of the element that answers, whatever its state.
Ask(e, S, otherwise) ==
  /\ IF S = {}
       THEN Goto(e, otherwise) /\ UNCHANGED queryVars
       ELSE /\ asked' = [asked EXCEPT ![e] = Nearest(e, S)]
            /\ seen' = [seen EXCEPT ![e] = dpyctx_[Nearest(e, S)]]
            /\ Goto(e, "answer")
            /\ UNCHANGED query
  /\ UNCHANGED <<chain, gstState, dpyctx_, device, contexts, heap, displayHistory>>

Behind(e) == Answering({f \in Elements : f > e})
Before(e) == Answering({f \in Elements : f < e})

\* Mutant of AskDown: mfx_gst_query_context() starts with the sink pad.
AskDownLast(e) ==
  pc[e] = "askDown" /\ Ask(e, IF Before(e) # {} THEN Before(e) ELSE Behind(e), "askUp")

AskDown(e) == pc[e] = "askDown" /\ Ask(e, Behind(e), "askUp")
AskUp(e) == pc[e] = "askUp" /\ Ask(e, Before(e), "display")

\* The answer is a context, also when there is no display to put into it.
Answer(e) ==
  /\ pc[e] = "answer"
  /\ heap' = NewContext(heap, FreeContext, seen[e])
  /\ query' = [query EXCEPT ![e] = FreeContext]
  /\ asked' = [asked EXCEPT ![e] = None]
  /\ Goto(e, "take")
  /\ dangling' = (dangling \/ (seen[e] # None /\ heap.display[seen[e]].refs = 0))
  /\ UNCHANGED <<chain, gstState, seen, dpyctx_, device, contexts, changes, faults, ordered>>

\* The rest of QueryDisplay(): gst_element_set_context(), the end of the query,
\* mfx_gst_get_contextdata() and the release of a context that is not its own.
Take(e) ==
  LET c == query[e]
      d == heap.context[c].display
      listed == UnrefContext(RefContext(heap, c), contexts[e])
      queried == UnrefContext(listed, c)
  IN  /\ pc[e] = "take"
      /\ heap' = UnrefContext(RefDisplay(queried, d), c)
      /\ contexts' = [contexts EXCEPT ![e] = c]
      /\ dpyctx_' = [dpyctx_ EXCEPT ![e] = d]
      /\ query' = [query EXCEPT ![e] = None]
      /\ seen' = [seen EXCEPT ![e] = None]
      /\ Goto(e, IF d = None THEN "display" ELSE "allocator")
      /\ UNCHANGED <<chain, gstState, asked, device, displayHistory>>

\* A display of its own, the only one that is tested.
OpenDisplay(e) ==
  /\ pc[e] = "display"
  /\ dpyctx_' = [dpyctx_ EXCEPT ![e] = FreeDisplay]
  /\ \/ /\ heap' = NewDisplay(heap, FreeDisplay, TRUE)
        /\ Goto(e, "allocator")
        /\ UNCHANGED displayHistory
     \/ heap' = NewDisplay(heap, FreeDisplay, FALSE) /\ Fail(e)
  /\ UNCHANGED <<chain, gstState, queryVars, device, contexts>>

\* allocator_->Init(), which refuses a display that is not valid, and SetHandle().
MakeAllocator(e) ==
  /\ pc[e] = "allocator"
  /\ IF heap.display[dpyctx_[e]].valid
       THEN \/ /\ device' = [device EXCEPT ![e] = dpyctx_[e]]
               /\ Goto(e, "codec")
               /\ UNCHANGED displayHistory
            \/ Fail(e) /\ UNCHANGED device
       ELSE Goto(e, "undo") /\ UNCHANGED <<device, displayHistory>>
  /\ UNCHANGED <<chain, gstState, queryVars, dpyctx_, contexts, heap>>

\* The codec object and SetFrameAllocator(); then the base class: READY.
MakeCodec(e) ==
  /\ pc[e] = "codec"
  /\ \/ /\ gstState' = [gstState EXCEPT ![e] = "ready"]
        /\ Goto(e, "idle")
        /\ UNCHANGED displayHistory
     \/ Fail(e) /\ UNCHANGED gstState
  /\ UNCHANGED <<chain, queryVars, dpyctx_, device, contexts, heap>>

\* MSDK_OBJECT_UNREF(dpyctx_).
LetDisplayGo(e) ==
  /\ heap' = UnrefDisplay(heap, dpyctx_[e])
  /\ dpyctx_' = [dpyctx_ EXCEPT ![e] = None]

\* The label _error: the codec, session and allocator first.  The list keeps its
\* context.
Undo(e) ==
  /\ pc[e] = "undo"
  /\ device' = [device EXCEPT ![e] = None]
  /\ LetDisplayGo(e)
  /\ Goto(e, "idle")
  /\ UNCHANGED <<chain, gstState, queryVars, contexts, displayHistory>>

-----------------------------------------------------------------------------
(* READY to NULL: the base class, then Dispose().                          *)

ToNull(e) ==
  /\ gstState[e] = "ready" /\ pc[e] = "idle"
  /\ Cardinality(Busy) < MaxChanging
  /\ Goto(e, "drop")
  /\ UNCHANGED <<chain, gstState, queryVars, dpyctx_, device, contexts, heap, displayHistory>>

\* The base class clears the list; the contexts are not persistent.
DropContext(e) ==
  /\ pc[e] = "drop"
  /\ heap' = UnrefContext(heap, contexts[e])
  /\ contexts' = [contexts EXCEPT ![e] = None]
  /\ Goto(e, "free")
  /\ UNCHANGED <<chain, gstState, queryVars, dpyctx_, device, displayHistory>>

\* Mutant of FreeDevice: the display goes first.
FreeDeviceLast(e) ==
  /\ pc[e] = "free"
  /\ LetDisplayGo(e)
  /\ Goto(e, "unref")
  /\ UNCHANGED <<chain, gstState, queryVars, device, contexts, displayHistory>>

\* Codec, session and allocator.
FreeDevice(e) ==
  /\ pc[e] = "free"
  /\ device' = [device EXCEPT ![e] = None]
  /\ Goto(e, "unref")
  /\ UNCHANGED <<chain, gstState, queryVars, dpyctx_, contexts, heap, displayHistory>>

ReleaseDisplay(e) ==
  /\ pc[e] = "unref"
  /\ LetDisplayGo(e)
  /\ gstState' = [gstState EXCEPT ![e] = "null"]
  /\ Goto(e, "idle")
  /\ UNCHANGED <<chain, queryVars, device, contexts, displayHistory>>

\* The element itself is finalized, with its list.
Finalize(e) ==
  /\ gstState[e] = "null" /\ pc[e] = "idle"
  /\ \A f \in Elements : asked[f] # e
  /\ gstState' = [gstState EXCEPT ![e] = "gone"]
  /\ heap' = UnrefContext(heap, contexts[e])
  /\ contexts' = [contexts EXCEPT ![e] = None]
  /\ UNCHANGED <<chain, pc, queryVars, dpyctx_, device, displayHistory>>

ChangeStep(e) ==
  \/ MakeSession(e) \/ AskDown(e) \/ AskUp(e) \/ Answer(e) \/ Take(e) \/ OpenDisplay(e)
  \/ MakeAllocator(e) \/ MakeCodec(e) \/ Undo(e)
  \/ DropContext(e) \/ FreeDevice(e) \/ ReleaseDisplay(e)

DisplayNext ==
  \E e \in Elements : ToReady(e) \/ ToNull(e) \/ Finalize(e) \/ ChangeStep(e)

DisplaySpec == DisplayInit /\ [][DisplayNext]_displayVars

-----------------------------------------------------------------------------
(* Properties.                                                             *)

Holders(d) ==
  Cardinality({e \in Elements : dpyctx_[e] = d})
    + Cardinality({c \in Contexts : heap.context[c].refs > 0 /\ heap.context[c].display = d})

\* A query that is answered counts twice: it holds a reference, and so does the
\* answer, which QueryDisplay() gives up in its place.
ContextHolders(c) ==
  Cardinality({e \in Elements : contexts[e] = c})
    + 2 * Cardinality({e \in Elements : query[e] = c})

(***************************************************************************)
(* Types, and the counts are exact: a display has as many references as    *)
(* there are elements and contexts that point to it, a context as many as  *)
(* lists and queries.  The answering element leaks one reference of the    *)
(* context and the asking one gives up one it never had, so a change of    *)
(* either half alone frees a context in use or keeps a display open for    *)
(* ever; with the counts exact nothing is left when all elements are gone. *)
(* Only an answer made while the neighbour disposes can break them.        *)
(***************************************************************************)
DisplaysCounted ==
  /\ DisplayTypeOK
  /\ ~dangling =>
       /\ \A d \in Displays : heap.display[d].refs = Holders(d)
       /\ \A c \in Contexts : heap.context[c].refs = ContextHolders(c)

(***************************************************************************)
(* An allocator and its session work on a display that is open, in         *)
(* whatever order the elements that share it go down: Dispose() and the    *)
(* label _error release the display after those that use it, and a display *)
(* that another element closes stays open for this one.                    *)
(***************************************************************************)
InUseIsAlive ==
  \A e \in Elements : device[e] # None /\ ~dangling =>
    heap.display[device[e]].refs > 0 /\ heap.display[device[e]].valid

(***************************************************************************)
(* Neighbours share a display when a bin has raised the pipeline, from the *)
(* sink to the source: a surface in video memory means nothing on another. *)
(* An encoder never asks, so other orders, and an encoder restarted alone, *)
(* give two displays.                                                      *)
(***************************************************************************)
OneDisplay ==
  ordered =>
    \A e, f \in Elements :
      f = e + 1 /\ device[e] # None /\ device[f] # None
        /\ gstState[e] = "ready" /\ gstState[f] = "ready" /\ Kind(f) \in {"vpp", "venc"}
        => device[e] = device[f]

=============================================================================
