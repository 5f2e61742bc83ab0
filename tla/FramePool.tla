----------------------------- MODULE FramePool ------------------------------
(***************************************************************************)
(* The output frames of the decoder and of the video processor: the pool   *)
(* (mfxGstVideoFramePoolWrap over GstMfxVideoFramePool over GStreamer's    *)
(* GstBufferPool), the GstAllocator which owns the pool's response, and    *)
(* the frame allocator they share with the codec.                          *)
(*                                                                         *)
(* A pool outlives Close() while any of its buffers is held, for each such *)
(* buffer refers to it, so downstream decides when its surfaces are freed. *)
(* Pools are numbered in the order of their creation.  A pool of system    *)
(* memory takes no surfaces and is not modelled.                           *)
(***************************************************************************)
EXTENDS FrameAllocator

CONSTANTS
  PoolOrigins,  \* where the pool's request may be from: the decoder, the processor
  MaxPools,     \* bound: pools ever made
  MaxBases,     \* bound: calls of InitBase()
  MaxDiscards,  \* bound: buffers of one pool that downstream made unusable
  MaxCodec      \* bound: responses the codec holds at once

ASSUME OriginAssumption == PoolOrigins \subseteq {"decode", "vppout"} /\ PoolOrigins # {}
ASSUME PoolBounds ==
  {MaxPools, MaxBases} \subseteq Nat \ {0} /\ {MaxDiscards, MaxCodec} \subseteq Nat

VARIABLES
  origin,    \* the kind of element
  pool,      \* pool_: the number of the current pool, 0 for NULL
  pools,     \* how many pools were made
  size,      \* NumFrameSuggested of each, its least and greatest count of buffers
  response,  \* GstMfxMemoryAllocator::response of each
  active,    \* is the pool active?
  life,      \* the allocator of each, by the call of InitBase() that made it
  final,     \* the pools which are finalised
  made,      \* the buffers of each that exist, by index in its mids
  used,      \* num_frames_used of each
  holders,   \* who holds each buffer: the executor, downstream
  codec,     \* the responses the codec holds, one per successful Alloc
  cpc,       \* "none", "open", or the place in Dispose()
  bases,     \* history: calls of InitBase()
  discards,  \* history: buffers of each pool that were not taken back
  kept,      \* history: pools of which downstream held a buffer when an allocator was deleted
  lateFree   \* the pools which called Free of a deleted allocator

poolVars == <<origin, pool, pools, size, response, active, final, life>>
bufferVars == <<made, used, holders, discards>>
historyVars == <<bases, kept, lateFree>>
framePoolVars == <<allocatorVars, poolVars, bufferVars, codec, cpc, historyVars>>

PoolIds == 1 .. MaxPools
Indices == 1 .. MaxFrames + MaxDiscards
Tickets == 1 .. MaxCodec
Users == {"executor", "downstream"}

PoolTypeOK ==
  /\ AllocatorTypeOK /\ origin \in PoolOrigins
  /\ pools \in 0 .. MaxPools /\ pool \in 0 .. pools
  /\ size \in [PoolIds -> 0 .. MaxFrames]
  /\ response \in [PoolIds -> Responses \cup {NoResponse}]
  /\ active \in [PoolIds -> BOOLEAN] /\ final \subseteq 1 .. pools
  /\ made \in [PoolIds -> SUBSET Indices]
  /\ used \in [PoolIds -> Nat]
  /\ holders \in [PoolIds -> [Indices -> SUBSET Users]]
  /\ codec \in [Tickets -> Responses \cup {NoResponse}]
  /\ cpc \in {"none", "open", "codec", "locked", "pool", "allocator"}
  /\ bases \in 0 .. MaxBases /\ discards \in [PoolIds -> 0 .. MaxDiscards]
  /\ kept \subseteq PoolIds /\ lateFree \subseteq PoolIds
  /\ life \in [PoolIds -> 0 .. MaxBases]

PoolInit ==
  /\ AllocatorInit /\ origin \in PoolOrigins
  /\ pool = 0 /\ pools = 0
  /\ size = [p \in PoolIds |-> 0] /\ response = [p \in PoolIds |-> NoResponse]
  /\ active = [p \in PoolIds |-> FALSE] /\ final = {} /\ life = [p \in PoolIds |-> 0]
  /\ made = [p \in PoolIds |-> {}] /\ used = [p \in PoolIds |-> 0]
  /\ holders = [p \in PoolIds |-> [i \in Indices |-> {}]]
  /\ codec = [t \in Tickets |-> NoResponse] /\ cpc = "none"
  /\ bases = 0 /\ discards = [p \in PoolIds |-> 0]
  /\ kept = {} /\ lateFree = {}

Held(p) == {i \in made[p] : holders[p][i] # {}}
Idle(p) == {i \in made[p] : holders[p][i] = {}}

-----------------------------------------------------------------------------
(* The executor's functions.                                               *)

InitBase ==
  /\ cpc = "none" /\ bases < MaxBases
  /\ New
  /\ cpc' = "open" /\ bases' = bases + 1
  /\ UNCHANGED <<poolVars, bufferVars, codec, kept, lateFree>>

\* gst_buffer_pool_set_active(TRUE) makes the least count of buffers, each of
\* which takes the next surface (alloc_buffer).
Activate(p, n) ==
  /\ active' = [active EXCEPT ![p] = TRUE]
  /\ made' = [made EXCEPT ![p] = 1 .. n]
  /\ used' = [used EXCEPT ![p] = n]

\* The pool part of Init(): the codec asked for n frames, and gets at least two.
\* When Alloc fails there is no pool (its two objects are never released).
Suggested(n) == IF n = 1 THEN 2 ELSE n
InitPool(n, key) ==
  /\ cpc = "open" /\ pool = 0 /\ pools < MaxPools
  /\ \E r \in Responses \cup {NoResponse} :
       /\ AllocFrames([from |-> origin, key |-> key, n |-> Suggested(n)], r)
       /\ IF r = NoResponse THEN UNCHANGED <<poolVars, made, used>>
          ELSE /\ pools' = pools + 1 /\ pool' = pools + 1
               /\ size' = [size EXCEPT ![pools + 1] = Suggested(n)]
               /\ response' = [response EXCEPT ![pools + 1] = r]
               /\ Activate(pools + 1, Suggested(n))
               /\ life' = [life EXCEPT ![pools + 1] = bases]
               /\ UNCHANGED <<origin, final>>
  /\ UNCHANGED <<holders, discards, codec, cpc, historyVars>>

\* mfxGstVideoFramePoolWrap::GetBuffer(), which waits while no buffer is idle
\* and all that the pool may have exist.
GetIdle(i) ==
  /\ pool # 0 /\ cpc = "open"
  /\ i \in Idle(pool)
  /\ holders' = [holders EXCEPT ![pool][i] = {"executor"}]
  /\ UNCHANGED <<made, used>>

MayGrow(p) == Cardinality(made[p]) < size[p]

GetNew ==
  /\ pool # 0 /\ cpc = "open"
  /\ Idle(pool) = {} /\ MayGrow(pool)
  /\ used' = [used EXCEPT ![pool] = @ + 1]
  /\ made' = [made EXCEPT ![pool] = @ \cup {used'[pool]}]
  /\ holders' = [holders EXCEPT ![pool][used'[pool]] = {"executor"}]

GetBuffer ==
  /\ GetNew \/ \E i \in Indices : GetIdle(i)
  /\ UNCHANGED <<allocatorVars, poolVars, discards, codec, cpc, historyVars>>

\* The sync task gives the frame downstream; the executor may keep its own
\* reference (locked_frames_).
Push(p, i) ==
  /\ cpc = "open" /\ holders[p][i] = {"executor"}
  /\ holders' = [holders EXCEPT ![p][i] = Users]
  /\ UNCHANGED <<allocatorVars, poolVars, made, used, discards, codec, cpc, historyVars>>

-----------------------------------------------------------------------------
(* The end of references.                                                  *)

\* What gst_mfx_memory_allocator_finalize() frees when pool p is finalised.  A
\* pool of an earlier life has nothing to call: that is undefined behaviour, of
\* which the model takes the least outcome.
FreeResponse(p) ==
  IF allocator /\ life[p] = bases
  THEN FreeFrames(response[p]) /\ UNCHANGED lateFree
  ELSE lateFree' = lateFree \cup {p} /\ UNCHANGED allocatorVars

\* Pool p is finalised once pool_ has let it go and no buffer refers to it; an
\* inactive pool does not keep the buffers that come back.
Settle(p) ==
  IF ~active'[p] /\ \A i \in made[p] : holders'[p][i] = {}
  THEN /\ made' = [made EXCEPT ![p] = {}] /\ final' = final \cup {p}
       /\ FreeResponse(p)
  ELSE UNCHANGED <<made, final, allocatorVars, lateFree>>

\* A user drops its reference to a buffer.
LetGo(u, p, i) ==
  /\ i \in made[p] /\ u \in holders[p][i]
  /\ holders' = [holders EXCEPT ![p][i] = @ \ {u}]
  /\ UNCHANGED active /\ Settle(p)
  /\ UNCHANGED <<origin, pool, pools, size, response, life, used, discards,
                 codec, cpc, bases, kept>>

\* Downstream has changed the memory of a buffer, so the active pool throws it away.
Discard(p, i) ==
  /\ active[p] /\ discards[p] < MaxDiscards
  /\ i \in made[p] /\ holders[p][i] = {"downstream"}
  /\ holders' = [holders EXCEPT ![p][i] = {}]
  /\ made' = [made EXCEPT ![p] = @ \ {i}]
  /\ discards' = [discards EXCEPT ![p] = @ + 1]
  /\ UNCHANGED <<allocatorVars, poolVars, used, codec, cpc, historyVars>>

ExecutorDrops(p, i) == cpc \in {"open", "locked"} /\ LetGo("executor", p, i)
DownstreamDrops(p, i) == LetGo("downstream", p, i)

-----------------------------------------------------------------------------
(* The codec uses the same allocator: it asks again for the decoder's      *)
(* surfaces, and for its own.                                              *)
CodecRequests == {r \in Requests : r.from # "vppout" /\ r.n > 0}
CodecAllocs(request, t) ==
  /\ cpc = "open" /\ pool # 0 /\ codec[t] = NoResponse
  /\ \E r \in Responses \cup {NoResponse} :
       AllocFrames(request, r) /\ codec' = [codec EXCEPT ![t] = r]
  /\ UNCHANGED <<poolVars, bufferVars, cpc, historyVars>>

CodecFrees(t) ==
  /\ cpc \in {"open", "codec"} /\ codec[t] # NoResponse
  /\ FreeFrames(codec[t])
  /\ codec' = [codec EXCEPT ![t] = NoResponse]
  /\ UNCHANGED <<poolVars, bufferVars, cpc, historyVars>>

-----------------------------------------------------------------------------
(* Dispose(), after the work threads have stopped; downstream runs on.     *)

BeginDispose ==
  /\ cpc = "open" /\ cpc' = "codec"
  /\ UNCHANGED <<allocatorVars, poolVars, bufferVars, codec, historyVars>>

\* The codec and its session go, and everything they had allocated.
CodecGone ==
  /\ cpc = "codec" /\ \A t \in Tickets : codec[t] = NoResponse
  /\ cpc' = "locked"
  /\ UNCHANGED <<allocatorVars, poolVars, bufferVars, codec, historyVars>>

\* locked_frames_.clear(), and the frames that tasks held, one after the other
\* (ExecutorDrops): the last of a pool that Init() closed finalises it.
ClearLocked ==
  /\ cpc = "locked" /\ \A p \in PoolIds, i \in Indices : "executor" \notin holders[p][i]
  /\ cpc' = "pool"
  /\ UNCHANGED <<allocatorVars, poolVars, bufferVars, codec, historyVars>>

\* mfxGstVideoFramePoolWrap::Close()
PoolClose ==
  IF pool = 0
  THEN UNCHANGED <<allocatorVars, poolVars, made, holders, kept, lateFree>>
  ELSE /\ pool' = 0
       /\ active' = [active EXCEPT ![pool] = FALSE]
       /\ UNCHANGED <<origin, pools, size, response, life, holders, kept>>
       /\ Settle(pool)
ClosePool ==
  /\ cpc = "pool" /\ PoolClose
  /\ cpc' = "allocator"
  /\ UNCHANGED <<used, discards, codec, bases>>

DeleteAllocator ==
  /\ cpc = "allocator" /\ Delete
  /\ cpc' = "none"
  /\ kept' = kept \cup {p \in PoolIds : \E i \in Held(p) : "downstream" \in holders[p][i]}
  /\ UNCHANGED <<poolVars, bufferVars, codec, bases, lateFree>>

\* The _error label of Init(): the pool is closed, then the codec, which frees
\* (CodecFrees) what it has.  Init() may be a second one, with frames in use.
InitFails ==
  /\ cpc = "open" /\ pool # 0
  /\ PoolClose
  /\ UNCHANGED <<used, discards, codec, cpc, bases>>

-----------------------------------------------------------------------------
PoolNext ==
  \/ InitBase \/ BeginDispose \/ CodecGone \/ ClearLocked \/ ClosePool
  \/ DeleteAllocator \/ InitFails \/ GetBuffer
  \/ \E n \in 0 .. MaxFrames, key \in Keys : InitPool(n, key)
  \/ \E p \in PoolIds, i \in Indices :
       \/ Push(p, i) \/ Discard(p, i)
       \/ ExecutorDrops(p, i) \/ DownstreamDrops(p, i)
  \/ \E t \in Tickets :
       \/ CodecFrees(t)
       \/ \E request \in CodecRequests : CodecAllocs(request, t)

PoolSpec == PoolInit /\ [][PoolNext]_framePoolVars

-----------------------------------------------------------------------------
\* Every buffer in circulation has a surface that exists while the allocator does:
\* neither the codec's Free of the frames it shares with the pool nor the end of
\* an earlier pool destroys what a buffer still uses.  And alloc_buffer() reads
\* beyond the mids of the response only after a buffer of that pool was thrown away.
SurfacesLive ==
  /\ allocator =>
       \A p \in (1 .. pools) \ final : life[p] = bases => response[p].id \in surfaces
  /\ \A p \in 1 .. pools : used[p] <= size[p] + discards[p]

\* Types, and: each cached response counts those who will free it.
Owners(id) ==
  Cardinality({p \in 1 .. pools : response[p].id = id /\ p \notin final})
    + Cardinality({t \in Tickets : codec[t].id = id})
ResponsesCounted ==
  PoolTypeOK /\ (allocator => \A e \in extResponses : e.refs = Owners(e.id))

\* Surfaces are destroyed once, and none outlives the allocator; Free is called of a
\* deleted allocator only by a pool of which downstream held a buffer by then.
DestroyedOnce ==
  /\ \A a \in Allocations : releases[a] <= 1
  /\ ~allocator => surfaces = {}
  /\ lateFree \subseteq kept
=============================================================================
