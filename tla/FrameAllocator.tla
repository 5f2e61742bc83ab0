--------------------------- MODULE FrameAllocator ---------------------------
(***************************************************************************)
(* BaseFrameAllocator and the VA-API allocator under it: requests of video *)
(* surfaces, each answered by a response, and the two lists of responses   *)
(* in which the allocator remembers what to release.                       *)
(*                                                                         *)
(* The surfaces made by one call of vaCreateSurfaces() live and die        *)
(* together, so a response is the number of the allocation and the count   *)
(* of its frames; two responses have the same mids when they have the same *)
(* number (IsSame()).  A request's AllocId and crop size, which together   *)
(* choose a cached response, are one "key".                                *)
(***************************************************************************)
EXTENDS Integers, FiniteSets

CONSTANTS
  MaxFrames,  \* bound: frames in a request
  MaxAllocs,  \* bound: allocations of surfaces
  Keys        \* AllocId and crop size of a request

ASSUME AllocatorBounds == MaxFrames \in Nat \ {0, 1} /\ MaxAllocs \in Nat

VARIABLES
  allocator,     \* allocator_: is there an object?
  responses,     \* m_responses
  extResponses,  \* m_ExtResponses
  surfaces,      \* the allocations whose VA surfaces exist
  allocs,        \* how many allocations were made
  releases       \* history: how often the surfaces of each were destroyed

allocatorVars == <<allocator, responses, extResponses, surfaces, allocs, releases>>

Allocations == 1 .. MaxAllocs
NoResponse == [id |-> 0, n |-> 0]                 \* mids = NULL
Responses == [id : Allocations, n : 1 .. MaxFrames]
Origins == {"decode", "vppout", "internal"}       \* EXTERNAL_FRAME | FROM_..., or internal
Requests == [from : Origins, key : Keys, n : 0 .. MaxFrames]

AllocatorTypeOK ==
  /\ allocator \in BOOLEAN
  /\ responses \subseteq Responses
  /\ extResponses \subseteq [id : Allocations, n : 1 .. MaxFrames, key : Keys, refs : Nat \ {0}]
  /\ surfaces \subseteq Allocations
  /\ allocs \in 0 .. MaxAllocs
  /\ releases \in [Allocations -> Nat]

AllocatorInit ==
  /\ allocator = FALSE
  /\ responses = {} /\ extResponses = {} /\ surfaces = {}
  /\ allocs = 0 /\ releases = [a \in Allocations |-> 0]

New ==
  /\ ~allocator /\ allocator' = TRUE
  /\ responses' = {} /\ extResponses' = {}
  /\ UNCHANGED <<surfaces, allocs, releases>>

-----------------------------------------------------------------------------
(* AllocImpl() makes all the surfaces of a request or none.                *)
AllocImpl(request, response) ==
  /\ allocs < MaxAllocs
  /\ response = [id |-> allocs + 1, n |-> request.n]
  /\ allocs' = allocs + 1
  /\ surfaces' = surfaces \cup {response.id}

AllocImplFails(response) == response = NoResponse /\ UNCHANGED <<allocs, surfaces>>

Cached(request) == {e \in extResponses : e.key = request.key}

AsResponse(e) == [id |-> e.id, n |-> e.n]

\* Mutant of AllocCached: a response given again is not counted.
AllocCachedUncounted(request, response) ==
  \E e \in Cached(request) :
    /\ UNCHANGED <<responses, surfaces, allocs, extResponses>>
    /\ response = IF request.n > e.n THEN NoResponse ELSE AsResponse(e)

\* A decoder's external frames: those of an earlier request are given again.
AllocCached(request, response) ==
  \E e \in Cached(request) :
    /\ UNCHANGED <<responses, surfaces, allocs>>
    /\ IF request.n > e.n
       THEN response = NoResponse /\ UNCHANGED extResponses
       ELSE /\ response = AsResponse(e)
            /\ extResponses' = (extResponses \ {e}) \cup {[e EXCEPT !.refs = @ + 1]}

AllocExternal(request, response) ==
  IF Cached(request) # {} THEN AllocCached(request, response)
  ELSE /\ UNCHANGED responses
       /\ \/ AllocImplFails(response) /\ UNCHANGED extResponses
          \/ /\ AllocImpl(request, response)
             /\ extResponses' = extResponses \cup
                  {[id |-> response.id, n |-> response.n, key |-> request.key, refs |-> 1]}

AllocInternal(request, response) ==
  /\ UNCHANGED extResponses
  /\ \/ AllocImplFails(response) /\ UNCHANGED responses
     \/ AllocImpl(request, response) /\ responses' = responses \cup {response}

AllocFrames(request, response) ==
  /\ UNCHANGED <<allocator, releases>>
  /\ IF request.n = 0
     THEN response = NoResponse /\ UNCHANGED <<responses, extResponses, surfaces, allocs>>
     ELSE IF request.from = "decode" THEN AllocExternal(request, response)
     ELSE AllocInternal(request, response)

-----------------------------------------------------------------------------
ReleaseResponse(ids) ==
  /\ surfaces' = surfaces \ ids
  /\ releases' = [a \in Allocations |-> IF a \in ids THEN releases[a] + 1 ELSE releases[a]]

\* Mutant of FreeExternal: whoever frees a shared response first destroys its surfaces.
FreeExternalUncounted(e) ==
  /\ UNCHANGED responses
  /\ ReleaseResponse({e.id}) /\ extResponses' = extResponses \ {e}

FreeExternal(e) ==
  /\ UNCHANGED responses
  /\ IF e.refs = 1
     THEN ReleaseResponse({e.id}) /\ extResponses' = extResponses \ {e}
     ELSE /\ extResponses' = (extResponses \ {e}) \cup {[e EXCEPT !.refs = @ - 1]}
          /\ UNCHANGED <<surfaces, releases>>

\* Mutant of FreeInternal: the response stays in the list.
FreeInternalKeeps(response) ==
  ReleaseResponse({response.id}) /\ UNCHANGED <<responses, extResponses>>

FreeInternal(response) ==
  /\ ReleaseResponse({response.id})
  /\ responses' = responses \ {response} /\ UNCHANGED extResponses

FreeFrames(response) ==
  /\ UNCHANGED <<allocator, allocs>>
  /\ IF \E e \in extResponses : AsResponse(e) = response
     THEN \E e \in extResponses : AsResponse(e) = response /\ FreeExternal(e)
     ELSE IF response \in responses THEN FreeInternal(response)
     ELSE UNCHANGED <<responses, extResponses, surfaces, releases>>

\* The destructor: Close() releases whatever the two lists still hold.
Delete ==
  /\ allocator /\ allocator' = FALSE
  /\ ReleaseResponse({e.id : e \in extResponses} \cup {r.id : r \in responses})
  /\ responses' = {} /\ extResponses' = {}
  /\ UNCHANGED allocs
=============================================================================
