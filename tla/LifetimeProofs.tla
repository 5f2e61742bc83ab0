--------------------------- MODULE LifetimeProofs ---------------------------
(***************************************************************************)
(* Proofs of the properties of what an element holds over its life:        *)
(*                                                                         *)
(*   - DisplaySharing: the displays, the contexts that carry them from     *)
(*     element to element, and the device each display is on;              *)
(*   - ElementLifecycle: the resources that an element acquires and        *)
(*     releases, and the threads that use them.                            *)
(*                                                                         *)
(* In the first the invariant says which places hold a pointer, and        *)
(* equates the counter that the code keeps in an object with the number    *)
(* of those places.  In the second it says what each function has acquired *)
(* or released so far, step by step, and which thread may be at work       *)
(* meanwhile.                                                              *)
(***************************************************************************)
EXTENDS DisplaySharing, ElementLifecycle, QueueCounts
-----------------------------------------------------------------------------
(* Displays, contexts and those who hold them (DisplaySharing).            *)

Hit(x, y) == IF x = y THEN 1 ELSE 0

\* How many of S point to d.
Pointing(S, f, d) == Cardinality({y \in S : f[y] = d})

\* One of them points elsewhere.
LEMMA Retarget ==
  ASSUME NEW S, IsFiniteSet(S), NEW f, NEW g, NEW x \in S, \A y \in S : y # x => g[y] = f[y], NEW d
  PROVE  /\ Pointing(S, f, d) \in Nat /\ Pointing(S, g, d) \in Nat
         /\ Pointing(S, g, d) = Pointing(S, f, d) + Hit(g[x], d) - Hit(f[x], d)
<1> DEFINE A == {y \in S : f[y] = d}
           B == {y \in S : g[y] = d}
<1>1. A \in SUBSET S /\ B \in SUBSET S /\ (x \in A <=> f[x] = d) /\ (x \in B <=> g[x] = d)
  OBVIOUS
<1>2. A \ {x} = B \ {x}
  OBVIOUS
<1>0. Pointing(S, f, d) = Cardinality(A) /\ Pointing(S, g, d) = Cardinality(B)
  BY DEF Pointing
<1> HIDE DEF A, B
<1>3. Cardinality(A) \in Nat /\ Cardinality(A \ {x}) = Cardinality(A) - One(x \in A)
  BY <1>1, Without
<1>4. Cardinality(B) \in Nat /\ Cardinality(B \ {x}) = Cardinality(B) - One(x \in B)
  BY <1>1, Without
<1>5. Cardinality(A \ {x}) = Cardinality(A) - Hit(f[x], d)
  BY <1>1, <1>3 DEF One, Hit
<1>6. Cardinality(B \ {x}) = Cardinality(B) - Hit(g[x], d)
  BY <1>1, <1>4 DEF One, Hit
<1> DEFINE a == Cardinality(A)
           b == Cardinality(B)
           k == Hit(f[x], d)
           l == Hit(g[x], d)
<1>7. k \in {0, 1} /\ l \in {0, 1} /\ a \in Nat /\ b \in Nat
  BY <1>3, <1>4 DEF Hit
<1>9. a - k = b - l
  BY <1>2, <1>5, <1>6
<1> HIDE DEF a, b, k, l
<1>8. b = a + l - k
  BY <1>7, <1>9
<1> QED BY <1>0, <1>3, <1>4, <1>8 DEF a, b, k, l

(***************************************************************************)
(* Places: an element has a display only while it is up or about to be,    *)
(* the device is that display, and a context in a query is nobody else's.  *)
(***************************************************************************)
Rising == {"session", "askDown", "askUp", "answer", "take", "display", "allocator", "codec", "undo"}
Falling == {"drop", "free", "unref"}
PlaceOf(e) ==
  /\ pc[e] \in Rising => gstState[e] = "null"
  /\ pc[e] \in Falling => gstState[e] = "ready"
  /\ dpyctx_[e] # None => pc[e] \in {"allocator", "codec", "undo"} \/ gstState[e] = "ready"
  /\ device[e] # None => device[e] = dpyctx_[e] /\ pc[e] # "unref"
  /\ query[e] # None <=> pc[e] = "take"
  /\ seen[e] # None => pc[e] \in {"answer", "take"}
  /\ query[e] # None => heap.context[query[e]].display = seen[e]
QueryAlone(e) ==
  query[e] # None => \A f \in Elements : contexts[f] # query[e] /\ (f # e => query[f] # query[e])

(***************************************************************************)
(* Counts: the context's are exact; a display has no more references than  *)
(* holders, and as many while no answer was given too late.                *)
(***************************************************************************)
Heaps == [context : [Contexts -> [refs : Nat, display : Displays \cup {None}]],
          display : [Displays -> [refs : Nat, valid : BOOLEAN]]]
ContextsExact == \A c \in Contexts : heap.context[c].refs = ContextHolders(c)
DisplayCount(d) ==
  heap.display[d].refs <= Holders(d) /\ (~dangling => heap.display[d].refs = Holders(d))
DevicesValid == \A e \in Elements : device[e] # None /\ ~dangling => heap.display[device[e]].valid

(***************************************************************************)
(* Order: an element is raised while those before it are down, so it and   *)
(* the one before it, which asks it, end with the same display.            *)
(***************************************************************************)
RaisedAlone(e) ==
  pc[e] \in Rising => \A g \in Elements : g < e => pc[g] = "idle" /\ gstState[g] # "ready"
SharesWith(e, f) ==
  f = e + 1 /\ Kind(f) \in {"vpp", "venc"} /\ gstState[f] = "ready" /\ device[f] # None =>
    /\ pc[e] \notin {"askUp", "display"}
    /\ pc[e] \in {"answer", "take"} => seen[e] = device[f]
    /\ dpyctx_[e] \in {None, device[f]}
OrderInv == ordered => \A e \in Elements : RaisedAlone(e) /\ \A f \in Elements : SharesWith(e, f)

PlacesInv == \A e \in Elements : PlaceOf(e) /\ QueryAlone(e)
CountsInv == ContextsExact /\ (\A d \in Displays : DisplayCount(d)) /\ DevicesValid
SharingInv == DisplayTypeOK /\ heap \in Heaps /\ PlacesInv /\ CountsInv /\ OrderInv
-----------------------------------------------------------------------------
(* The elements and the objects of a chain.                                *)

LEMMA ImageSize ==
  ASSUME NEW S, IsFiniteSet(S), NEW f
  PROVE  IsFiniteSet({f[x] : x \in S}) /\ Cardinality({f[x] : x \in S}) <= Cardinality(S)
<1> DEFINE T == {f[x] : x \in S}
           h == [x \in S |-> f[x]]
<1>1. h \in [S -> T] /\ \A t \in T : \E s \in S : h[s] = t
  OBVIOUS
<1> HIDE DEF T, h
<1>2. h \in Surjection(S, T)
  BY <1>1 DEF Surjection
<1>3. IsFiniteSet(T) /\ Cardinality(T) <= Cardinality(S)
  BY <1>2, FS_Surjection
<1> QED BY <1>3 DEF T

LEMMA ChainFacts ==
  ASSUME chain \in Chains
  PROVE  /\ Len(chain) \in Nat \ {0} /\ Elements = 1 .. Len(chain)
         /\ IsFiniteSet(Elements) /\ Cardinality(Elements) = Len(chain)
         /\ Displays = 1 .. 2 * Len(chain) /\ Contexts = 1 .. 2 * Len(chain)
         /\ IsFiniteSet(Contexts) /\ Cardinality(Contexts) = 2 * Len(chain)
         /\ \A e \in Elements : e \in Int /\ e # None
         /\ \A d \in Displays : d # None
         /\ \A e \in Elements : Kind(e) \in ElementKinds
         /\ \A e \in Elements : e + 1 \in Elements /\ Kind(e) = "venc" => Kind(e + 1) = "vdec"
<1>1. chain \in Seq(ElementTypes) /\ Len(chain) >= 1 /\ Len(chain) \in Nat
  BY ChainsAssumption
<1>2. Elements = 1 .. Len(chain)
  BY <1>1 DEF Elements
<1>3. IsFiniteSet(1 .. Len(chain)) /\ Cardinality(1 .. Len(chain)) = Len(chain)
  <2>1. Cardinality(1 .. Len(chain)) = IF 1 > Len(chain) THEN 0 ELSE Len(chain) - 1 + 1
    BY <1>1, FS_Interval
  <2> QED BY <1>1, <2>1, FS_Interval
<1>4. Displays = 1 .. 2 * Len(chain) /\ Contexts = 1 .. 2 * Len(chain)
  BY DEF Displays, Contexts, MaxObjects
<1>5. IsFiniteSet(1 .. 2 * Len(chain)) /\ Cardinality(1 .. 2 * Len(chain)) = 2 * Len(chain)
  <2> DEFINE n == 2 * Len(chain)
  <2>1. n \in Nat /\ n >= 1
    BY <1>1
  <2> HIDE DEF n
  <2>2. Cardinality(1 .. n) = IF 1 > n THEN 0 ELSE n - 1 + 1
    BY <2>1, FS_Interval
  <2>3. IsFiniteSet(1 .. n) /\ Cardinality(1 .. n) = n
    BY <2>1, <2>2, FS_Interval
  <2> QED BY <2>3 DEF n
<1>6. \A e \in Elements : e \in Int /\ e # None
  BY <1>1, <1>2 DEF None
<1>7. \A d \in Displays : d # None
  BY <1>1, <1>4 DEF None
<1>8. \A e \in Elements : Kind(e) \in ElementKinds
  <2>1. \A e \in Elements : chain[e] \in ElementTypes
    BY <1>1, <1>2
  <2> QED BY <2>1 DEF Kind, ElementTypes
<1>9. ASSUME NEW e \in Elements, e + 1 \in Elements, Kind(e) = "venc" PROVE Kind(e + 1) = "vdec"
  <2>1. e \in 1 .. Len(chain) - 1
    BY <1>1, <1>2, <1>9
  <2> QED BY <1>9, <2>1, LinksAssumption DEF Kind
<1> QED BY <1>1, <1>2, <1>3, <1>4, <1>5, <1>6, <1>7, <1>8, <1>9

LEMMA SameChain ==
  ASSUME chain' = chain
  PROVE  /\ Elements' = Elements /\ Displays' = Displays /\ Contexts' = Contexts /\ Heaps' = Heaps
         /\ \A e : Kind(e)' = Kind(e)
  BY DEF Elements, Displays, Contexts, MaxObjects, Heaps, Kind

\* The display that a context keeps.
Pointed(h, c) == IF h.context[c].refs > 0 THEN h.context[c].display ELSE None

LEMMA HoldersFacts ==
  ASSUME SharingInv, NEW d \in Displays
  PROVE  /\ Holders(d) = Cardinality({e \in Elements : dpyctx_[e] = d})
                           + Cardinality({c \in Contexts : Pointed(heap, c) = d})
         /\ Holders(d) \in Nat
         /\ \A e \in Elements : dpyctx_[e] = d => Holders(d) >= 1
         /\ \A c \in Contexts : Pointed(heap, c) = d => Holders(d) >= 1
         /\ \A e \in Elements, c \in Contexts :
              dpyctx_[e] = d /\ Pointed(heap, c) = d => Holders(d) >= 2
         /\ \A e \in Elements, f \in Elements :
              e # f /\ dpyctx_[e] = d /\ dpyctx_[f] = d => Holders(d) >= 2
         /\ \A b \in Contexts, c \in Contexts :
              b # c /\ Pointed(heap, b) = d /\ Pointed(heap, c) = d => Holders(d) >= 2
         /\ (\A e \in Elements : dpyctx_[e] # d) /\ (\A c \in Contexts : Pointed(heap, c) # d)
              => Holders(d) = 0
<1> DEFINE A == {e \in Elements : dpyctx_[e] = d}
           B == {c \in Contexts : Pointed(heap, c) = d}
<1>1. chain \in Chains
  BY DEF SharingInv, DisplayTypeOK
<1>2. IsFiniteSet(Elements) /\ IsFiniteSet(Contexts) /\ d # None
  BY <1>1, ChainFacts
<1>3. B = {c \in Contexts : heap.context[c].refs > 0 /\ heap.context[c].display = d}
  BY <1>2 DEF Pointed
<1>4. Holders(d) = Cardinality(A) + Cardinality(B)
  BY <1>3 DEF Holders
<1>5. A \in SUBSET Elements /\ B \in SUBSET Contexts
  OBVIOUS
<1> HIDE DEF A, B
<1>6. IsFiniteSet(A) /\ IsFiniteSet(B) /\ Cardinality(A) \in Nat /\ Cardinality(B) \in Nat
  BY <1>2, <1>5, FS_Subset, FS_CardinalityType
<1>7. (\A e \in A : Cardinality(A) >= 1) /\ \A e \in A, f \in A : e # f => Cardinality(A) >= 2
  <2>1. ASSUME NEW e \in A PROVE Cardinality(A) >= 1 /\ (Cardinality(A) = 1 => A = {e})
    <3>1. e \in Elements
      BY <1>5
    <3> QED BY <1>2, <1>5, <3>1, CountOf
  <2> QED BY <1>6, <2>1
<1>8. (\A e \in B : Cardinality(B) >= 1) /\ \A e \in B, f \in B : e # f => Cardinality(B) >= 2
  <2>1. ASSUME NEW e \in B PROVE Cardinality(B) >= 1 /\ (Cardinality(B) = 1 => B = {e})
    <3>1. e \in Contexts
      BY <1>5
    <3> QED BY <1>2, <1>5, <3>1, CountOf
  <2> QED BY <1>6, <2>1
<1>9. A = {} /\ B = {} => Cardinality(A) = 0 /\ Cardinality(B) = 0
  BY FS_EmptySet
<1>10. /\ \A e \in Elements : e \in A <=> dpyctx_[e] = d
       /\ \A c \in Contexts : c \in B <=> Pointed(heap, c) = d
  BY DEF A, B
<1>11. Holders(d) = Cardinality({e \in Elements : dpyctx_[e] = d})
                      + Cardinality({c \in Contexts : Pointed(heap, c) = d})
  BY <1>4 DEF A, B
<1>12. (\A e \in Elements : dpyctx_[e] # d) /\ (\A c \in Contexts : Pointed(heap, c) # d)
         => Holders(d) = 0
  BY <1>4, <1>5, <1>9, <1>10
<1>13. \A e \in A : \A c \in B : Holders(d) >= 2
  BY <1>4, <1>6, <1>7, <1>8
<1>14. (\A e \in A : Holders(d) >= 1) /\ \A c \in B : Holders(d) >= 1
  BY <1>4, <1>6, <1>7, <1>8
<1>15. (\A e \in A, f \in A : e # f => Holders(d) >= 2) /\ \A b \in B, c \in B : b # c => Holders(d) >= 2
  BY <1>4, <1>6, <1>7, <1>8
<1> QED BY <1>4, <1>6, <1>10, <1>11, <1>12, <1>13, <1>14, <1>15

LEMMA ContextHoldersFacts ==
  ASSUME SharingInv, NEW c \in Contexts
  PROVE  /\ ContextHolders(c) \in Nat
         /\ \A e \in Elements : contexts[e] = c => ContextHolders(c) >= 1
         /\ \A e \in Elements : query[e] = c => ContextHolders(c) >= 2
         /\ (\A e \in Elements : contexts[e] # c /\ query[e] # c) <=> ContextHolders(c) = 0
<1> DEFINE A == {e \in Elements : contexts[e] = c}
           B == {e \in Elements : query[e] = c}
<1>1. chain \in Chains
  BY DEF SharingInv, DisplayTypeOK
<1>2. IsFiniteSet(Elements)
  BY <1>1, ChainFacts
<1>3. ContextHolders(c) = Cardinality(A) + 2 * Cardinality(B)
  BY DEF ContextHolders
<1>4. A \in SUBSET Elements /\ B \in SUBSET Elements
  OBVIOUS
<1>5. /\ \A e \in Elements : e \in A <=> contexts[e] = c
      /\ \A e \in Elements : e \in B <=> query[e] = c
  OBVIOUS
<1> HIDE DEF A, B
<1>6. /\ Cardinality(A) \in Nat /\ Cardinality(B) \in Nat
      /\ Cardinality(A) = 0 <=> A = {}
      /\ Cardinality(B) = 0 <=> B = {}
  <2>1. IsFiniteSet(A) /\ IsFiniteSet(B)
    BY <1>2, <1>4, FS_Subset
  <2> QED BY <2>1, FS_EmptySet, FS_CardinalityType
<1>7. ContextHolders(c) \in Nat /\ (ContextHolders(c) = 0 <=> A = {} /\ B = {})
  BY <1>3, <1>6
<1>8. (A # {} => ContextHolders(c) >= 1) /\ (B # {} => ContextHolders(c) >= 2)
  BY <1>3, <1>6
<1> QED BY <1>4, <1>5, <1>7, <1>8
-----------------------------------------------------------------------------
(* What the operations on the heap do.                                     *)

LEMMA RefDisplayFacts ==
  ASSUME NEW h \in Heaps, NEW d \in Displays \cup {None}
  PROVE  /\ RefDisplay(h, d) \in Heaps /\ RefDisplay(h, d).context = h.context
         /\ \A x \in Displays :
              /\ RefDisplay(h, d).display[x].valid = h.display[x].valid
              /\ RefDisplay(h, d).display[x].refs
                   = IF x = d /\ x # None THEN Up(h.display[x].refs) ELSE h.display[x].refs
<1>1. CASE d = None
  BY <1>1 DEF RefDisplay
<1>2. CASE d # None
  <2> DEFINE k == RefDisplay(h, d)
  <2>1. k = [h EXCEPT !.display = [h.display EXCEPT ![d] = [h.display[d] EXCEPT !.refs = Up(h.display[d].refs)]]]
    BY <1>2 DEF RefDisplay
  <2>2. d \in Displays /\ h.display[d] \in [refs : Nat, valid : BOOLEAN] /\ Up(h.display[d].refs) \in Nat
    BY <1>2 DEF Heaps, Up
  <2>3. /\ k.context = h.context
        /\ k.display = [h.display EXCEPT ![d] = [h.display[d] EXCEPT !.refs = Up(h.display[d].refs)]]
    BY <2>1 DEF Heaps
  <2>4. k \in Heaps
    BY <2>1, <2>2 DEF Heaps
  <2> HIDE DEF k
  <2>5. ASSUME NEW x \in Displays
        PROVE  /\ k.display[x].valid = h.display[x].valid
               /\ k.display[x].refs = IF x = d THEN Up(h.display[x].refs) ELSE h.display[x].refs
    BY <2>2, <2>3 DEF Heaps
  <2> QED BY <1>2, <2>3, <2>4, <2>5 DEF k
<1> QED BY <1>1, <1>2

LEMMA UnrefDisplayFacts ==
  ASSUME NEW h \in Heaps, NEW d \in Displays \cup {None}
  PROVE  /\ UnrefDisplay(h, d) \in Heaps /\ UnrefDisplay(h, d).context = h.context
         /\ \A x \in Displays :
              /\ UnrefDisplay(h, d).display[x].valid
                   = (h.display[x].valid /\ (x = d /\ x # None => h.display[x].refs > 1))
              /\ UnrefDisplay(h, d).display[x].refs
                   = IF x = d /\ x # None THEN Down(h.display[x].refs) ELSE h.display[x].refs
<1>1. \A x \in Displays : h.display[x].valid \in BOOLEAN
  BY DEF Heaps
<1>2. CASE d = None
  BY <1>1, <1>2 DEF UnrefDisplay
<1>3. CASE d # None
  <2> DEFINE k == UnrefDisplay(h, d)
             r == [refs |-> Down(h.display[d].refs), valid |-> h.display[d].valid /\ h.display[d].refs > 1]
  <2>1. d \in Displays /\ h.display[d] \in [refs : Nat, valid : BOOLEAN] /\ Down(h.display[d].refs) \in Nat
    BY <1>3 DEF Heaps, Down
  <2>2. k = [h EXCEPT !.display = [h.display EXCEPT ![d] = r]]
    <3> DEFINE D == h.display
               s == [D[d] EXCEPT !.refs = Down(D[d].refs)]
               t == [s EXCEPT !.valid = s.valid /\ D[d].refs > 1]
               h1 == [h EXCEPT !.display = [D EXCEPT ![d] = s]]
               h2 == [h1 EXCEPT !.display = [h1.display EXCEPT ![d] = [h1.display[d] EXCEPT
                        !.valid = h1.display[d].valid /\ D[d].refs > 1]]]
    <3>1. k = h2
      BY <1>3 DEF UnrefDisplay
    <3>2. s = [refs |-> Down(D[d].refs), valid |-> D[d].valid]
      BY <2>1
    <3>7. t = r
      <4> DEFINE n == Down(D[d].refs)
                 b == D[d].refs > 1
                 v == D[d].valid
      <4>1. v \in BOOLEAN /\ s = [refs |-> n, valid |-> v]
        BY <2>1, <3>2
      <4>2. t = [s EXCEPT !.valid = s.valid /\ b] /\ r = [refs |-> n, valid |-> v /\ b]
        OBVIOUS
      <4> HIDE DEF n, b, v, s, t, r
      <4>3. s.valid = v
        BY <4>1
      <4>4. [[refs |-> n, valid |-> v] EXCEPT !.valid = v /\ b] = [refs |-> n, valid |-> v /\ b]
        OBVIOUS
      <4> QED BY <4>1, <4>2, <4>3, <4>4
    <3>3. h1.display = [D EXCEPT ![d] = s] /\ h1.display[d] = s
      BY <2>1 DEF Heaps
    <3>4. h2 = [h1 EXCEPT !.display = [[D EXCEPT ![d] = s] EXCEPT ![d] = t]]
      BY <3>3
    <3> HIDE DEF s, t, r
    <3>5. [[D EXCEPT ![d] = s] EXCEPT ![d] = t] = [D EXCEPT ![d] = t]
      BY <2>1 DEF Heaps
    <3>6. \A z : [[h EXCEPT !.display = [D EXCEPT ![d] = s]] EXCEPT !.display = z] = [h EXCEPT !.display = z]
      BY DEF Heaps
    <3> QED BY <3>1, <3>4, <3>5, <3>6, <3>7
  <2>3. k.context = h.context /\ k.display = [h.display EXCEPT ![d] = r]
    BY <2>2 DEF Heaps
  <2>4. r \in [refs : Nat, valid : BOOLEAN]
    BY <2>1
  <2>5. r.refs = Down(h.display[d].refs) /\ r.valid = (h.display[d].valid /\ h.display[d].refs > 1)
    OBVIOUS
  <2> HIDE DEF r, k
  <2>6. k \in Heaps
    BY <2>1, <2>2, <2>4 DEF Heaps
  <2>7. ASSUME NEW x \in Displays
        PROVE  /\ k.display[x].valid = (h.display[x].valid /\ (x = d => h.display[x].refs > 1))
               /\ k.display[x].refs = IF x = d THEN Down(h.display[x].refs) ELSE h.display[x].refs
    <3>1. CASE x = d
      <4>1. k.display[x] = r
        BY <2>1, <2>3, <3>1 DEF Heaps
      <4> QED BY <2>5, <3>1, <4>1
    <3>2. CASE x # d
      BY <1>1, <2>3, <3>2 DEF Heaps
    <3> QED BY <3>1, <3>2
  <2> QED BY <1>3, <2>3, <2>6, <2>7 DEF k
<1> QED BY <1>2, <1>3

LEMMA RefContextFacts ==
  ASSUME NEW h \in Heaps, NEW c \in Contexts
  PROVE  /\ RefContext(h, c) \in Heaps /\ RefContext(h, c).display = h.display
         /\ \A x \in Contexts :
              /\ RefContext(h, c).context[x].display = h.context[x].display
              /\ RefContext(h, c).context[x].refs
                   = IF x = c THEN Up(h.context[x].refs) ELSE h.context[x].refs
<1> DEFINE k == RefContext(h, c)
<1>1. k = [h EXCEPT !.context = [h.context EXCEPT ![c] = [h.context[c] EXCEPT !.refs = Up(h.context[c].refs)]]]
  BY DEF RefContext
<1>2. h.context[c] \in [refs : Nat, display : Displays \cup {None}] /\ Up(h.context[c].refs) \in Nat
  BY DEF Heaps, Up
<1>3. /\ k.display = h.display
      /\ k.context = [h.context EXCEPT ![c] = [h.context[c] EXCEPT !.refs = Up(h.context[c].refs)]]
  BY <1>1 DEF Heaps
<1>4. k \in Heaps
  <2> DEFINE f == [h.context EXCEPT ![c] = [h.context[c] EXCEPT !.refs = Up(h.context[c].refs)]]
  <2>1. k = [context |-> f, display |-> h.display]
    BY <1>1 DEF Heaps
  <2>2. f \in [Contexts -> [refs : Nat, display : Displays \cup {None}]]
    <3>1. [h.context[c] EXCEPT !.refs = Up(h.context[c].refs)]
            \in [refs : Nat, display : Displays \cup {None}]
      BY <1>2
    <3>2. h.context \in [Contexts -> [refs : Nat, display : Displays \cup {None}]]
      BY DEF Heaps
    <3> QED BY <3>1, <3>2
  <2>3. h.display \in [Displays -> [refs : Nat, valid : BOOLEAN]]
    BY DEF Heaps
  <2> HIDE DEF f, k
  <2> QED BY <2>1, <2>2, <2>3 DEF Heaps
<1> HIDE DEF k
<1>5. ASSUME NEW x \in Contexts
      PROVE  /\ k.context[x].display = h.context[x].display
             /\ k.context[x].refs = IF x = c THEN Up(h.context[x].refs) ELSE h.context[x].refs
  BY <1>2, <1>3 DEF Heaps
<1> QED BY <1>3, <1>4, <1>5 DEF k

\* The last reference of a context takes that of its display along.
LEMMA UnrefContextFacts ==
  ASSUME NEW h \in Heaps, NEW c \in Contexts
  PROVE  LET d == IF h.context[c].refs = 1 THEN h.context[c].display ELSE None
             k == UnrefContext(h, c)
         IN  /\ k \in Heaps
             /\ \A x \in Contexts :
                  /\ k.context[x].display = h.context[x].display
                  /\ k.context[x].refs = IF x = c THEN Down(h.context[x].refs) ELSE h.context[x].refs
             /\ \A x \in Displays :
                  /\ k.display[x].valid
                       = (h.display[x].valid /\ (x = d /\ x # None => h.display[x].refs > 1))
                  /\ k.display[x].refs
                       = IF x = d /\ x # None THEN Down(h.display[x].refs) ELSE h.display[x].refs
<1> DEFINE less == [h EXCEPT !.context[c].refs = Down(@)]
           d == IF h.context[c].refs = 1 THEN h.context[c].display ELSE None
           k == UnrefContext(h, c)
<1>1. less = [h EXCEPT !.context = [h.context EXCEPT ![c] = [h.context[c] EXCEPT !.refs = Down(h.context[c].refs)]]]
  OBVIOUS
<1>2. h.context[c] \in [refs : Nat, display : Displays \cup {None}] /\ Down(h.context[c].refs) \in Nat
  BY DEF Heaps, Down
<1>3. c # None => k = IF h.context[c].refs = 1 THEN UnrefDisplay(less, h.context[c].display) ELSE less
  BY DEF UnrefContext
<1>4. /\ less.display = h.display
      /\ less.context = [h.context EXCEPT ![c] = [h.context[c] EXCEPT !.refs = Down(h.context[c].refs)]]
  BY <1>1 DEF Heaps
<1>5. less \in Heaps
  BY <1>1, <1>2 DEF Heaps
<1>6. d \in Displays \cup {None}
  BY <1>2
<1>7. c # None
  BY DEF Contexts, None
<1>8. k = UnrefDisplay(less, d)
  BY <1>3, <1>7 DEF UnrefDisplay
<1> HIDE DEF less, k, d
<1>9. ASSUME NEW x \in Contexts
      PROVE  /\ less.context[x].display = h.context[x].display
             /\ less.context[x].refs = IF x = c THEN Down(h.context[x].refs) ELSE h.context[x].refs
  BY <1>2, <1>4 DEF Heaps
<1>10. k \in Heaps /\ k.context = less.context
  BY <1>5, <1>6, <1>8, UnrefDisplayFacts
<1>11. \A x \in Displays :
         /\ k.display[x].valid = (h.display[x].valid /\ (x = d /\ x # None => h.display[x].refs > 1))
         /\ k.display[x].refs = IF x = d /\ x # None THEN Down(h.display[x].refs) ELSE h.display[x].refs
  <2>1. \A x \in Displays :
          /\ k.display[x].valid = (less.display[x].valid /\ (x = d /\ x # None => less.display[x].refs > 1))
          /\ k.display[x].refs
               = IF x = d /\ x # None THEN Down(less.display[x].refs) ELSE less.display[x].refs
    BY <1>5, <1>6, <1>8, UnrefDisplayFacts
  <2> QED BY <1>4, <2>1
<1>12. \A x \in Contexts :
         /\ k.context[x].display = h.context[x].display
         /\ k.context[x].refs = IF x = c THEN Down(h.context[x].refs) ELSE h.context[x].refs
  BY <1>9, <1>10
<1> QED BY <1>10, <1>11, <1>12 DEF k, d
-----------------------------------------------------------------------------
(* How the counts of holders change.                                       *)

LEMMA DisplayRetarget ==
  ASSUME IsFiniteSet(Elements), NEW d, NEW e \in Elements,
         \A f \in Elements : f # e => dpyctx_'[f] = dpyctx_[f]
  PROVE  /\ Pointing(Elements, dpyctx_, d) \in Nat /\ Pointing(Elements, dpyctx_', d) \in Nat
         /\ Pointing(Elements, dpyctx_', d)
              = Pointing(Elements, dpyctx_, d) + Hit(dpyctx_'[e], d) - Hit(dpyctx_[e], d)
<1>1. Pointing(Elements, dpyctx_, d) \in Nat
  BY Retarget
<1>2. Pointing(Elements, dpyctx_', d) \in Nat
  BY Retarget
<1>3. Pointing(Elements, dpyctx_', d)
        = Pointing(Elements, dpyctx_, d) + Hit(dpyctx_'[e], d) - Hit(dpyctx_[e], d)
  BY Retarget
<1> QED BY <1>1, <1>2, <1>3

LEMMA HoldersStep ==
  ASSUME SharingInv, chain' = chain, NEW d \in Displays, NEW e \in Elements, NEW c \in Contexts,
         \A f \in Elements : f # e => dpyctx_'[f] = dpyctx_[f],
         \A b \in Contexts : b # c => Pointed(heap', b) = Pointed(heap, b)
  PROVE  Holders(d)' = Holders(d) + Hit(dpyctx_'[e], d) - Hit(dpyctx_[e], d)
                         + Hit(Pointed(heap', c), d) - Hit(Pointed(heap, c), d)
<1>1. chain \in Chains
  BY DEF SharingInv, DisplayTypeOK
<1>2. IsFiniteSet(Elements) /\ IsFiniteSet(Contexts) /\ d # None
  BY <1>1, ChainFacts
<1>3. Holders(d) = Pointing(Elements, dpyctx_, d)
                     + Cardinality({b \in Contexts : Pointed(heap, b) = d})
  BY HoldersFacts DEF Pointing
<1>4. Holders(d)' = Pointing(Elements, dpyctx_', d)
                      + Cardinality({b \in Contexts : Pointed(heap', b) = d})
  <2>1. Holders(d)' = Pointing(Elements, dpyctx_', d)
          + Cardinality({b \in Contexts : heap'.context[b].refs > 0 /\ heap'.context[b].display = d})
    BY SameChain DEF Holders, Pointing
  <2>2. {b \in Contexts : heap'.context[b].refs > 0 /\ heap'.context[b].display = d}
          = {b \in Contexts : Pointed(heap', b) = d}
    BY <1>2 DEF Pointed
  <2> QED BY <2>1, <2>2 DEF Pointing
<1>5. /\ Pointing(Elements, dpyctx_, d) \in Nat
      /\ Pointing(Elements, dpyctx_', d) \in Nat
      /\ Pointing(Elements, dpyctx_', d)
           = Pointing(Elements, dpyctx_, d) + Hit(dpyctx_'[e], d) - Hit(dpyctx_[e], d)
  BY <1>2, DisplayRetarget
<1>6. /\ Cardinality({b \in Contexts : Pointed(heap, b) = d}) \in Nat
      /\ Cardinality({b \in Contexts : Pointed(heap', b) = d}) \in Nat
      /\ Cardinality({b \in Contexts : Pointed(heap', b) = d})
           = Cardinality({b \in Contexts : Pointed(heap, b) = d})
               + Hit(Pointed(heap', c), d) - Hit(Pointed(heap, c), d)
  <2> DEFINE F == [b \in Contexts |-> Pointed(heap, b)]
             G == [b \in Contexts |-> Pointed(heap', b)]
  <2>1. (\A b \in Contexts : F[b] = Pointed(heap, b)) /\ \A b \in Contexts : G[b] = Pointed(heap', b)
    OBVIOUS
  <2> HIDE DEF F, G
  <2>2. \A b \in Contexts : b # c => G[b] = F[b]
    BY <2>1
  <2>3. /\ Pointing(Contexts, F, d) \in Nat
        /\ Pointing(Contexts, G, d) \in Nat
        /\ Pointing(Contexts, G, d)
             = Pointing(Contexts, F, d) + Hit(G[c], d) - Hit(F[c], d)
    BY <1>2, <2>2, Retarget
  <2>4. Pointing(Contexts, F, d) = Cardinality({b \in Contexts : Pointed(heap, b) = d})
    BY <2>1 DEF Pointing
  <2>5. Pointing(Contexts, G, d) = Cardinality({b \in Contexts : Pointed(heap', b) = d})
    BY <2>1 DEF Pointing
  <2>6. F[c] = Pointed(heap, c) /\ G[c] = Pointed(heap', c)
    BY <2>1
  <2> QED BY <2>3, <2>4, <2>5, <2>6
<1> DEFINE a1 == Pointing(Elements, dpyctx_, d)
           a2 == Pointing(Elements, dpyctx_', d)
           b1 == Cardinality({b \in Contexts : Pointed(heap, b) = d})
           b2 == Cardinality({b \in Contexts : Pointed(heap', b) = d})
           k1 == Hit(dpyctx_'[e], d)
           k2 == Hit(dpyctx_[e], d)
           k3 == Hit(Pointed(heap', c), d)
           k4 == Hit(Pointed(heap, c), d)
<1>7. k1 \in {0, 1} /\ k2 \in {0, 1} /\ k3 \in {0, 1} /\ k4 \in {0, 1}
  BY DEF Hit
<1>8. /\ a1 \in Nat /\ a2 \in Nat /\ b1 \in Nat /\ b2 \in Nat /\ a2 = a1 + k1 - k2 /\ b2 = b1 + k3 - k4
      /\ Holders(d) = a1 + b1 /\ Holders(d)' = a2 + b2
  BY <1>3, <1>4, <1>5, <1>6
<1> HIDE DEF a1, a2, b1, b2, k1, k2, k3, k4
<1>9. Holders(d)' = Holders(d) + k1 - k2 + k3 - k4
  BY <1>7, <1>8
<1> QED BY <1>9 DEF k1, k2, k3, k4

LEMMA ContextHoldersStep ==
  ASSUME SharingInv, chain' = chain, NEW c \in Contexts, NEW e \in Elements,
         \A f \in Elements : f # e => contexts'[f] = contexts[f] /\ query'[f] = query[f]
  PROVE  ContextHolders(c)' = ContextHolders(c) + Hit(contexts'[e], c) - Hit(contexts[e], c)
                                + 2 * Hit(query'[e], c) - 2 * Hit(query[e], c)
<1>1. chain \in Chains
  BY DEF SharingInv, DisplayTypeOK
<1>2. IsFiniteSet(Elements)
  BY <1>1, ChainFacts
<1> DEFINE a1 == Pointing(Elements, contexts, c)
           a2 == Pointing(Elements, contexts', c)
           b1 == Pointing(Elements, query, c)
           b2 == Pointing(Elements, query', c)
           k1 == Hit(contexts'[e], c)
           k2 == Hit(contexts[e], c)
           k3 == Hit(query'[e], c)
           k4 == Hit(query[e], c)
<1>3. ContextHolders(c) = a1 + 2 * b1
  BY DEF ContextHolders, Pointing
<1>4. ContextHolders(c)' = a2 + 2 * b2
  BY SameChain DEF ContextHolders, Pointing
<1>5. a1 \in Nat /\ a2 \in Nat /\ a2 = a1 + k1 - k2
  BY <1>2, Retarget
<1>6. b1 \in Nat /\ b2 \in Nat /\ b2 = b1 + k3 - k4
  BY <1>2, Retarget
<1>7. k1 \in {0, 1} /\ k2 \in {0, 1} /\ k3 \in {0, 1} /\ k4 \in {0, 1}
  BY DEF Hit
<1> HIDE DEF a1, a2, b1, b2, k1, k2, k3, k4
<1>8. ContextHolders(c)' = ContextHolders(c) + k1 - k2 + 2 * k3 - 2 * k4
  BY <1>3, <1>4, <1>5, <1>6, <1>7
<1> QED BY <1>8 DEF k1, k2, k3, k4

\* There is a display to take for an element that opens one.
LEMMA FreeDisplayFacts ==
  ASSUME SharingInv, NEW e \in Elements, pc[e] = "display"
  PROVE  /\ FreeDisplay \in Displays /\ heap.display[FreeDisplay].refs = 0
         /\ \A f \in Elements : dpyctx_[f] # FreeDisplay /\ seen[f] # FreeDisplay /\ device[f] # FreeDisplay
         /\ \A c \in Contexts : Pointed(heap, c) # FreeDisplay
<1> DEFINE Own == [f \in Elements |-> IF seen[f] # None THEN seen[f] ELSE dpyctx_[f]]
           Kept == [f \in Elements |-> heap.context[contexts[f]].display]
           U == {Own[f] : f \in Elements \ {e}} \cup {Kept[f] : f \in Elements}
<1>1. chain \in Chains /\ PlacesInv /\ CountsInv /\ DisplayTypeOK /\ heap \in Heaps
  BY DEF SharingInv, DisplayTypeOK
<1>2. /\ IsFiniteSet(Elements) /\ Cardinality(Elements) = Len(chain) /\ Len(chain) \in Nat \ {0}
      /\ IsFiniteSet(Displays) /\ Cardinality(Displays) = 2 * Len(chain)
      /\ \A d \in Displays : d # None
  BY <1>1, ChainFacts
<1>3. IsFiniteSet(U) /\ Cardinality(U) < Cardinality(Displays) /\ Cardinality(U) \in Nat
  <2> DEFINE U1 == {Own[f] : f \in Elements \ {e}}
             U2 == {Kept[f] : f \in Elements}
  <2> HIDE DEF Own, Kept
  <2>1. IsFiniteSet(Elements \ {e}) /\ Cardinality(Elements \ {e}) = Len(chain) - 1
    BY <1>2, FS_RemoveElement
  <2>2. IsFiniteSet(U1) /\ Cardinality(U1) <= Len(chain) - 1
    BY <2>1, ImageSize
  <2>3. IsFiniteSet(U2) /\ Cardinality(U2) <= Len(chain)
    BY <1>2, ImageSize
  <2>4. U = U1 \cup U2
    OBVIOUS
  <2> HIDE DEF U1, U2, U
  <2>5. /\ IsFiniteSet(U) /\ Cardinality(U) = Cardinality(U1) + Cardinality(U2) - Cardinality(U1 \cap U2)
        /\ IsFiniteSet(U1 \cap U2)
    BY <2>2, <2>3, <2>4, FS_Union, FS_Intersection
  <2>6. /\ Cardinality(U) \in Nat /\ Cardinality(U1) \in Nat /\ Cardinality(U2) \in Nat
        /\ Cardinality(U1 \cap U2) \in Nat
    BY <2>2, <2>3, <2>5, FS_CardinalityType
  <2> QED BY <1>2, <2>2, <2>3, <2>5, <2>6
<1>4. PICK d \in Displays : d \notin U
  <2> SUFFICES ASSUME Displays \subseteq U PROVE FALSE
    OBVIOUS
  <2> HIDE DEF U
  <2>1. Cardinality(Displays) <= Cardinality(U)
    BY <1>3, FS_Subset
  <2> QED BY <1>2, <1>3, <2>1
<1>5. d # None /\ (\A f \in Elements \ {e} : Own[f] # d) /\ \A f \in Elements : Kept[f] # d
  BY <1>2, <1>4
<1>6. seen[e] = None /\ dpyctx_[e] = None /\ device[e] = None /\ query[e] = None
  BY <1>1 DEF PlacesInv, PlaceOf, Rising
<1>7. \A f \in Elements : dpyctx_[f] # d /\ seen[f] # d /\ device[f] # d
  <2> TAKE f \in Elements
  <2>1. CASE f = e
    BY <1>5, <1>6, <2>1
  <2>2. CASE f # e
    <3>1. Own[f] # d
      BY <1>5, <2>2
    <3>2. seen[f] # None => dpyctx_[f] = None
      BY <1>1 DEF PlacesInv, PlaceOf, Rising
    <3>3. seen[f] # d /\ dpyctx_[f] # d
      BY <1>5, <3>1, <3>2
    <3>4. device[f] # None => device[f] = dpyctx_[f]
      BY <1>1 DEF PlacesInv, PlaceOf
    <3> QED BY <1>5, <3>3, <3>4
  <2> QED BY <2>1, <2>2
<1>8. \A c \in Contexts : Pointed(heap, c) # d
  <2> SUFFICES ASSUME NEW c \in Contexts, heap.context[c].refs > 0, heap.context[c].display = d
               PROVE  FALSE
    BY <1>5 DEF Pointed
  <2>1. ContextHolders(c) # 0
    BY <1>1 DEF CountsInv, ContextsExact
  <2>2. PICK f \in Elements : contexts[f] = c \/ query[f] = c
    BY <2>1, ContextHoldersFacts
  <2>3. CASE contexts[f] = c
    BY <1>5, <2>3
  <2>4. CASE query[f] = c
    <3>1. c # None
      BY DEF Contexts, None
    <3>2. seen[f] = d
      BY <1>1, <2>4, <3>1 DEF PlacesInv, PlaceOf
    <3> QED BY <1>7, <3>2
  <2> QED BY <2>2, <2>3, <2>4
<1>9. heap.display[d].refs = 0
  <2>1. Holders(d) = 0
    BY <1>7, <1>8, HoldersFacts
  <2>2. heap.display[d].refs <= Holders(d) /\ heap.display[d].refs \in Nat
    BY <1>1 DEF CountsInv, DisplayCount, Heaps
  <2> QED BY <2>1, <2>2
<1>10. \E x \in Displays :
         /\ heap.display[x].refs = 0
         /\ \A f \in Elements : x \notin {dpyctx_[f], seen[f], device[f]}
         /\ \A c \in Contexts : heap.context[c].refs > 0 => heap.context[c].display # x
  BY <1>5, <1>7, <1>8, <1>9 DEF Pointed
<1>11. /\ FreeDisplay \in Displays /\ heap.display[FreeDisplay].refs = 0
       /\ \A f \in Elements : FreeDisplay \notin {dpyctx_[f], seen[f], device[f]}
       /\ \A c \in Contexts : heap.context[c].refs > 0 => heap.context[c].display # FreeDisplay
  BY <1>10 DEF FreeDisplay
<1> QED BY <1>2, <1>11 DEF Pointed

\* And a context for the answer to a query.
LEMMA FreeContextFacts ==
  ASSUME SharingInv, NEW e \in Elements, pc[e] = "answer"
  PROVE  /\ FreeContext \in Contexts /\ heap.context[FreeContext].refs = 0
         /\ ContextHolders(FreeContext) = 0
         /\ \A f \in Elements : contexts[f] # FreeContext /\ query[f] # FreeContext
<1> DEFINE U == {query[f] : f \in Elements \ {e}} \cup {contexts[f] : f \in Elements}
<1>1. chain \in Chains /\ PlacesInv /\ CountsInv /\ DisplayTypeOK /\ heap \in Heaps
  BY DEF SharingInv, DisplayTypeOK
<1>2. /\ IsFiniteSet(Elements) /\ Cardinality(Elements) = Len(chain) /\ Len(chain) \in Nat \ {0}
      /\ IsFiniteSet(Contexts) /\ Cardinality(Contexts) = 2 * Len(chain)
  BY <1>1, ChainFacts
<1>3. IsFiniteSet(U) /\ Cardinality(U) < Cardinality(Contexts) /\ Cardinality(U) \in Nat
  <2> DEFINE U1 == {query[f] : f \in Elements \ {e}}
             U2 == {contexts[f] : f \in Elements}
  <2>1. IsFiniteSet(Elements \ {e}) /\ Cardinality(Elements \ {e}) = Len(chain) - 1
    BY <1>2, FS_RemoveElement
  <2>2. IsFiniteSet(U1) /\ Cardinality(U1) <= Len(chain) - 1
    BY <2>1, ImageSize
  <2>3. IsFiniteSet(U2) /\ Cardinality(U2) <= Len(chain)
    BY <1>2, ImageSize
  <2>4. U = U1 \cup U2
    OBVIOUS
  <2> HIDE DEF U1, U2, U
  <2>5. /\ IsFiniteSet(U) /\ Cardinality(U) = Cardinality(U1) + Cardinality(U2) - Cardinality(U1 \cap U2)
        /\ IsFiniteSet(U1 \cap U2)
    BY <2>2, <2>3, <2>4, FS_Union, FS_Intersection
  <2>6. /\ Cardinality(U) \in Nat /\ Cardinality(U1) \in Nat /\ Cardinality(U2) \in Nat
        /\ Cardinality(U1 \cap U2) \in Nat
    BY <2>2, <2>3, <2>5, FS_CardinalityType
  <2> QED BY <1>2, <2>2, <2>3, <2>5, <2>6
<1>4. PICK c \in Contexts : c \notin U
  <2> SUFFICES ASSUME Contexts \subseteq U PROVE FALSE
    OBVIOUS
  <2> HIDE DEF U
  <2>1. Cardinality(Contexts) <= Cardinality(U)
    BY <1>3, FS_Subset
  <2> QED BY <1>2, <1>3, <2>1
<1>5. query[e] = None /\ c # None
  BY <1>1 DEF PlacesInv, PlaceOf, Contexts, None
<1>6. \A f \in Elements : contexts[f] # c /\ query[f] # c
  BY <1>4, <1>5
<1>7. heap.context[c].refs = 0
  BY <1>1, <1>6, ContextHoldersFacts DEF CountsInv, ContextsExact
<1>8. /\ FreeContext \in Contexts /\ heap.context[FreeContext].refs = 0
      /\ \A f \in Elements : FreeContext \notin {contexts[f], query[f]}
  BY <1>6, <1>7 DEF FreeContext
<1>9. ContextHolders(FreeContext) = 0
  BY <1>1, <1>8 DEF CountsInv, ContextsExact
<1> QED BY <1>8, <1>9
-----------------------------------------------------------------------------
(* A step of one element: what it has to show for each part of the         *)
(* invariant.                                                              *)

OnlyElement(e) ==
  \A f \in Elements : f # e =>
    /\ gstState'[f] = gstState[f] /\ pc'[f] = pc[f] /\ seen'[f] = seen[f] /\ query'[f] = query[f]
    /\ dpyctx_'[f] = dpyctx_[f] /\ device'[f] = device[f] /\ contexts'[f] = contexts[f]

LEMMA TypeStep ==
  ASSUME SharingInv, chain' = chain, heap' \in Heaps,
         gstState' \in [Elements -> {"null", "ready", "gone"}],
         pc' \in [Elements -> {"idle", "session", "askDown", "askUp", "answer", "take", "display",
                               "allocator", "codec", "undo", "drop", "free", "unref"}],
         asked' \in [Elements -> Elements \cup {None}],
         seen' \in [Elements -> Displays \cup {None}],
         query' \in [Elements -> Contexts \cup {None}],
         dpyctx_' \in [Elements -> Displays \cup {None}],
         device' \in [Elements -> Displays \cup {None}],
         contexts' \in [Elements -> Contexts \cup {None}],
         changes' \in 0 .. MaxChanges, faults' \in 0 .. MaxFaults,
         ordered' \in BOOLEAN, dangling' \in BOOLEAN
  PROVE  DisplayTypeOK' /\ heap' \in Heaps'
<1>1. chain \in Chains /\ heap' \in Heaps'
  BY SameChain DEF SharingInv, DisplayTypeOK
<1>2. /\ heap'.context \in [Contexts -> [refs : Nat, display : Displays \cup {None}]]
      /\ heap'.display \in [Displays -> [refs : Nat, valid : BOOLEAN]]
  BY DEF Heaps
<1> QED BY <1>1, <1>2, SameChain DEF DisplayTypeOK

LEMMA PlacesStep ==
  ASSUME SharingInv, chain' = chain, NEW e \in Elements, OnlyElement(e), PlaceOf(e)', QueryAlone(e)',
         \A f \in Elements : f # e /\ query[f] # None =>
           /\ heap'.context[query[f]].display = heap.context[query[f]].display
           /\ contexts'[e] # query[f] /\ query'[e] # query[f]
  PROVE  PlacesInv'
<1>1. Elements' = Elements
  BY SameChain
<1>2. \A f \in Elements : PlaceOf(f) /\ QueryAlone(f)
  BY DEF SharingInv, PlacesInv
<1>3. ASSUME NEW f \in Elements PROVE PlaceOf(f)'
  <2>1. CASE f = e
    BY <2>1
  <2>2. CASE f # e
    <3>1. PlaceOf(f) /\ gstState'[f] = gstState[f] /\ pc'[f] = pc[f] /\ seen'[f] = seen[f]
          /\ query'[f] = query[f] /\ dpyctx_'[f] = dpyctx_[f] /\ device'[f] = device[f]
      BY <1>2, <2>2 DEF OnlyElement
    <3>2. query[f] # None => heap'.context[query[f]].display = heap.context[query[f]].display
      BY <2>2
    <3> QED BY <3>1, <3>2 DEF PlaceOf
  <2> QED BY <2>1, <2>2
<1>4. ASSUME NEW f \in Elements PROVE QueryAlone(f)'
  <2>1. CASE f = e
    BY <2>1
  <2>2. CASE f # e
    <3>1. query'[f] = query[f] /\ QueryAlone(f)
      BY <1>2, <2>2 DEF OnlyElement
    <3>2. ASSUME query[f] # None, NEW g \in Elements
          PROVE  contexts'[g] # query[f] /\ (g # f => query'[g] # query[f])
      <4>1. CASE g = e
        BY <2>2, <3>2, <4>1
      <4>2. CASE g # e
        BY <3>1, <3>2, <4>2 DEF OnlyElement, QueryAlone
      <4> QED BY <4>1, <4>2
    <3> QED BY <1>1, <3>1, <3>2 DEF QueryAlone
  <2> QED BY <2>1, <2>2
<1> QED BY <1>1, <1>3, <1>4 DEF PlacesInv

LEMMA OrderStep ==
  ASSUME SharingInv, chain' = chain, NEW e \in Elements, OnlyElement(e), ordered' => ordered,
         pc'[e] \in Rising => pc[e] \in Rising,
         pc[e] = "idle" /\ gstState[e] # "ready" => pc'[e] = "idle" /\ gstState'[e] # "ready",
         gstState'[e] = "ready" /\ device'[e] # None =>
           pc[e] = "codec" \/ (gstState[e] = "ready" /\ device'[e] = device[e]),
         ordered => \A f \in Elements : SharesWith(e, f)'
  PROVE  OrderInv'
<1>1. Elements' = Elements /\ \A f : Kind(f)' = Kind(f)
  BY SameChain
<1> SUFFICES ASSUME ordered PROVE \A x \in Elements : RaisedAlone(x)' /\ \A y \in Elements : SharesWith(x, y)'
  BY <1>1 DEF OrderInv
<1>2. \A x \in Elements : RaisedAlone(x) /\ \A y \in Elements : SharesWith(x, y)
  BY DEF SharingInv, OrderInv
<1>3. ASSUME NEW x \in Elements PROVE RaisedAlone(x)'
  <2> SUFFICES ASSUME pc'[x] \in Rising, NEW g \in Elements, g < x
               PROVE  pc'[g] = "idle" /\ gstState'[g] # "ready"
    BY <1>1 DEF RaisedAlone
  <2>1. pc[x] \in Rising
    BY DEF OnlyElement
  <2>2. pc[g] = "idle" /\ gstState[g] # "ready"
    BY <1>2, <2>1 DEF RaisedAlone
  <2> QED BY <2>2 DEF OnlyElement
<1>4. ASSUME NEW x \in Elements, NEW y \in Elements PROVE SharesWith(x, y)'
  <2>1. CASE x = e
    BY <2>1
  <2>2. CASE x # e
    <3> SUFFICES ASSUME y = x + 1, Kind(y) \in {"vpp", "venc"}, gstState'[y] = "ready", device'[y] # None
                 PROVE  /\ pc'[x] \notin {"askUp", "display"}
                        /\ pc'[x] \in {"answer", "take"} => seen'[x] = device'[y]
                        /\ dpyctx_'[x] \in {None, device'[y]}
      BY <1>1 DEF SharesWith
    <3>1. pc'[x] = pc[x] /\ seen'[x] = seen[x] /\ dpyctx_'[x] = dpyctx_[x]
      BY <2>2 DEF OnlyElement
    <3>2. CASE gstState[y] = "ready" /\ device'[y] = device[y]
      <4>1. SharesWith(x, y)
        BY <1>2
      <4> QED BY <3>1, <3>2, <4>1 DEF SharesWith
    <3>3. CASE ~(gstState[y] = "ready" /\ device'[y] = device[y])
      <4>1. y = e /\ pc[e] = "codec"
        BY <3>3 DEF OnlyElement
      <4>2. chain \in Chains
        BY DEF SharingInv, DisplayTypeOK
      <4>3. x < e
        BY <4>1, <4>2, ChainFacts
      <4>4. pc[x] = "idle" /\ gstState[x] # "ready"
        BY <1>2, <4>1, <4>3 DEF RaisedAlone, Rising
      <4>5. PlaceOf(x)
        BY DEF SharingInv, PlacesInv
      <4> QED BY <3>1, <4>4, <4>5 DEF PlaceOf
    <3> QED BY <3>2, <3>3
  <2> QED BY <2>1, <2>2
<1> QED BY <1>3, <1>4
LEMMA DropAndGain ==
  ASSUME NEW n \in Nat, NEW r \in Nat, r <= n, NEW x \in {0, 1}, NEW y \in {0, 1}, x = 1 => n >= 1,
         NEW r1, r1 = IF x = 1 THEN Down(r) ELSE r, NEW r2, r2 = IF y = 1 THEN Up(r1) ELSE r1
  PROVE  r2 <= n + y - x /\ (r = n /\ (y = 1 => n >= 1 + x) => r2 = n + y - x)
<1>1. CASE x = 0 /\ y = 0
  BY <1>1
<1>2. CASE x = 1 /\ y = 0
  BY <1>2 DEF Down
<1>3. CASE x = 0 /\ y = 1
  BY <1>3 DEF Up
<1>4. CASE x = 1 /\ y = 1
  BY <1>4 DEF Down, Up
<1> QED BY <1>1, <1>2, <1>3, <1>4

\* The display D loses a holder and then G gains one; both may be None.  The
\* holders are the element e and the context c.
CountsMove(e, c, D, G) ==
  /\ chain' = chain /\ heap' \in Heaps /\ (dangling => dangling')
  /\ \A f \in Elements : f # e => dpyctx_'[f] = dpyctx_[f]
  /\ \A b \in Contexts : b # c => Pointed(heap', b) = Pointed(heap, b)
  /\ \A d \in Displays :
       /\ Hit(dpyctx_'[e], d) - Hit(dpyctx_[e], d) + Hit(Pointed(heap', c), d)
            - Hit(Pointed(heap, c), d) = Hit(G, d) - Hit(D, d)
       /\ \E r1 \in Nat :
            /\ r1 = IF d = D THEN Down(heap.display[d].refs) ELSE heap.display[d].refs
            /\ heap'.display[d].refs = IF d = G THEN Up(r1) ELSE r1
       /\ heap'.display[d].valid = (heap.display[d].valid /\ (d = D => heap.display[d].refs > 1))
  /\ D # None => Holders(D) >= 1
  /\ ~dangling' /\ G # None => Holders(G) >= 1 + Hit(D, G)
  /\ \A f \in Elements : device'[f] # None =>
       device'[f] = device[f] /\ (device[f] = D => Holders(D) >= 2)

LEMMA CountsStep ==
  ASSUME SharingInv, NEW e \in Elements, NEW c \in Contexts, NEW D \in Displays \cup {None},
         NEW G \in Displays \cup {None}, CountsMove(e, c, D, G)
  PROVE  (\A d \in Displays : DisplayCount(d)') /\ DevicesValid'
<1>0. /\ chain' = chain /\ heap' \in Heaps /\ (dangling => dangling')
      /\ \A f \in Elements : f # e => dpyctx_'[f] = dpyctx_[f]
      /\ \A b \in Contexts : b # c => Pointed(heap', b) = Pointed(heap, b)
      /\ D # None => Holders(D) >= 1
      /\ ~dangling' /\ G # None => Holders(G) >= 1 + Hit(D, G)
      /\ \A f \in Elements : device'[f] # None =>
           device'[f] = device[f] /\ (device[f] = D => Holders(D) >= 2)
  BY DEF CountsMove
<1>1. /\ chain \in Chains /\ \A d \in Displays : DisplayCount(d) /\ heap.display[d].refs \in Nat
      /\ DevicesValid /\ device \in [Elements -> Displays \cup {None}]
      /\ \A d \in Displays : heap.display[d].valid \in BOOLEAN
  BY DEF SharingInv, CountsInv, DisplayTypeOK, Heaps
<1>2. Elements' = Elements
  BY <1>0, SameChain
<1>3. ASSUME NEW d \in Displays PROVE DisplayCount(d)'
  <2> DEFINE n == Holders(d)
             m == Holders(d)'
             x == Hit(D, d)
             y == Hit(G, d)
             r == heap.display[d].refs
             s == heap'.display[d].refs
  <2>1. n \in Nat /\ r \in Nat /\ r <= n /\ (~dangling => r = n)
    BY <1>1, HoldersFacts DEF DisplayCount
  <2>2. x \in {0, 1} /\ y \in {0, 1} /\ (x = 1 <=> d = D) /\ (y = 1 <=> d = G)
    BY DEF Hit
  <2>3. m = n + y - x
    <3> DEFINE k1 == Hit(dpyctx_'[e], d)
               k2 == Hit(dpyctx_[e], d)
               k3 == Hit(Pointed(heap', c), d)
               k4 == Hit(Pointed(heap, c), d)
    <3>1. m = n + k1 - k2 + k3 - k4
      BY <1>0, HoldersStep
    <3>2. k1 - k2 + k3 - k4 = y - x
      BY DEF CountsMove
    <3>3. k1 \in {0, 1} /\ k2 \in {0, 1} /\ k3 \in {0, 1} /\ k4 \in {0, 1}
      BY DEF Hit
    <3> HIDE DEF k1, k2, k3, k4, x, y, n, m
    <3> QED BY <2>1, <2>2, <3>1, <3>2, <3>3
  <2>4. PICK r1 \in Nat : r1 = (IF d = D THEN Down(r) ELSE r) /\ s = IF d = G THEN Up(r1) ELSE r1
    BY DEF CountsMove
  <2>5. x = 1 => n >= 1
    <3>1. d # None
      BY <1>1, ChainFacts
    <3> QED BY <1>0, <2>2, <3>1
  <2>6. ~dangling' => (y = 1 => n >= 1 + x)
    <3>1. d # None
      BY <1>1, ChainFacts
    <3> QED BY <1>0, <2>2, <3>1
  <2>7. r1 = (IF x = 1 THEN Down(r) ELSE r) /\ s = IF y = 1 THEN Up(r1) ELSE r1
    BY <2>2, <2>4
  <2>8. s <= m /\ (~dangling' => s = m)
    <3> HIDE DEF n, m, x, y, r, s
    <3>1. s <= n + y - x /\ (r = n /\ (y = 1 => n >= 1 + x) => s = n + y - x)
      BY <2>1, <2>2, <2>5, <2>7, DropAndGain
    <3> QED BY <1>0, <2>1, <2>3, <2>6, <3>1
  <2> QED BY <2>8 DEF DisplayCount
<1>4. DevicesValid'
  <2> SUFFICES ASSUME NEW f \in Elements, device'[f] # None, ~dangling'
               PROVE  heap'.display[device'[f]].valid
    BY <1>2 DEF DevicesValid
  <2>1. device'[f] = device[f] /\ device[f] \in Displays /\ heap.display[device[f]].valid
    BY <1>0, <1>1 DEF DevicesValid
  <2>2. device[f] = D => heap.display[device[f]].refs > 1
    <3> SUFFICES ASSUME device[f] = D PROVE heap.display[D].refs > 1
      OBVIOUS
    <3>1. D \in Displays /\ Holders(D) >= 2 /\ Holders(D) \in Nat
      BY <1>0, <2>1, HoldersFacts
    <3>2. heap.display[D].refs = Holders(D)
      BY <1>0, <1>1, <3>1 DEF DisplayCount
    <3> QED BY <3>1, <3>2
  <2> QED BY <2>1, <2>2 DEF CountsMove
<1> QED BY <1>3, <1>4

LEMMA CountsSame ==
  ASSUME SharingInv, chain' = chain, heap' = heap, dangling' = dangling,
         dpyctx_' = dpyctx_, contexts' = contexts, query' = query,
         \A f \in Elements : device'[f] # None /\ ~dangling => heap.display[device'[f]].valid
  PROVE  CountsInv' /\ heap' \in Heaps
<1>1. ContextsExact /\ (\A d \in Displays : DisplayCount(d)) /\ heap \in Heaps
  BY DEF SharingInv, CountsInv
<1>2. ContextsExact'
  BY <1>1, SameChain DEF ContextsExact, ContextHolders
<1>3. \A d \in Displays : DisplayCount(d)'
  BY <1>1, SameChain DEF DisplayCount, Holders
<1>4. DevicesValid'
  BY SameChain DEF DevicesValid
<1> QED BY <1>1, <1>2, <1>3, <1>4, SameChain DEF CountsInv
-----------------------------------------------------------------------------
(* The steps that leave the heap alone.                                    *)

LEMMA QuietStep ==
  ASSUME SharingInv, NEW e \in Elements, OnlyElement(e), DisplayTypeOK',
         chain' = chain, heap' = heap, dangling' = dangling,
         dpyctx_' = dpyctx_, contexts' = contexts, query' = query,
         PlaceOf(e)', device'[e] \in {None, device[e]} \/ heap.display[device'[e]].valid, OrderInv'
  PROVE  SharingInv'
<1>1. \A f \in Elements : PlaceOf(f) /\ QueryAlone(f)
  BY DEF SharingInv, PlacesInv
<1>2. QueryAlone(e)' /\ \A f \in Elements : f # e /\ query[f] # None =>
        /\ heap'.context[query[f]].display = heap.context[query[f]].display
        /\ contexts'[e] # query[f] /\ query'[e] # query[f]
  BY <1>1, SameChain DEF QueryAlone
<1>3. PlacesInv'
  BY <1>2, PlacesStep
<1>4. \A f \in Elements : device'[f] # None /\ ~dangling => heap.display[device'[f]].valid
  <2>1. DevicesValid
    BY DEF SharingInv, CountsInv
  <2> QED BY <2>1 DEF DevicesValid, OnlyElement
<1>5. CountsInv' /\ heap' \in Heaps
  BY <1>4, CountsSame
<1> QED BY <1>3, <1>5, SameChain DEF SharingInv

LEMMA ElementFacts ==
  ASSUME SharingInv, NEW e \in Elements
  PROVE  /\ chain \in Chains /\ PlaceOf(e) /\ QueryAlone(e)
         /\ pc[e] \in {"idle", "session", "askDown", "askUp", "answer", "take", "display",
                       "allocator", "codec", "undo", "drop", "free", "unref"}
         /\ gstState[e] \in {"null", "ready", "gone"}
         /\ seen[e] \in Displays \cup {None} /\ dpyctx_[e] \in Displays \cup {None}
         /\ device[e] \in Displays \cup {None} /\ contexts[e] \in Contexts \cup {None}
         /\ query[e] \in Contexts \cup {None} /\ heap \in Heaps
         /\ ordered => RaisedAlone(e) /\ \A f \in Elements : SharesWith(e, f)
  BY DEF SharingInv, PlacesInv, OrderInv, DisplayTypeOK

Places == {"idle", "session", "askDown", "askUp", "answer", "take", "display",
           "allocator", "codec", "undo", "drop", "free", "unref"}

\* The counters of every step but ToReady.
LEMMA FaultsStep ==
  ASSUME SharingInv, UNCHANGED displayHistory \/ \E e \in Elements : Fail(e)
  PROVE  /\ changes' \in 0 .. MaxChanges /\ faults' \in 0 .. MaxFaults
         /\ ordered' = ordered /\ dangling' = dangling /\ ordered' \in BOOLEAN /\ dangling' \in BOOLEAN
<1>1. /\ changes \in 0 .. MaxChanges /\ faults \in 0 .. MaxFaults /\ ordered \in BOOLEAN
      /\ dangling \in BOOLEAN /\ MaxFaults \in Nat
  BY ChangesAssumption DEF SharingInv, DisplayTypeOK
<1>2. CASE UNCHANGED displayHistory
  BY <1>1, <1>2 DEF displayHistory
<1>3. CASE \E e \in Elements : Fail(e)
  BY <1>1, <1>3 DEF Fail
<1> QED BY <1>2, <1>3

\* Types after a step of one element that leaves the heap alone.
LEMMA QuietTypes ==
  ASSUME SharingInv, NEW e \in Elements, chain' = chain, heap' = heap,
         dpyctx_' = dpyctx_, contexts' = contexts, query' = query,
         NEW p \in Places, pc' = [pc EXCEPT ![e] = p],
         gstState' = gstState \/ gstState' = [gstState EXCEPT ![e] = "ready"],
         asked' \in [Elements -> Elements \cup {None}],
         seen' \in [Elements -> Displays \cup {None}],
         device' = device \/ \E d \in Displays \cup {None} : device' = [device EXCEPT ![e] = d],
         changes' \in 0 .. MaxChanges, faults' \in 0 .. MaxFaults,
         ordered' \in BOOLEAN, dangling' \in BOOLEAN
  PROVE  DisplayTypeOK'
<1>1. /\ gstState' \in [Elements -> {"null", "ready", "gone"}]
      /\ pc' \in [Elements -> Places]
      /\ device' \in [Elements -> Displays \cup {None}]
  BY DEF SharingInv, DisplayTypeOK, Places
<1>2. /\ query' \in [Elements -> Contexts \cup {None}]
      /\ dpyctx_' \in [Elements -> Displays \cup {None}]
      /\ contexts' \in [Elements -> Contexts \cup {None}] /\ heap' \in Heaps
  BY DEF SharingInv, DisplayTypeOK
<1> QED BY <1>1, <1>2, TypeStep DEF Places

LEMMA MakeSessionKeeps ==
  ASSUME SharingInv, NEW e \in Elements, MakeSession(e)
  PROVE  SharingInv'
<1>1. /\ gstState' = gstState /\ seen' = seen /\ query' = query /\ dpyctx_' = dpyctx_ /\ chain' = chain
      /\ device' = device /\ contexts' = contexts /\ heap' = heap /\ asked' = asked /\ pc[e] = "session"
      /\ UNCHANGED displayHistory \/ Fail(e)
  BY DEF MakeSession, queryVars
<1>2. PICK p \in Places : /\ pc' = [pc EXCEPT ![e] = p] /\ p \in {"codec", "display", "askDown", "undo"}
                          /\ p = "display" => Kind(e) = "venc"
  BY DEF MakeSession, Goto, Fail, Places
<1>3. /\ changes' \in 0 .. MaxChanges /\ faults' \in 0 .. MaxFaults
      /\ ordered' = ordered /\ dangling' = dangling /\ ordered' \in BOOLEAN /\ dangling' \in BOOLEAN
  BY <1>1, FaultsStep
<1>4. /\ asked' \in [Elements -> Elements \cup {None}] /\ seen' \in [Elements -> Displays \cup {None}]
      /\ pc \in [Elements -> Places]
  BY <1>1 DEF SharingInv, DisplayTypeOK, Places
<1>5. DisplayTypeOK'
  BY <1>1, <1>2, <1>3, <1>4, QuietTypes
<1>6. pc'[e] = p /\ OnlyElement(e)
  BY <1>1, <1>2, <1>4 DEF OnlyElement
<1>7. PlaceOf(e) /\ chain \in Chains /\ (ordered => \A f \in Elements : SharesWith(e, f))
  BY ElementFacts
<1>8. PlaceOf(e)'
  BY <1>1, <1>2, <1>6, <1>7 DEF PlaceOf, Rising, Falling
<1>9. ASSUME ordered, NEW f \in Elements PROVE SharesWith(e, f)'
  <2>1. f = e + 1 /\ Kind(e) = "venc" => Kind(f) = "vdec"
    BY <1>7, ChainFacts
  <2>2. SharesWith(e, f)
    BY <1>7, <1>9
  <2>3. Kind(f)' = Kind(f)
    BY <1>1, SameChain
  <2> QED BY <1>1, <1>2, <1>6, <2>1, <2>2, <2>3 DEF SharesWith
<1>10. OrderInv'
  BY <1>1, <1>2, <1>3, <1>6, <1>9, OrderStep DEF Rising
<1> QED BY <1>1, <1>3, <1>5, <1>6, <1>8, <1>10, QuietStep
LEMMA SharesStep ==
  ASSUME SharingInv, chain' = chain, NEW e \in Elements, OnlyElement(e), NEW f \in Elements,
         SharesWith(e, f), pc'[e] \notin {"askUp", "display", "answer", "take"},
         dpyctx_'[e] \in {None, dpyctx_[e]}
  PROVE  SharesWith(e, f)'
<1>1. f = e + 1 => f # e
  <2>1. chain \in Chains
    BY DEF SharingInv, DisplayTypeOK
  <2> QED BY <2>1, ChainFacts
<1>2. Kind(f)' = Kind(f)
  BY SameChain
<1>3. f # e => gstState'[f] = gstState[f] /\ device'[f] = device[f]
  BY DEF OnlyElement
<1> SUFFICES ASSUME f = e + 1, Kind(f) \in {"vpp", "venc"}, gstState'[f] = "ready", device'[f] # None
             PROVE  dpyctx_'[e] \in {None, device'[f]}
  BY <1>2 DEF SharesWith
<1> QED BY <1>1, <1>3 DEF SharesWith

LEMMA MakeAllocatorKeeps ==
  ASSUME SharingInv, NEW e \in Elements, MakeAllocator(e)
  PROVE  SharingInv'
<1>1. /\ seen' = seen /\ query' = query /\ dpyctx_' = dpyctx_ /\ chain' = chain
      /\ contexts' = contexts /\ heap' = heap /\ asked' = asked /\ pc[e] = "allocator" /\ gstState' = gstState
      /\ device' = device \/ (heap.display[dpyctx_[e]].valid /\ device' = [device EXCEPT ![e] = dpyctx_[e]])
      /\ UNCHANGED displayHistory \/ Fail(e)
  BY DEF MakeAllocator, queryVars
<1>2. PICK p \in Places : pc' = [pc EXCEPT ![e] = p] /\ p \in {"codec", "undo"}
  BY DEF MakeAllocator, Goto, Fail, Places
<1>3. /\ changes' \in 0 .. MaxChanges /\ faults' \in 0 .. MaxFaults
      /\ ordered' = ordered /\ dangling' = dangling /\ ordered' \in BOOLEAN /\ dangling' \in BOOLEAN
  BY <1>1, FaultsStep
<1>4. /\ asked' \in [Elements -> Elements \cup {None}] /\ seen' \in [Elements -> Displays \cup {None}]
      /\ pc \in [Elements -> Places] /\ gstState \in [Elements -> {"null", "ready", "gone"}]
      /\ device \in [Elements -> Displays \cup {None}]
  BY <1>1 DEF SharingInv, DisplayTypeOK, Places
<1>7. /\ PlaceOf(e) /\ chain \in Chains /\ (ordered => \A f \in Elements : SharesWith(e, f))
      /\ dpyctx_[e] \in Displays \cup {None}
  BY ElementFacts
<1>5. DisplayTypeOK'
  BY <1>1, <1>2, <1>3, <1>4, <1>7, QuietTypes
<1>6. pc'[e] = p /\ OnlyElement(e)
  BY <1>1, <1>2, <1>4 DEF OnlyElement
<1>8. PlaceOf(e)'
  BY <1>1, <1>2, <1>4, <1>6, <1>7 DEF PlaceOf, Rising, Falling
<1>9. ASSUME ordered, NEW f \in Elements PROVE SharesWith(e, f)'
  BY <1>1, <1>2, <1>6, <1>7, <1>9, SharesStep
<1>10. OrderInv'
  <2>1. gstState'[e] = "ready" /\ device'[e] # None =>
          pc[e] = "codec" \/ (gstState[e] = "ready" /\ device'[e] = device[e])
    BY <1>1, <1>4, <1>7 DEF PlaceOf, Rising
  <2>2. (pc'[e] \in Rising => pc[e] \in Rising)
        /\ (pc[e] = "idle" /\ gstState[e] # "ready" => pc'[e] = "idle" /\ gstState'[e] # "ready")
    BY <1>1, <1>2, <1>6 DEF Rising
  <2> QED BY <1>1, <1>3, <1>6, <1>9, <2>1, <2>2, OrderStep
<1>11. device'[e] \in {None, device[e]} \/ heap.display[device'[e]].valid
  BY <1>1, <1>4
<1> QED BY <1>1, <1>3, <1>5, <1>6, <1>8, <1>10, <1>11, QuietStep

LEMMA MakeCodecKeeps ==
  ASSUME SharingInv, NEW e \in Elements, MakeCodec(e)
  PROVE  SharingInv'
<1>1. /\ seen' = seen /\ query' = query /\ dpyctx_' = dpyctx_ /\ chain' = chain
      /\ contexts' = contexts /\ heap' = heap /\ asked' = asked /\ pc[e] = "codec" /\ device' = device
      /\ gstState' = gstState \/ gstState' = [gstState EXCEPT ![e] = "ready"]
      /\ UNCHANGED displayHistory \/ Fail(e)
  BY DEF MakeCodec, queryVars
<1>2. PICK p \in Places : pc' = [pc EXCEPT ![e] = p] /\ p \in {"idle", "undo"}
               /\ ((p = "idle" /\ gstState' = [gstState EXCEPT ![e] = "ready"]) \/ (p = "undo" /\ gstState' = gstState))
  BY DEF MakeCodec, Goto, Fail, Places
<1>3. /\ changes' \in 0 .. MaxChanges /\ faults' \in 0 .. MaxFaults
      /\ ordered' = ordered /\ dangling' = dangling /\ ordered' \in BOOLEAN /\ dangling' \in BOOLEAN
  BY <1>1, FaultsStep
<1>4. /\ asked' \in [Elements -> Elements \cup {None}] /\ seen' \in [Elements -> Displays \cup {None}]
      /\ pc \in [Elements -> Places] /\ gstState \in [Elements -> {"null", "ready", "gone"}]
      /\ device \in [Elements -> Displays \cup {None}]
  BY <1>1 DEF SharingInv, DisplayTypeOK, Places
<1>7. /\ PlaceOf(e) /\ chain \in Chains /\ (ordered => \A f \in Elements : SharesWith(e, f))
      /\ dpyctx_[e] \in Displays \cup {None}
  BY ElementFacts
<1>5. DisplayTypeOK'
  BY <1>1, <1>2, <1>3, <1>4, <1>7, QuietTypes
<1>6. pc'[e] = p /\ OnlyElement(e)
  BY <1>1, <1>2, <1>4 DEF OnlyElement
<1>8. PlaceOf(e)'
  BY <1>1, <1>2, <1>4, <1>6, <1>7 DEF PlaceOf, Rising, Falling
<1>9. ASSUME ordered, NEW f \in Elements PROVE SharesWith(e, f)'
  BY <1>1, <1>2, <1>6, <1>7, <1>9, SharesStep
<1>10. OrderInv'
  <2>1. gstState'[e] = "ready" /\ device'[e] # None =>
          pc[e] = "codec" \/ (gstState[e] = "ready" /\ device'[e] = device[e])
    BY <1>1, <1>4, <1>7 DEF PlaceOf, Rising
  <2>2. (pc'[e] \in Rising => pc[e] \in Rising)
        /\ (pc[e] = "idle" /\ gstState[e] # "ready" => pc'[e] = "idle" /\ gstState'[e] # "ready")
    BY <1>1, <1>2, <1>6 DEF Rising
  <2> QED BY <1>1, <1>3, <1>6, <1>9, <2>1, <2>2, OrderStep
<1>11. device'[e] \in {None, device[e]} \/ heap.display[device'[e]].valid
  BY <1>1, <1>4
<1> QED BY <1>1, <1>3, <1>5, <1>6, <1>8, <1>10, <1>11, QuietStep

LEMMA FreeDeviceKeeps ==
  ASSUME SharingInv, NEW e \in Elements, FreeDevice(e)
  PROVE  SharingInv'
<1>1. /\ seen' = seen /\ query' = query /\ dpyctx_' = dpyctx_ /\ chain' = chain
      /\ contexts' = contexts /\ heap' = heap /\ asked' = asked /\ pc[e] = "free" /\ gstState' = gstState
      /\ device' = [device EXCEPT ![e] = None]
      /\ UNCHANGED displayHistory \/ Fail(e)
  BY DEF FreeDevice, queryVars
<1>2. PICK p \in Places : pc' = [pc EXCEPT ![e] = p] /\ p \in {"unref"}
  BY DEF FreeDevice, Goto, Fail, Places
<1>3. /\ changes' \in 0 .. MaxChanges /\ faults' \in 0 .. MaxFaults
      /\ ordered' = ordered /\ dangling' = dangling /\ ordered' \in BOOLEAN /\ dangling' \in BOOLEAN
  BY <1>1, FaultsStep
<1>4. /\ asked' \in [Elements -> Elements \cup {None}] /\ seen' \in [Elements -> Displays \cup {None}]
      /\ pc \in [Elements -> Places] /\ gstState \in [Elements -> {"null", "ready", "gone"}]
      /\ device \in [Elements -> Displays \cup {None}]
  BY <1>1 DEF SharingInv, DisplayTypeOK, Places
<1>7. /\ PlaceOf(e) /\ chain \in Chains /\ (ordered => \A f \in Elements : SharesWith(e, f))
      /\ dpyctx_[e] \in Displays \cup {None}
  BY ElementFacts
<1>5. DisplayTypeOK'
  BY <1>1, <1>2, <1>3, <1>4, <1>7, QuietTypes
<1>6. pc'[e] = p /\ OnlyElement(e)
  BY <1>1, <1>2, <1>4 DEF OnlyElement
<1>8. PlaceOf(e)'
  BY <1>1, <1>2, <1>4, <1>6, <1>7 DEF PlaceOf, Rising, Falling
<1>9. ASSUME ordered, NEW f \in Elements PROVE SharesWith(e, f)'
  BY <1>1, <1>2, <1>6, <1>7, <1>9, SharesStep
<1>10. OrderInv'
  <2>1. gstState'[e] = "ready" /\ device'[e] # None =>
          pc[e] = "codec" \/ (gstState[e] = "ready" /\ device'[e] = device[e])
    BY <1>1, <1>4, <1>7 DEF PlaceOf, Rising
  <2>2. (pc'[e] \in Rising => pc[e] \in Rising)
        /\ (pc[e] = "idle" /\ gstState[e] # "ready" => pc'[e] = "idle" /\ gstState'[e] # "ready")
    BY <1>1, <1>2, <1>6 DEF Rising
  <2> QED BY <1>1, <1>3, <1>6, <1>9, <2>1, <2>2, OrderStep
<1>11. device'[e] \in {None, device[e]} \/ heap.display[device'[e]].valid
  BY <1>1, <1>4
<1> QED BY <1>1, <1>3, <1>5, <1>6, <1>8, <1>10, <1>11, QuietStep

LEMMA ToNullKeeps ==
  ASSUME SharingInv, NEW e \in Elements, ToNull(e)
  PROVE  SharingInv'
<1>1. /\ seen' = seen /\ query' = query /\ dpyctx_' = dpyctx_ /\ chain' = chain
      /\ contexts' = contexts /\ heap' = heap /\ asked' = asked /\ pc[e] = "idle" /\ device' = device /\ gstState' = gstState
      /\ gstState[e] = "ready"
      /\ UNCHANGED displayHistory \/ Fail(e)
  BY DEF ToNull, queryVars
<1>2. PICK p \in Places : pc' = [pc EXCEPT ![e] = p] /\ p \in {"drop"}
  BY DEF ToNull, Goto, Fail, Places
<1>3. /\ changes' \in 0 .. MaxChanges /\ faults' \in 0 .. MaxFaults
      /\ ordered' = ordered /\ dangling' = dangling /\ ordered' \in BOOLEAN /\ dangling' \in BOOLEAN
  BY <1>1, FaultsStep
<1>4. /\ asked' \in [Elements -> Elements \cup {None}] /\ seen' \in [Elements -> Displays \cup {None}]
      /\ pc \in [Elements -> Places] /\ gstState \in [Elements -> {"null", "ready", "gone"}]
      /\ device \in [Elements -> Displays \cup {None}]
  BY <1>1 DEF SharingInv, DisplayTypeOK, Places
<1>7. /\ PlaceOf(e) /\ chain \in Chains /\ (ordered => \A f \in Elements : SharesWith(e, f))
      /\ dpyctx_[e] \in Displays \cup {None}
  BY ElementFacts
<1>5. DisplayTypeOK'
  BY <1>1, <1>2, <1>3, <1>4, <1>7, QuietTypes
<1>6. pc'[e] = p /\ OnlyElement(e)
  BY <1>1, <1>2, <1>4 DEF OnlyElement
<1>8. PlaceOf(e)'
  BY <1>1, <1>2, <1>4, <1>6, <1>7 DEF PlaceOf, Rising, Falling
<1>9. ASSUME ordered, NEW f \in Elements PROVE SharesWith(e, f)'
  BY <1>1, <1>2, <1>6, <1>7, <1>9, SharesStep
<1>10. OrderInv'
  <2>1. gstState'[e] = "ready" /\ device'[e] # None =>
          pc[e] = "codec" \/ (gstState[e] = "ready" /\ device'[e] = device[e])
    BY <1>1, <1>4, <1>7 DEF PlaceOf, Rising
  <2>2. (pc'[e] \in Rising => pc[e] \in Rising)
        /\ (pc[e] = "idle" /\ gstState[e] # "ready" => pc'[e] = "idle" /\ gstState'[e] # "ready")
    BY <1>1, <1>2, <1>6 DEF Rising
  <2> QED BY <1>1, <1>3, <1>6, <1>9, <2>1, <2>2, OrderStep
<1>11. device'[e] \in {None, device[e]} \/ heap.display[device'[e]].valid
  BY <1>1, <1>4
<1> QED BY <1>1, <1>3, <1>5, <1>6, <1>8, <1>10, <1>11, QuietStep
-----------------------------------------------------------------------------
(* Who answers a query.                                                    *)

LEMMA LeastNatural ==
  ASSUME NEW T \in SUBSET Nat, T # {}
  PROVE  \E x \in T : \A y \in T : x <= y
<1>1. PICK x \in T : \A y \in T : ~ (<<y, x>> \in OpToRel(<, Nat))
  BY WFMin, NatLessThanWellFounded, Zenon
<1>2. \A y \in T : ~ (y < x)
  BY <1>1 DEF OpToRel
<1> QED BY <1>2

LEMMA Squares ==
  ASSUME NEW m \in Int
  PROVE  m * m \in Nat /\ (m * m <= 1 => m \in {-1, 0, 1}) /\ (-1) * (-1) = 1
<1>1. CASE m >= 2
  <2>1. m * m >= 2 * m
    BY <1>1
  <2> QED BY <1>1, <2>1
<1>2. CASE m <= -2
  <2>1. m * m >= (-2) * m
    BY <1>2
  <2> QED BY <1>2, <2>1
<1>3. CASE m \in {-1, 0, 1}
  BY <1>3
<1> QED BY <1>1, <1>2, <1>3

LEMMA NearestFacts ==
  ASSUME chain \in Chains, NEW e \in Elements, NEW S \in SUBSET Elements, S # {}
  PROVE  /\ Nearest(e, S) \in S
         /\ e + 1 \in S /\ (\A f \in S : f > e) => Nearest(e, S) = e + 1
<1> DEFINE sq == [f \in S |-> (e - f) * (e - f)]
           T == {sq[f] : f \in S}
<1>1. \A f \in S : f \in Int /\ e \in Int
  BY ChainFacts
<1>2. \A f \in S : sq[f] \in Nat /\ (sq[f] <= 1 => e - f \in {-1, 0, 1}) /\ sq[f] = (e - f) * (e - f)
  <2> TAKE f \in S
  <2>1. e - f \in Int
    BY <1>1
  <2> QED BY <2>1, Squares
<1> HIDE DEF sq
<1>3. T \in SUBSET Nat /\ T # {}
  BY <1>2
<1>4. PICK n \in T : \A m \in T : n <= m
  BY <1>3, LeastNatural
<1>5. \E f \in S : \A g \in S : sq[f] <= sq[g]
  BY <1>4
<1>6. \E f \in S : \A g \in S : (e - f) * (e - f) <= (e - g) * (e - g)
  BY <1>2, <1>5
<1>7. Nearest(e, S) \in S /\ \A g \in S : (e - Nearest(e, S)) * (e - Nearest(e, S)) <= (e - g) * (e - g)
  BY <1>6 DEF Nearest
<1>8. ASSUME e + 1 \in S, \A f \in S : f > e PROVE Nearest(e, S) = e + 1
  <2>1. PICK f \in S : f = Nearest(e, S)
    BY <1>7
  <2>2. sq[f] <= sq[e + 1]
    BY <1>2, <1>7, <1>8, <2>1
  <2>3. sq[e + 1] = 1
    <3>1. e - (e + 1) = -1
      BY <1>1
    <3> QED BY <1>2, <1>8, <3>1, Squares
  <2>4. e - f \in {-1, 0, 1} /\ f > e /\ f \in Int /\ e \in Int
    BY <1>1, <1>2, <1>8, <2>2, <2>3
  <2> QED BY <2>1, <2>4
<1> QED BY <1>7, <1>8
LEMMA ToReadyKeeps ==
  ASSUME SharingInv, NEW e \in Elements, ToReady(e)
  PROVE  SharingInv'
<1>1. /\ gstState[e] = "null" /\ pc[e] = "idle" /\ pc' = [pc EXCEPT ![e] = "session"]
      /\ changes < MaxChanges /\ changes' = changes + 1 /\ faults' = faults /\ dangling' = dangling
      /\ ordered' = ((ordered \/ AllDown) /\ SinkFirst(e))
      /\ chain' = chain /\ gstState' = gstState /\ asked' = asked /\ seen' = seen /\ query' = query
      /\ dpyctx_' = dpyctx_ /\ device' = device /\ contexts' = contexts /\ heap' = heap
  BY DEF ToReady, Goto, queryVars
<1>2. /\ asked \in [Elements -> Elements \cup {None}] /\ seen \in [Elements -> Displays \cup {None}]
      /\ pc \in [Elements -> Places] /\ changes \in 0 .. MaxChanges /\ faults \in 0 .. MaxFaults
      /\ ordered \in BOOLEAN /\ dangling \in BOOLEAN
  BY DEF SharingInv, DisplayTypeOK, Places
<1>3. changes' \in 0 .. MaxChanges
  BY <1>1, <1>2, ChangesAssumption
<1>4. ordered' \in BOOLEAN
  BY <1>1 DEF AllDown, SinkFirst
<1>5. DisplayTypeOK'
  <2>1. "session" \in Places
    BY DEF Places
  <2> QED BY <1>1, <1>2, <1>3, <1>4, <2>1, QuietTypes
<1>6. OnlyElement(e) /\ pc'[e] = "session" /\ \A f \in Elements : f # e => pc'[f] = pc[f]
  BY <1>1, <1>2 DEF OnlyElement
<1>7. PlaceOf(e) /\ chain \in Chains
  BY ElementFacts
<1>8. PlaceOf(e)'
  BY <1>1, <1>6, <1>7 DEF PlaceOf, Rising, Falling
<1>9. Elements' = Elements /\ \A f : Kind(f)' = Kind(f)
  BY <1>1, SameChain
<1>10. OrderInv'
  <2> SUFFICES ASSUME ordered', SinkFirst(e), ordered \/ AllDown
               PROVE  \A x \in Elements : RaisedAlone(x)' /\ \A y \in Elements : SharesWith(x, y)'
    BY <1>1, <1>9 DEF OrderInv
  <2>1. \A f \in Elements : pc[f] = "idle" /\ (f < e => gstState[f] = "null")
    BY DEF SinkFirst, Busy
  <2>2. ASSUME NEW x \in Elements PROVE RaisedAlone(x)'
    <3>1. CASE x = e
      <4>1. \A g \in Elements : g < e => g # e
        BY <1>7, ChainFacts
      <4> QED BY <1>1, <1>6, <1>9, <2>1, <3>1, <4>1 DEF RaisedAlone
    <3>2. CASE x # e
      BY <1>6, <2>1, <3>2 DEF RaisedAlone, Rising
    <3> QED BY <3>1, <3>2
  <2>3. ASSUME NEW x \in Elements, NEW y \in Elements PROVE SharesWith(x, y)'
    <3>1. CASE ordered
      <4>1. SharesWith(x, y)
        BY <3>1 DEF SharingInv, OrderInv
      <4>2. CASE x = e
        BY <1>1, <1>6, <4>1, <4>2, SharesStep
      <4>3. CASE x # e
        BY <1>1, <1>6, <1>9, <4>1, <4>3 DEF SharesWith
      <4> QED BY <4>2, <4>3
    <3>2. CASE AllDown
      BY <1>1, <3>2 DEF AllDown, SharesWith
    <3> QED BY <3>1, <3>2
  <2> QED BY <2>2, <2>3
<1> QED BY <1>1, <1>5, <1>6, <1>8, <1>10, QuietStep

LEMMA AskStep ==
  ASSUME SharingInv, NEW e \in Elements, pc[e] \in {"askDown", "askUp"}, NEW S \in SUBSET Elements,
         NEW p \in {"askUp", "display"}, Ask(e, S, p),
         ordered => \A f \in Elements : SharesWith(e, f)'
  PROVE  SharingInv'
<1>1. /\ chain' = chain /\ gstState' = gstState /\ query' = query
      /\ dpyctx_' = dpyctx_ /\ device' = device /\ contexts' = contexts /\ heap' = heap
      /\ changes' = changes /\ faults' = faults /\ ordered' = ordered /\ dangling' = dangling
  BY DEF Ask, queryVars, displayHistory
<1>2. /\ asked \in [Elements -> Elements \cup {None}] /\ seen \in [Elements -> Displays \cup {None}]
      /\ pc \in [Elements -> Places] /\ changes \in 0 .. MaxChanges /\ faults \in 0 .. MaxFaults
      /\ ordered \in BOOLEAN /\ dangling \in BOOLEAN /\ chain \in Chains
      /\ dpyctx_ \in [Elements -> Displays \cup {None}]
  BY DEF SharingInv, DisplayTypeOK, Places
<1>3. PICK q \in {p, "answer"} :
        /\ pc' = [pc EXCEPT ![e] = q]
        /\ \A f \in Elements : f # e => seen'[f] = seen[f]
        /\ q # "answer" => seen' = seen
        /\ asked' \in [Elements -> Elements \cup {None}] /\ seen' \in [Elements -> Displays \cup {None}]
  <2>1. CASE S = {}
    BY <1>2, <2>1 DEF Ask, Goto, queryVars
  <2>2. CASE S # {}
    <3>1. Nearest(e, S) \in Elements
      BY <1>2, <2>2, NearestFacts
    <3> QED BY <1>2, <2>2, <3>1 DEF Ask, Goto
  <2> QED BY <2>1, <2>2
<1>4. q \in Places /\ q \in Rising /\ pc[e] \in Rising /\ pc[e] \notin {"idle", "codec", "take"} /\ q # "take"
  BY DEF Places, Rising
<1>5. DisplayTypeOK'
  BY <1>1, <1>2, <1>3, <1>4, QuietTypes
<1>6. OnlyElement(e) /\ pc'[e] = q
  BY <1>1, <1>2, <1>3 DEF OnlyElement
<1>7. PlaceOf(e)
  BY ElementFacts
<1>8. PlaceOf(e)'
  <2>1. query[e] = None /\ dpyctx_[e] = None /\ device[e] = None /\ gstState[e] = "null" /\ seen[e] = None
    BY <1>4, <1>7 DEF PlaceOf
  <2>2. q \notin Falling
    BY DEF Falling
  <2> QED BY <1>1, <1>3, <1>4, <1>6, <2>1, <2>2 DEF PlaceOf
<1>9. gstState[e] = "null"
  BY <1>4, <1>7 DEF PlaceOf
<1>10. OrderInv'
  BY <1>1, <1>4, <1>6, <1>9, OrderStep
<1> QED BY <1>1, <1>5, <1>6, <1>8, <1>10, QuietStep

LEMMA AskDownKeeps ==
  ASSUME SharingInv, NEW e \in Elements, AskDown(e)
  PROVE  SharingInv'
<1> DEFINE S == Behind(e)
<1>1. /\ pc[e] = "askDown" /\ Ask(e, S, "askUp") /\ S \in SUBSET Elements
  BY DEF AskDown, Behind, Answering
<1>2. /\ chain' = chain /\ gstState' = gstState /\ dpyctx_' = dpyctx_ /\ device' = device
  BY <1>1 DEF Ask
<1>3. /\ PlaceOf(e) /\ chain \in Chains /\ (ordered => \A f \in Elements : SharesWith(e, f))
      /\ seen \in [Elements -> Displays \cup {None}] /\ pc \in [Elements -> Places]
  BY ElementFacts DEF SharingInv, DisplayTypeOK, Places
<1>4. ASSUME ordered, NEW f \in Elements PROVE SharesWith(e, f)'
  <2>1. Kind(f)' = Kind(f)
    BY <1>2, SameChain
  <2> SUFFICES ASSUME f = e + 1, Kind(f) \in {"vpp", "venc"}, gstState[f] = "ready", device[f] # None
               PROVE  /\ pc'[e] = "answer" /\ seen'[e] = device[f]
                      /\ dpyctx_[e] \in {None, device[f]}
    BY <1>2, <2>1 DEF SharesWith
  <2>2. f \in S /\ \A g \in S : g > e
    <3>1. f > e
      BY <1>3, ChainFacts
    <3> QED BY <3>1 DEF Behind, Answering
  <2>3. Nearest(e, S) = f
    BY <1>1, <1>3, <2>2, NearestFacts
  <2>4. pc'[e] = "answer" /\ seen'[e] = dpyctx_[f]
    BY <1>1, <1>3, <2>2, <2>3 DEF Ask, Goto
  <2>5. dpyctx_[f] = device[f]
    BY ElementFacts DEF PlaceOf
  <2>6. SharesWith(e, f)
    BY <1>3, <1>4
  <2> QED BY <2>4, <2>5, <2>6 DEF SharesWith
<1> HIDE DEF S
<1> QED BY <1>1, <1>4, AskStep

LEMMA AskUpKeeps ==
  ASSUME SharingInv, NEW e \in Elements, AskUp(e)
  PROVE  SharingInv'
<1> DEFINE S == Before(e)
<1>1. /\ pc[e] = "askUp" /\ Ask(e, S, "display") /\ S \in SUBSET Elements
  BY DEF AskUp, Before, Answering
<1>2. /\ chain' = chain /\ gstState' = gstState /\ device' = device
  BY <1>1 DEF Ask
<1>3. ASSUME ordered, NEW f \in Elements PROVE SharesWith(e, f)'
  <2>1. SharesWith(e, f)
    BY <1>3, ElementFacts
  <2>2. Kind(f)' = Kind(f)
    BY <1>2, SameChain
  <2> QED BY <1>1, <1>2, <2>1, <2>2 DEF SharesWith
<1> HIDE DEF S
<1> QED BY <1>1, <1>3, AskStep
-----------------------------------------------------------------------------
(* The steps that give up a display or a context.                          *)

LEMMA LetDisplayGoCounts ==
  ASSUME SharingInv, NEW e \in Elements, OnlyElement(e), LetDisplayGo(e), chain' = chain,
         contexts' = contexts, query' = query, dangling' = dangling, device'[e] = None
  PROVE  /\ heap' \in Heaps /\ heap'.context = heap.context /\ CountsInv'
         /\ dpyctx_' \in [Elements -> Displays \cup {None}] /\ dpyctx_'[e] = None
<1> DEFINE o == dpyctx_[e]
<1>1. /\ chain \in Chains /\ heap \in Heaps /\ dpyctx_ \in [Elements -> Displays \cup {None}]
      /\ o \in Displays \cup {None} /\ ContextsExact
      /\ \A f \in Elements : device[f] # None => device[f] = dpyctx_[f]
  BY DEF SharingInv, DisplayTypeOK, CountsInv, PlacesInv, PlaceOf
<1>2. heap' = UnrefDisplay(heap, o) /\ dpyctx_' = [dpyctx_ EXCEPT ![e] = None]
  BY DEF LetDisplayGo
<1>3. dpyctx_' \in [Elements -> Displays \cup {None}] /\ dpyctx_'[e] = None
  BY <1>1, <1>2
<1>4. /\ heap' \in Heaps /\ heap'.context = heap.context
      /\ \A x \in Displays :
           /\ heap'.display[x].valid = (heap.display[x].valid /\ (x = o /\ x # None => heap.display[x].refs > 1))
           /\ heap'.display[x].refs = IF x = o /\ x # None THEN Down(heap.display[x].refs) ELSE heap.display[x].refs
  BY <1>1, <1>2, UnrefDisplayFacts
<1>5. ContextsExact'
  BY <1>1, <1>4, SameChain DEF ContextsExact, ContextHolders
<1>6. PICK c \in Contexts : TRUE
  BY <1>1, ChainFacts
<1>7. \A b \in Contexts : Pointed(heap', b) = Pointed(heap, b)
  BY <1>4 DEF Pointed
<1>8. \A f \in Elements : f # e => dpyctx_'[f] = dpyctx_[f]
  BY DEF OnlyElement
<1>9. o # None => Holders(o) >= 1
  BY <1>1, HoldersFacts
<1>10. \A f \in Elements : device'[f] # None => device'[f] = device[f] /\ (device[f] = o => Holders(o) >= 2)
  <2> SUFFICES ASSUME NEW f \in Elements, device'[f] # None
               PROVE  device'[f] = device[f] /\ (device[f] = o => Holders(o) >= 2)
    OBVIOUS
  <2>1. f # e /\ device'[f] = device[f]
    BY DEF OnlyElement
  <2> QED BY <1>1, <2>1, HoldersFacts
<1>11. \A d \in Displays :
         /\ Hit(dpyctx_'[e], d) - Hit(dpyctx_[e], d) + Hit(Pointed(heap', c), d)
              - Hit(Pointed(heap, c), d) = Hit(None, d) - Hit(o, d)
         /\ \E r1 \in Nat :
              /\ r1 = IF d = o THEN Down(heap.display[d].refs) ELSE heap.display[d].refs
              /\ heap'.display[d].refs = IF d = None THEN Up(r1) ELSE r1
         /\ heap'.display[d].valid = (heap.display[d].valid /\ (d = o => heap.display[d].refs > 1))
  <2> TAKE d \in Displays
  <2>1. d # None /\ heap.display[d].refs \in Nat
    BY <1>1, ChainFacts DEF Heaps
  <2>2. Hit(dpyctx_'[e], d) = Hit(None, d) /\ dpyctx_[e] = o /\ Pointed(heap', c) = Pointed(heap, c)
    BY <1>3, <1>7
  <2>3. Hit(dpyctx_'[e], d) - Hit(dpyctx_[e], d) + Hit(Pointed(heap', c), d)
              - Hit(Pointed(heap, c), d) = Hit(None, d) - Hit(o, d)
    BY <2>2 DEF Hit
  <2>4. (IF d = o THEN Down(heap.display[d].refs) ELSE heap.display[d].refs) \in Nat
    BY <2>1 DEF Down
  <2> QED BY <1>4, <2>1, <2>3, <2>4
<1> HIDE DEF o
<1>12. (\A d \in Displays : DisplayCount(d)') /\ DevicesValid'
  <2>1. o \in Displays \cup {None} /\ None \in Displays \cup {None} /\ heap' \in Heaps
        /\ \A b \in Contexts : b # c => Pointed(heap', b) = Pointed(heap, b)
    BY <1>1, <1>4, <1>7
  <2>2. (dangling => dangling') /\ (~dangling' /\ None # None => Holders(None) >= 1 + Hit(o, None))
    OBVIOUS
  <2>3. CountsMove(e, c, o, None)
    BY <1>8, <1>9, <1>10, <1>11, <2>1, <2>2 DEF CountsMove
  <2> QED BY <2>1, <2>3, CountsStep
<1> QED BY <1>1, <1>3, <1>4, <1>5, <1>12, SameChain DEF CountsInv

LEMMA DropContextCounts ==
  ASSUME SharingInv, NEW e \in Elements, heap' = UnrefContext(heap, contexts[e]),
         contexts' = [contexts EXCEPT ![e] = None], chain' = chain,
         dpyctx_' = dpyctx_, device' = device, query' = query, dangling' = dangling
  PROVE  /\ heap' \in Heaps /\ CountsInv'
         /\ \A b \in Contexts : heap'.context[b].display = heap.context[b].display
         /\ contexts' \in [Elements -> Contexts \cup {None}] /\ contexts'[e] = None
<1> DEFINE o == contexts[e]
<1>1. /\ chain \in Chains /\ heap \in Heaps /\ contexts \in [Elements -> Contexts \cup {None}]
      /\ o \in Contexts \cup {None} /\ ContextsExact
      /\ \A f \in Elements : device[f] # None => device[f] = dpyctx_[f]
      /\ DevicesValid
  BY DEF SharingInv, DisplayTypeOK, CountsInv, PlacesInv, PlaceOf
<1>2. contexts' \in [Elements -> Contexts \cup {None}] /\ contexts'[e] = None
  BY <1>1
<1>3. CASE o = None
  <2>1. heap' = heap /\ contexts' = contexts
    BY <1>1, <1>3 DEF UnrefContext
  <2>2. CountsInv' /\ heap' \in Heaps
    BY <1>1, <2>1, CountsSame DEF DevicesValid
  <2> QED BY <1>1, <1>2, <2>1, <2>2
<1>4. CASE o # None
  <2> DEFINE D == IF heap.context[o].refs = 1 THEN heap.context[o].display ELSE None
  <2>1. o \in Contexts /\ heap.context[o].refs \in Nat /\ heap.context[o].display \in Displays \cup {None}
    BY <1>1, <1>4 DEF Heaps
  <2>2. heap.context[o].refs >= 1
    BY <1>1, <2>1, ContextHoldersFacts DEF ContextsExact
  <2>3. D \in Displays \cup {None}
    BY <2>1
  <2>4. D # None => D = heap.context[o].display /\ Pointed(heap, o) = D
    BY <2>2 DEF Pointed
  <2>5. /\ heap' \in Heaps
        /\ \A x \in Contexts :
             /\ heap'.context[x].display = heap.context[x].display
             /\ heap'.context[x].refs = IF x = o THEN Down(heap.context[x].refs) ELSE heap.context[x].refs
        /\ \A x \in Displays :
             /\ heap'.display[x].valid = (heap.display[x].valid /\ (x = D /\ x # None => heap.display[x].refs > 1))
             /\ heap'.display[x].refs = IF x = D /\ x # None THEN Down(heap.display[x].refs) ELSE heap.display[x].refs
    BY <1>1, <2>1, UnrefContextFacts
  <2>6. Pointed(heap', o) = IF heap.context[o].refs = 1 THEN None ELSE Pointed(heap, o)
    BY <2>1, <2>2, <2>5 DEF Pointed, Down
  <2>7. \A b \in Contexts : b # o => Pointed(heap', b) = Pointed(heap, b)
    BY <2>5 DEF Pointed
  <2>8. Pointed(heap, o) = heap.context[o].display
    BY <2>1, <2>2 DEF Pointed
  <2>9. ContextsExact'
    <3> SUFFICES ASSUME NEW b \in Contexts PROVE heap'.context[b].refs = ContextHolders(b)'
      BY SameChain DEF ContextsExact
    <3> DEFINE n == ContextHolders(b)
               m == ContextHolders(b)'
               k1 == Hit(contexts'[e], b)
               k2 == Hit(contexts[e], b)
               k3 == Hit(query'[e], b)
               k4 == Hit(query[e], b)
    <3>1. m = n + k1 - k2 + 2 * k3 - 2 * k4
      BY <1>1, ContextHoldersStep
    <3>2. b # None
      BY DEF Contexts, None
    <3>3. k1 = 0 /\ k2 = (IF b = o THEN 1 ELSE 0) /\ k3 = k4 /\ k4 \in {0, 1}
      BY <1>2, <3>2 DEF Hit
    <3>4. n \in Nat /\ heap.context[b].refs = n
      BY <1>1, ContextHoldersFacts DEF ContextsExact
    <3>5. b = o => n >= 1
      BY <2>2, <3>4
    <3> HIDE DEF n, m, k1, k2, k3, k4
    <3>6. m = IF b = o THEN n - 1 ELSE n
      BY <3>1, <3>3, <3>4
    <3>7. heap'.context[b].refs = IF b = o THEN n - 1 ELSE n
      BY <2>5, <3>4, <3>5 DEF Down
    <3> QED BY <3>6, <3>7 DEF m
  <2>10. D # None => Holders(D) >= 1
    BY <2>1, <2>3, <2>4, HoldersFacts
  <2>11. \A f \in Elements : device'[f] # None => device'[f] = device[f] /\ (device[f] = D => Holders(D) >= 2)
    BY <1>1, <2>1, <2>3, <2>4, HoldersFacts
  <2>12. \A d \in Displays :
           /\ Hit(dpyctx_'[e], d) - Hit(dpyctx_[e], d) + Hit(Pointed(heap', o), d)
                - Hit(Pointed(heap, o), d) = Hit(None, d) - Hit(D, d)
           /\ \E r1 \in Nat :
                /\ r1 = IF d = D THEN Down(heap.display[d].refs) ELSE heap.display[d].refs
                /\ heap'.display[d].refs = IF d = None THEN Up(r1) ELSE r1
           /\ heap'.display[d].valid = (heap.display[d].valid /\ (d = D => heap.display[d].refs > 1))
    <3> TAKE d \in Displays
    <3>1. d # None /\ heap.display[d].refs \in Nat
      BY <1>1, ChainFacts DEF Heaps
    <3>2. Hit(dpyctx_'[e], d) - Hit(dpyctx_[e], d) + Hit(Pointed(heap', o), d)
                - Hit(Pointed(heap, o), d) = Hit(None, d) - Hit(D, d)
      <4>1. CASE heap.context[o].refs = 1
        <5>1. Pointed(heap', o) = None /\ Pointed(heap, o) = D
          BY <2>6, <2>8, <4>1
        <5> QED BY <5>1 DEF Hit
      <4>2. CASE heap.context[o].refs # 1
        <5>1. Pointed(heap', o) = Pointed(heap, o) /\ D = None
          BY <2>6, <4>2
        <5> QED BY <5>1 DEF Hit
      <4> QED BY <4>1, <4>2
    <3>3. (IF d = D THEN Down(heap.display[d].refs) ELSE heap.display[d].refs) \in Nat
      BY <3>1 DEF Down
    <3> QED BY <2>5, <3>1, <3>2, <3>3
  <2> HIDE DEF D, o
  <2>14. CountsMove(e, o, D, None)
    BY <2>1, <2>3, <2>5, <2>7, <2>10, <2>11, <2>12 DEF CountsMove
  <2>13. (\A d \in Displays : DisplayCount(d)') /\ DevicesValid'
    BY <2>1, <2>3, <2>14, CountsStep
  <2> QED BY <1>2, <2>5, <2>9, <2>13, SameChain DEF CountsInv
<1> QED BY <1>3, <1>4
LEMMA GiveUpStep ==
  ASSUME SharingInv, NEW e \in Elements, OnlyElement(e), DisplayTypeOK', chain' = chain,
         heap' \in Heaps, CountsInv', query' = query, contexts'[e] \in {None, contexts[e]},
         \A b \in Contexts : heap'.context[b].display = heap.context[b].display,
         PlaceOf(e)', OrderInv'
  PROVE  SharingInv'
<1>1. /\ query \in [Elements -> Contexts \cup {None}]
      /\ \A f \in Elements : QueryAlone(f)
  BY DEF SharingInv, DisplayTypeOK, PlacesInv
<1>2. \A f \in Elements : query[f] # None => contexts'[e] # query[f]
  BY <1>1 DEF QueryAlone
<1>3. QueryAlone(e)'
  BY <1>1, <1>2, SameChain DEF QueryAlone, OnlyElement
<1>4. \A f \in Elements : f # e /\ query[f] # None =>
        /\ heap'.context[query[f]].display = heap.context[query[f]].display
        /\ contexts'[e] # query[f] /\ query'[e] # query[f]
  BY <1>1, <1>2 DEF QueryAlone
<1>5. PlacesInv'
  BY <1>3, <1>4, PlacesStep
<1> QED BY <1>5, SameChain DEF SharingInv

LEMMA UndoKeeps ==
  ASSUME SharingInv, NEW e \in Elements, Undo(e)
  PROVE  SharingInv'
<1>1. /\ pc[e] = "undo" /\ pc' = [pc EXCEPT ![e] = "idle"] /\ device' = [device EXCEPT ![e] = None]
      /\ LetDisplayGo(e) /\ chain' = chain /\ gstState' = gstState /\ asked' = asked /\ seen' = seen
      /\ query' = query /\ contexts' = contexts
      /\ changes' = changes /\ faults' = faults /\ ordered' = ordered /\ dangling' = dangling
      /\ dpyctx_' = [dpyctx_ EXCEPT ![e] = None]
  BY DEF Undo, Goto, queryVars, displayHistory, LetDisplayGo
<1>2. /\ pc \in [Elements -> Places] /\ device \in [Elements -> Displays \cup {None}]
      /\ dpyctx_ \in [Elements -> Displays \cup {None}]
  BY DEF SharingInv, DisplayTypeOK, Places
<1>3. pc'[e] = "idle" /\ device'[e] = None /\ OnlyElement(e)
  BY <1>1, <1>2 DEF OnlyElement
<1>4. /\ heap' \in Heaps /\ heap'.context = heap.context /\ CountsInv'
      /\ dpyctx_' \in [Elements -> Displays \cup {None}] /\ dpyctx_'[e] = None
  BY <1>1, <1>3, LetDisplayGoCounts
<1>5. DisplayTypeOK'
  <2>1. /\ pc' \in [Elements -> Places] /\ device' \in [Elements -> Displays \cup {None}]
    BY <1>1, <1>2 DEF Places
  <2>2. /\ gstState' \in [Elements -> {"null", "ready", "gone"}]
        /\ asked' \in [Elements -> Elements \cup {None}] /\ seen' \in [Elements -> Displays \cup {None}]
        /\ query' \in [Elements -> Contexts \cup {None}] /\ contexts' \in [Elements -> Contexts \cup {None}]
        /\ changes' \in 0 .. MaxChanges /\ faults' \in 0 .. MaxFaults
        /\ ordered' \in BOOLEAN /\ dangling' \in BOOLEAN
    BY <1>1 DEF SharingInv, DisplayTypeOK
  <2> QED BY <1>1, <1>4, <2>1, <2>2, TypeStep DEF Places
<1>6. PlaceOf(e) /\ (ordered => \A f \in Elements : SharesWith(e, f))
  BY ElementFacts
<1>7. PlaceOf(e)'
  BY <1>1, <1>3, <1>4, <1>6 DEF PlaceOf, Rising, Falling
<1>8. ASSUME ordered, NEW f \in Elements PROVE SharesWith(e, f)'
  BY <1>1, <1>3, <1>4, <1>6, <1>8, SharesStep
<1>9. OrderInv'
  BY <1>1, <1>3, <1>8, OrderStep DEF Rising
<1> QED BY <1>1, <1>3, <1>4, <1>5, <1>7, <1>9, GiveUpStep

LEMMA ReleaseDisplayKeeps ==
  ASSUME SharingInv, NEW e \in Elements, ReleaseDisplay(e)
  PROVE  SharingInv'
<1>1. /\ pc[e] = "unref" /\ pc' = [pc EXCEPT ![e] = "idle"] /\ gstState' = [gstState EXCEPT ![e] = "null"]
      /\ LetDisplayGo(e) /\ chain' = chain /\ device' = device /\ asked' = asked /\ seen' = seen
      /\ query' = query /\ contexts' = contexts
      /\ changes' = changes /\ faults' = faults /\ ordered' = ordered /\ dangling' = dangling
      /\ dpyctx_' = [dpyctx_ EXCEPT ![e] = None]
  BY DEF ReleaseDisplay, Goto, queryVars, displayHistory, LetDisplayGo
<1>2. /\ pc \in [Elements -> Places] /\ gstState \in [Elements -> {"null", "ready", "gone"}]
      /\ dpyctx_ \in [Elements -> Displays \cup {None}]
  BY DEF SharingInv, DisplayTypeOK, Places
<1>6. PlaceOf(e) /\ (ordered => \A f \in Elements : SharesWith(e, f))
  BY ElementFacts
<1>3. pc'[e] = "idle" /\ device'[e] = None /\ gstState'[e] = "null" /\ OnlyElement(e)
  BY <1>1, <1>2, <1>6 DEF OnlyElement, PlaceOf
<1>4. /\ heap' \in Heaps /\ heap'.context = heap.context /\ CountsInv'
      /\ dpyctx_' \in [Elements -> Displays \cup {None}] /\ dpyctx_'[e] = None
  BY <1>1, <1>3, LetDisplayGoCounts
<1>5. DisplayTypeOK'
  <2>1. /\ pc' \in [Elements -> Places] /\ gstState' \in [Elements -> {"null", "ready", "gone"}]
    BY <1>1, <1>2 DEF Places
  <2>2. /\ device' \in [Elements -> Displays \cup {None}]
        /\ asked' \in [Elements -> Elements \cup {None}] /\ seen' \in [Elements -> Displays \cup {None}]
        /\ query' \in [Elements -> Contexts \cup {None}] /\ contexts' \in [Elements -> Contexts \cup {None}]
        /\ changes' \in 0 .. MaxChanges /\ faults' \in 0 .. MaxFaults
        /\ ordered' \in BOOLEAN /\ dangling' \in BOOLEAN
    BY <1>1 DEF SharingInv, DisplayTypeOK
  <2> QED BY <1>1, <1>4, <2>1, <2>2, TypeStep DEF Places
<1>7. PlaceOf(e)'
  BY <1>1, <1>3, <1>4, <1>6 DEF PlaceOf, Rising, Falling
<1>8. ASSUME ordered, NEW f \in Elements PROVE SharesWith(e, f)'
  BY <1>1, <1>3, <1>4, <1>6, <1>8, SharesStep
<1>9. OrderInv'
  BY <1>1, <1>3, <1>8, OrderStep DEF Rising
<1> QED BY <1>1, <1>3, <1>4, <1>5, <1>7, <1>9, GiveUpStep

\* The list of the element loses its context, as it goes to NULL or is finalized.
LEMMA EmptyListStep ==
  ASSUME SharingInv, NEW e \in Elements, chain' = chain, asked' = asked, seen' = seen, query' = query,
         dpyctx_' = dpyctx_, device' = device, UNCHANGED displayHistory,
         heap' = UnrefContext(heap, contexts[e]), contexts' = [contexts EXCEPT ![e] = None],
         NEW p \in Places, pc' = [pc EXCEPT ![e] = p],
         NEW s \in {"null", "ready", "gone"}, gstState' = [gstState EXCEPT ![e] = s],
         (pc[e] = "drop" /\ p = "free" /\ s = gstState[e])
           \/ (pc[e] = "idle" /\ p = "idle" /\ gstState[e] = "null" /\ s = "gone")
  PROVE  SharingInv'
<1>1. changes' = changes /\ faults' = faults /\ ordered' = ordered /\ dangling' = dangling
  BY DEF displayHistory
<1>2. /\ pc \in [Elements -> Places] /\ gstState \in [Elements -> {"null", "ready", "gone"}]
      /\ contexts \in [Elements -> Contexts \cup {None}]
  BY DEF SharingInv, DisplayTypeOK, Places
<1>3. pc'[e] = p /\ gstState'[e] = s /\ contexts'[e] = None /\ OnlyElement(e)
  BY <1>2 DEF OnlyElement
<1>4. /\ heap' \in Heaps /\ CountsInv'
      /\ \A b \in Contexts : heap'.context[b].display = heap.context[b].display
      /\ contexts' \in [Elements -> Contexts \cup {None}]
  BY <1>1, DropContextCounts
<1>5. DisplayTypeOK'
  <2>1. /\ pc' \in [Elements -> Places] /\ gstState' \in [Elements -> {"null", "ready", "gone"}]
    BY <1>2
  <2>2. /\ device' \in [Elements -> Displays \cup {None}] /\ dpyctx_' \in [Elements -> Displays \cup {None}]
        /\ asked' \in [Elements -> Elements \cup {None}] /\ seen' \in [Elements -> Displays \cup {None}]
        /\ query' \in [Elements -> Contexts \cup {None}]
        /\ changes' \in 0 .. MaxChanges /\ faults' \in 0 .. MaxFaults
        /\ ordered' \in BOOLEAN /\ dangling' \in BOOLEAN
    BY <1>1 DEF SharingInv, DisplayTypeOK
  <2> QED BY <1>4, <2>1, <2>2, TypeStep DEF Places
<1>6. PlaceOf(e) /\ (ordered => \A f \in Elements : SharesWith(e, f))
  BY ElementFacts
<1>7. PlaceOf(e)'
  <2>1. query[e] = None
    BY <1>6 DEF PlaceOf
  <2> QED BY <1>3, <1>6, <2>1 DEF PlaceOf, Rising, Falling
<1>8. ASSUME ordered, NEW f \in Elements PROVE SharesWith(e, f)'
  <2>1. dpyctx_'[e] \in {None, dpyctx_[e]} /\ pc'[e] \notin {"askUp", "display", "answer", "take"}
    BY <1>3
  <2> QED BY <1>3, <1>6, <1>8, <2>1, SharesStep
<1>9. OrderInv'
  <2>1. /\ pc'[e] \notin Rising
        /\ pc[e] = "idle" /\ gstState[e] # "ready" => pc'[e] = "idle" /\ gstState'[e] # "ready"
        /\ gstState'[e] = "ready" => gstState[e] = "ready"
    BY <1>3 DEF Rising
  <2> QED BY <1>1, <1>3, <1>8, <2>1, OrderStep
<1> QED BY <1>3, <1>4, <1>5, <1>7, <1>9, GiveUpStep

LEMMA DropContextKeeps ==
  ASSUME SharingInv, NEW e \in Elements, DropContext(e)
  PROVE  SharingInv'
<1>1. gstState \in [Elements -> {"null", "ready", "gone"}]
  BY DEF SharingInv, DisplayTypeOK
<1>2. PICK s \in {"null", "ready", "gone"} : s = gstState[e] /\ gstState = [gstState EXCEPT ![e] = s]
  BY <1>1
<1>3. "free" \in Places
  BY DEF Places
<1>4. /\ chain' = chain /\ asked' = asked /\ seen' = seen /\ query' = query
      /\ dpyctx_' = dpyctx_ /\ device' = device /\ UNCHANGED displayHistory
      /\ heap' = UnrefContext(heap, contexts[e]) /\ contexts' = [contexts EXCEPT ![e] = None]
      /\ pc[e] = "drop" /\ pc' = [pc EXCEPT ![e] = "free"] /\ gstState' = gstState
  BY DEF DropContext, Goto, queryVars
<1> QED BY <1>2, <1>3, <1>4, EmptyListStep

LEMMA FinalizeKeeps ==
  ASSUME SharingInv, NEW e \in Elements, Finalize(e)
  PROVE  SharingInv'
<1>1. pc \in [Elements -> Places] /\ "idle" \in Places
  BY DEF SharingInv, DisplayTypeOK, Places
<1>2. /\ chain' = chain /\ asked' = asked /\ seen' = seen /\ query' = query
      /\ dpyctx_' = dpyctx_ /\ device' = device /\ UNCHANGED displayHistory
      /\ heap' = UnrefContext(heap, contexts[e]) /\ contexts' = [contexts EXCEPT ![e] = None]
      /\ pc[e] = "idle" /\ gstState[e] = "null" /\ pc' = pc /\ gstState' = [gstState EXCEPT ![e] = "gone"]
  BY DEF Finalize, queryVars
<1>3. pc' = [pc EXCEPT ![e] = "idle"]
  BY <1>1, <1>2
<1> QED BY <1>1, <1>2, <1>3, EmptyListStep
-----------------------------------------------------------------------------
(* The steps that get a display.                                           *)

LEMMA OpenDisplayKeeps ==
  ASSUME SharingInv, NEW e \in Elements, OpenDisplay(e)
  PROVE  SharingInv'
<1> DEFINE z == FreeDisplay
<1>1. /\ pc[e] = "display" /\ chain' = chain /\ gstState' = gstState /\ query' = query /\ asked' = asked
      /\ seen' = seen /\ device' = device /\ contexts' = contexts /\ dpyctx_' = [dpyctx_ EXCEPT ![e] = z]
      /\ UNCHANGED displayHistory \/ Fail(e)
  BY DEF OpenDisplay, queryVars
<1>2. PICK v \in BOOLEAN, p \in {"allocator", "undo"} :
        heap' = NewDisplay(heap, z, v) /\ pc' = [pc EXCEPT ![e] = p]
  BY DEF OpenDisplay, Goto, Fail
<1>3. /\ changes' \in 0 .. MaxChanges /\ faults' \in 0 .. MaxFaults
      /\ ordered' = ordered /\ dangling' = dangling /\ ordered' \in BOOLEAN /\ dangling' \in BOOLEAN
  BY <1>1, FaultsStep
<1>4. /\ z \in Displays /\ heap.display[z].refs = 0
      /\ \A f \in Elements : dpyctx_[f] # z /\ seen[f] # z /\ device[f] # z
      /\ \A c \in Contexts : Pointed(heap, c) # z
  BY <1>1, FreeDisplayFacts
<1>5. /\ chain \in Chains /\ heap \in Heaps /\ pc \in [Elements -> Places]
      /\ dpyctx_ \in [Elements -> Displays \cup {None}] /\ DevicesValid /\ ContextsExact
      /\ device \in [Elements -> Displays \cup {None}]
      /\ \A d \in Displays : DisplayCount(d)
  BY DEF SharingInv, DisplayTypeOK, CountsInv, Places
<1> HIDE DEF z
<1>6. /\ heap' \in Heaps /\ heap'.context = heap.context /\ heap'.display[z] = [refs |-> 1, valid |-> v]
      /\ \A d \in Displays : d # z => heap'.display[d] = heap.display[d]
  <2>1. heap' = [heap EXCEPT !.display = [heap.display EXCEPT ![z] = [refs |-> 1, valid |-> v]]]
    BY <1>2 DEF NewDisplay
  <2> QED BY <1>4, <1>5, <2>1 DEF Heaps
<1>7. p \in Places /\ pc'[e] = p /\ dpyctx_'[e] = z /\ OnlyElement(e)
  BY <1>1, <1>2, <1>5 DEF OnlyElement, Places
<1>8. DisplayTypeOK'
  <2>1. /\ pc' \in [Elements -> Places] /\ dpyctx_' \in [Elements -> Displays \cup {None}]
    BY <1>1, <1>2, <1>4, <1>5, <1>7
  <2>2. /\ device' \in [Elements -> Displays \cup {None}]
        /\ gstState' \in [Elements -> {"null", "ready", "gone"}]
        /\ asked' \in [Elements -> Elements \cup {None}] /\ seen' \in [Elements -> Displays \cup {None}]
        /\ query' \in [Elements -> Contexts \cup {None}] /\ contexts' \in [Elements -> Contexts \cup {None}]
    BY <1>1 DEF SharingInv, DisplayTypeOK
  <2> QED BY <1>1, <1>3, <1>6, <2>1, <2>2, TypeStep DEF Places
<1>9. PlaceOf(e) /\ (ordered => \A f \in Elements : SharesWith(e, f))
  BY ElementFacts
<1>10. dpyctx_[e] = None /\ device[e] = None /\ gstState[e] = "null" /\ query[e] = None /\ seen[e] = None
  BY <1>1, <1>9 DEF PlaceOf, Rising
<1>11. PlaceOf(e)'
  BY <1>1, <1>7, <1>10 DEF PlaceOf, Rising, Falling
<1>12. ContextsExact'
  BY <1>1, <1>5, <1>6, SameChain DEF ContextsExact, ContextHolders
<1>13. ASSUME NEW d \in Displays PROVE DisplayCount(d)'
  <2>1. PICK c \in Contexts : TRUE
    BY <1>5, ChainFacts
  <2>2. \A b \in Contexts : Pointed(heap', b) = Pointed(heap, b)
    BY <1>6 DEF Pointed
  <2>3. \A f \in Elements : f # e => dpyctx_'[f] = dpyctx_[f]
    BY <1>7 DEF OnlyElement
  <2>4. Holders(d)' = Holders(d) + Hit(dpyctx_'[e], d) - Hit(dpyctx_[e], d)
                         + Hit(Pointed(heap', c), d) - Hit(Pointed(heap, c), d)
    BY <1>1, <2>2, <2>3, HoldersStep
  <2>5. Holders(d) \in Nat /\ d # None
    BY <1>5, ChainFacts, HoldersFacts
  <2>6. Holders(d)' = Holders(d) + Hit(z, d)
    <3> DEFINE n == Holders(d)
               m == Holders(d)'
               k1 == Hit(z, d)
               k2 == Hit(dpyctx_[e], d)
               k3 == Hit(Pointed(heap', c), d)
               k4 == Hit(Pointed(heap, c), d)
    <3>1. k3 = k4 /\ k4 \in {0, 1} /\ k2 = 0 /\ k1 \in {0, 1}
      BY <1>10, <2>2, <2>5 DEF Hit
    <3>2. m = n + k1 - k2 + k3 - k4 /\ n \in Nat
      BY <1>7, <2>4, <2>5
    <3> HIDE DEF n, m, k1, k2, k3, k4
    <3>3. m = n + k1
      BY <3>1, <3>2
    <3> QED BY <3>3 DEF m, n, k1
  <2>7. CASE d = z
    <3>1. Holders(z) = 0
      BY <1>4, HoldersFacts
    <3>2. Hit(z, d) = 1
      BY <2>7 DEF Hit
    <3>3. Holders(d)' = 1 /\ heap'.display[d].refs = 1
      BY <1>6, <2>6, <2>7, <3>1, <3>2
    <3> QED BY <3>3 DEF DisplayCount
  <2>8. CASE d # z
    <3>1. Hit(z, d) = 0
      BY <2>8 DEF Hit
    <3>2. Holders(d)' = Holders(d) /\ heap'.display[d].refs = heap.display[d].refs
      BY <1>6, <2>5, <2>6, <2>8, <3>1
    <3> QED BY <1>3, <1>5, <3>2 DEF DisplayCount
  <2> QED BY <2>7, <2>8
<1>14. DevicesValid'
  <2> SUFFICES ASSUME NEW f \in Elements, device[f] # None, ~dangling PROVE heap'.display[device[f]].valid
    BY <1>1, <1>3, SameChain DEF DevicesValid
  <2>1. device[f] \in Displays /\ device[f] # z
    BY <1>4, <1>5
  <2> QED BY <1>5, <1>6, <2>1 DEF DevicesValid
<1>15. CountsInv'
  BY <1>1, <1>12, <1>13, <1>14, SameChain DEF CountsInv
<1>16. OrderInv'
  <2>1. ASSUME ordered, NEW f \in Elements PROVE SharesWith(e, f)'
    <3>1. SharesWith(e, f) /\ Kind(f)' = Kind(f)
      BY <1>1, <1>9, <2>1, SameChain
    <3> QED BY <1>1, <3>1 DEF SharesWith
  <2> QED BY <1>1, <1>3, <1>7, <1>10, <2>1, OrderStep DEF Rising
<1> QED BY <1>1, <1>6, <1>7, <1>8, <1>11, <1>15, <1>16, GiveUpStep
LEMMA AnswerKeeps ==
  ASSUME SharingInv, NEW e \in Elements, Answer(e)
  PROVE  SharingInv'
<1> DEFINE z == FreeContext
           G == seen[e]
<1>1. /\ pc[e] = "answer" /\ chain' = chain /\ gstState' = gstState /\ dpyctx_' = dpyctx_
      /\ seen' = seen /\ device' = device /\ contexts' = contexts /\ changes' = changes /\ faults' = faults
      /\ ordered' = ordered /\ query' = [query EXCEPT ![e] = z] /\ asked' = [asked EXCEPT ![e] = None]
      /\ pc' = [pc EXCEPT ![e] = "take"] /\ heap' = NewContext(heap, z, G)
      /\ dangling' = (dangling \/ (G # None /\ heap.display[G].refs = 0))
  BY DEF Answer, Goto
<1>2. /\ z \in Contexts /\ heap.context[z].refs = 0 /\ ContextHolders(z) = 0
      /\ \A f \in Elements : contexts[f] # z /\ query[f] # z
  BY <1>1, FreeContextFacts
<1>3. /\ chain \in Chains /\ heap \in Heaps /\ pc \in [Elements -> Places]
      /\ query \in [Elements -> Contexts \cup {None}] /\ DevicesValid /\ ContextsExact
      /\ asked \in [Elements -> Elements \cup {None}] /\ dangling \in BOOLEAN
      /\ G \in Displays \cup {None} /\ z # None
      /\ \A d \in Displays : DisplayCount(d)
  BY <1>2 DEF SharingInv, DisplayTypeOK, CountsInv, Places, Contexts, None
<1>4. PlaceOf(e) /\ QueryAlone(e) /\ (ordered => \A f \in Elements : SharesWith(e, f))
  BY ElementFacts
<1> HIDE DEF z, G
<1>5. /\ heap' \in Heaps /\ heap'.context[z] = [refs |-> 2, display |-> G]
      /\ \A c \in Contexts : c # z => heap'.context[c] = heap.context[c]
      /\ \A d \in Displays :
           /\ heap'.display[d].valid = heap.display[d].valid
           /\ heap'.display[d].refs
                = IF d = G /\ d # None THEN Up(heap.display[d].refs) ELSE heap.display[d].refs
  <2>1. PICK h : h = RefDisplay(heap, G)
    OBVIOUS
  <2>2. /\ h \in Heaps /\ h.context = heap.context
        /\ \A d \in Displays :
             /\ h.display[d].valid = heap.display[d].valid
             /\ h.display[d].refs = IF d = G /\ d # None THEN Up(heap.display[d].refs) ELSE heap.display[d].refs
    BY <1>3, <2>1, RefDisplayFacts
  <2>3. heap' = [h EXCEPT !.context = [h.context EXCEPT ![z] = [refs |-> 2, display |-> G]]]
    BY <1>1, <2>1 DEF NewContext
  <2>4. [refs |-> 2, display |-> G] \in [refs : Nat, display : Displays \cup {None}]
    BY <1>3
  <2>5. heap' \in Heaps /\ heap'.display = h.display
        /\ heap'.context = [h.context EXCEPT ![z] = [refs |-> 2, display |-> G]]
    BY <1>2, <2>2, <2>3, <2>4 DEF Heaps
  <2>6. heap'.context[z] = [refs |-> 2, display |-> G] /\ \A c \in Contexts : c # z => heap'.context[c] = heap.context[c]
    BY <1>2, <2>2, <2>5 DEF Heaps
  <2> QED BY <2>2, <2>5, <2>6
<1>6. pc'[e] = "take" /\ query'[e] = z /\ OnlyElement(e)
  BY <1>1, <1>3 DEF OnlyElement
<1>7. DisplayTypeOK'
  <2>1. /\ pc' \in [Elements -> Places] /\ query' \in [Elements -> Contexts \cup {None}]
        /\ asked' \in [Elements -> Elements \cup {None}] /\ dangling' \in BOOLEAN
    BY <1>1, <1>2, <1>3 DEF Places
  <2>2. /\ device' \in [Elements -> Displays \cup {None}] /\ dpyctx_' \in [Elements -> Displays \cup {None}]
        /\ gstState' \in [Elements -> {"null", "ready", "gone"}]
        /\ seen' \in [Elements -> Displays \cup {None}] /\ contexts' \in [Elements -> Contexts \cup {None}]
        /\ changes' \in 0 .. MaxChanges /\ faults' \in 0 .. MaxFaults /\ ordered' \in BOOLEAN
    BY <1>1 DEF SharingInv, DisplayTypeOK
  <2> QED BY <1>1, <1>5, <2>1, <2>2, TypeStep DEF Places
<1>8. PlaceOf(e)'
  <2>1. heap'.context[z].display = G /\ G = seen[e]
    BY <1>5 DEF G
  <2>2. dpyctx_[e] = None /\ device[e] = None /\ gstState[e] = "null"
    BY <1>1, <1>4 DEF PlaceOf, Rising
  <2> QED BY <1>1, <1>3, <1>6, <2>1, <2>2 DEF PlaceOf, Rising, Falling
<1>9. QueryAlone(e)'
  BY <1>1, <1>2, <1>6, SameChain DEF QueryAlone, OnlyElement
<1>10. PlacesInv'
  <2>1. \A f \in Elements : f # e /\ query[f] # None =>
          /\ heap'.context[query[f]].display = heap.context[query[f]].display
          /\ contexts'[e] # query[f] /\ query'[e] # query[f]
    <3>1. \A f \in Elements : QueryAlone(f)
      BY DEF SharingInv, PlacesInv
    <3> QED BY <1>1, <1>2, <1>3, <1>5, <1>6, <3>1 DEF QueryAlone
  <2> QED BY <1>1, <1>6, <1>8, <1>9, <2>1, PlacesStep
<1>11. ContextsExact'
  <2> SUFFICES ASSUME NEW b \in Contexts PROVE heap'.context[b].refs = ContextHolders(b)'
    BY <1>1, SameChain DEF ContextsExact
  <2> DEFINE n == ContextHolders(b)
             m == ContextHolders(b)'
             k1 == Hit(contexts'[e], b)
             k2 == Hit(contexts[e], b)
             k3 == Hit(query'[e], b)
             k4 == Hit(query[e], b)
  <2>1. m = n + k1 - k2 + 2 * k3 - 2 * k4
    BY <1>1, <1>6, ContextHoldersStep DEF OnlyElement
  <2>2. query[e] = None /\ b # None
    BY <1>1, <1>4 DEF PlaceOf, Contexts, None
  <2>3. k1 = k2 /\ k2 \in {0, 1} /\ k3 = (IF b = z THEN 1 ELSE 0) /\ k4 = 0
    BY <1>1, <1>6, <2>2 DEF Hit
  <2>4. n \in Nat /\ heap.context[b].refs = n /\ (b = z => n = 0)
    BY <1>2, <1>3, ContextHoldersFacts DEF ContextsExact
  <2>5. heap'.context[b].refs = IF b = z THEN 2 ELSE n
    BY <1>5, <2>4
  <2> HIDE DEF n, m, k1, k2, k3, k4
  <2>6. m = IF b = z THEN 2 ELSE n
    BY <2>1, <2>3, <2>4
  <2> QED BY <2>5, <2>6 DEF m
<1>12. CountsMove(e, z, None, G)
  <2>1. Pointed(heap, z) = None /\ Pointed(heap', z) = G
    BY <1>2, <1>5 DEF Pointed
  <2>2. \A b \in Contexts : b # z => Pointed(heap', b) = Pointed(heap, b)
    BY <1>5 DEF Pointed
  <2>3. ~dangling' /\ G # None => Holders(G) >= 1 + Hit(None, G)
    <3> SUFFICES ASSUME ~dangling', G # None PROVE Holders(G) >= 1 + Hit(None, G)
      OBVIOUS
    <3>1. G \in Displays /\ heap.display[G].refs \in Nat /\ heap.display[G].refs # 0
      BY <1>1, <1>3 DEF Heaps
    <3>2. heap.display[G].refs <= Holders(G) /\ Holders(G) \in Nat
      BY <1>3, <3>1, HoldersFacts DEF DisplayCount
    <3>3. Hit(None, G) = 0
      BY DEF Hit
    <3> QED BY <3>1, <3>2, <3>3
  <2>4. ASSUME NEW d \in Displays
        PROVE  /\ Hit(dpyctx_'[e], d) - Hit(dpyctx_[e], d) + Hit(Pointed(heap', z), d)
                    - Hit(Pointed(heap, z), d) = Hit(G, d) - Hit(None, d)
               /\ \E r1 \in Nat :
                    /\ r1 = IF d = None THEN Down(heap.display[d].refs) ELSE heap.display[d].refs
                    /\ heap'.display[d].refs = IF d = G THEN Up(r1) ELSE r1
               /\ heap'.display[d].valid = (heap.display[d].valid /\ (d = None => heap.display[d].refs > 1))
    <3>1. d # None /\ heap.display[d].refs \in Nat /\ heap.display[d].valid \in BOOLEAN
      BY <1>3, ChainFacts DEF Heaps
    <3>2. Hit(dpyctx_'[e], d) - Hit(dpyctx_[e], d) + Hit(Pointed(heap', z), d)
                    - Hit(Pointed(heap, z), d) = Hit(G, d) - Hit(None, d)
      BY <1>1, <2>1 DEF Hit
    <3> QED BY <1>5, <3>1, <3>2
  <2>5. \A f \in Elements : device'[f] # None => device'[f] = device[f] /\ (device[f] = None => Holders(None) >= 2)
    BY <1>1
  <2>6. \A f \in Elements : f # e => dpyctx_'[f] = dpyctx_[f]
    BY <1>1
  <2>7. dangling => dangling'
    BY <1>1
  <2> QED BY <1>1, <1>5, <2>2, <2>3, <2>4, <2>5, <2>6, <2>7 DEF CountsMove
<1>13. (\A d \in Displays : DisplayCount(d)') /\ DevicesValid'
  <2>1. None \in Displays \cup {None}
    OBVIOUS
  <2> QED BY <1>2, <1>3, <1>12, <2>1, CountsStep
<1>14. OrderInv'
  <2>1. ASSUME ordered, NEW f \in Elements PROVE SharesWith(e, f)'
    <3>1. SharesWith(e, f) /\ Kind(f)' = Kind(f)
      BY <1>1, <1>4, <2>1, SameChain
    <3> QED BY <1>1, <1>6, <3>1 DEF SharesWith
  <2>2. gstState[e] = "null"
    BY <1>1, <1>4 DEF PlaceOf, Rising
  <2> QED BY <1>1, <1>6, <2>1, <2>2, OrderStep DEF Rising
<1> QED BY <1>1, <1>5, <1>7, <1>10, <1>11, <1>13, <1>14, SameChain DEF SharingInv, CountsInv
LEMMA UnrefSharedContext ==
  ASSUME NEW h \in Heaps, NEW c \in Contexts, h.context[c].refs > 1, NEW k, k = UnrefContext(h, c)
  PROVE  /\ k \in Heaps
         /\ \A x \in Contexts : k.context[x].display = h.context[x].display
         /\ \A x \in Contexts : k.context[x].refs = IF x = c THEN h.context[x].refs - 1 ELSE h.context[x].refs
         /\ \A x \in Displays : k.display[x].valid = h.display[x].valid /\ k.display[x].refs = h.display[x].refs
<1> DEFINE d == IF h.context[c].refs = 1 THEN h.context[c].display ELSE None
<1>1. /\ k \in Heaps
      /\ \A x \in Contexts :
           /\ k.context[x].display = h.context[x].display
           /\ k.context[x].refs = IF x = c THEN Down(h.context[x].refs) ELSE h.context[x].refs
      /\ \A x \in Displays :
           /\ k.display[x].valid = (h.display[x].valid /\ (x = d /\ x # None => h.display[x].refs > 1))
           /\ k.display[x].refs = IF x = d /\ x # None THEN Down(h.display[x].refs) ELSE h.display[x].refs
  BY UnrefContextFacts
<1>2. h.context[c].refs \in Nat /\ \A x \in Displays : h.display[x].valid \in BOOLEAN
  BY DEF Heaps
<1>3. d = None
  BY <1>2
<1> HIDE DEF d
<1>4. Down(h.context[c].refs) = h.context[c].refs - 1
  BY <1>2 DEF Down
<1> QED BY <1>1, <1>2, <1>3, <1>4

\* The heap after Take(): the query's context c, whose display is d, has replaced o.
LEMMA TakeHeap ==
  ASSUME NEW h \in Heaps, NEW c \in Contexts, NEW o \in Contexts \cup {None}, o # c,
         h.context[c].refs = 2, NEW d, d = h.context[c].display,
         NEW D, D = IF o # None /\ h.context[o].refs = 1 THEN h.context[o].display ELSE None,
         NEW k, k = UnrefContext(RefDisplay(UnrefContext(UnrefContext(RefContext(h, c), o), c), d), c)
  PROVE  /\ k \in Heaps
         /\ \A x \in Contexts :
              /\ k.context[x].display = h.context[x].display
              /\ k.context[x].refs = IF x = c THEN 1
                                     ELSE IF x = o THEN Down(h.context[x].refs) ELSE h.context[x].refs
         /\ \A x \in Displays :
              /\ k.display[x].valid = (h.display[x].valid /\ (x = D => h.display[x].refs > 1))
              /\ \E r1 \in Nat :
                   /\ r1 = IF x = D THEN Down(h.display[x].refs) ELSE h.display[x].refs
                   /\ k.display[x].refs = IF x = d THEN Up(r1) ELSE r1
<1>0. /\ \A x \in Contexts : h.context[x].refs \in Nat /\ h.context[x].display \in Displays \cup {None}
      /\ \A x \in Displays : h.display[x].refs \in Nat /\ h.display[x].valid \in BOOLEAN /\ x # None
  <2>1. \A x \in Displays : x # None
    BY DEF Displays, None
  <2> QED BY <2>1 DEF Heaps
<1>1. PICK h1 : h1 = RefContext(h, c)
  OBVIOUS
<1>2. /\ h1 \in Heaps /\ h1.display = h.display
      /\ \A x \in Contexts : h1.context[x].display = h.context[x].display
      /\ \A x \in Contexts : h1.context[x].refs = IF x = c THEN 3 ELSE h.context[x].refs
  <2>1. /\ h1 \in Heaps /\ h1.display = h.display
        /\ \A x \in Contexts :
             /\ h1.context[x].display = h.context[x].display
             /\ h1.context[x].refs = IF x = c THEN Up(h.context[x].refs) ELSE h.context[x].refs
    BY <1>1, RefContextFacts
  <2>2. Up(h.context[c].refs) = 3
    BY DEF Up
  <2> QED BY <2>1, <2>2
<1>3. PICK h2 : h2 = UnrefContext(h1, o)
  OBVIOUS
<1>4. /\ h2 \in Heaps
      /\ \A x \in Contexts : h2.context[x].display = h.context[x].display
      /\ \A x \in Contexts : h2.context[x].refs
           = IF x = c THEN 3 ELSE IF x = o THEN Down(h.context[x].refs) ELSE h.context[x].refs
      /\ \A x \in Displays : h2.display[x].valid = (h.display[x].valid /\ (x = D => h.display[x].refs > 1))
      /\ \A x \in Displays : h2.display[x].refs = IF x = D THEN Down(h.display[x].refs) ELSE h.display[x].refs
  <2>1. CASE o = None
    <3>1. h2 = h1 /\ D = None
      BY <1>3, <2>1 DEF UnrefContext
    <3>2. \A x \in Contexts : x # o
      BY <2>1 DEF Contexts, None
    <3> QED BY <1>0, <1>2, <3>1, <3>2
  <2>2. CASE o # None
    <3>1. D = IF h1.context[o].refs = 1 THEN h1.context[o].display ELSE None
      BY <1>2, <2>2
    <3>2. o \in Contexts
      BY <2>2
    <3>3. /\ h2 \in Heaps
          /\ \A x \in Contexts :
               /\ h2.context[x].display = h1.context[x].display
               /\ h2.context[x].refs = IF x = o THEN Down(h1.context[x].refs) ELSE h1.context[x].refs
      BY <1>2, <1>3, <3>2, UnrefContextFacts
    <3>4. \A x \in Displays :
            /\ h2.display[x].valid = (h1.display[x].valid /\ (x = D /\ x # None => h1.display[x].refs > 1))
            /\ h2.display[x].refs = IF x = D /\ x # None THEN Down(h1.display[x].refs) ELSE h1.display[x].refs
      BY <1>2, <1>3, <3>1, <3>2, UnrefContextFacts
    <3> QED BY <1>0, <1>2, <3>3, <3>4
  <2> QED BY <2>1, <2>2
<1>5. PICK h3 : h3 = UnrefContext(h2, c)
  OBVIOUS
<1>6. /\ h3 \in Heaps
      /\ \A x \in Contexts : h3.context[x].display = h.context[x].display
      /\ \A x \in Contexts : h3.context[x].refs
           = IF x = c THEN 2 ELSE IF x = o THEN Down(h.context[x].refs) ELSE h.context[x].refs
      /\ \A x \in Displays : h3.display[x].valid = (h.display[x].valid /\ (x = D => h.display[x].refs > 1))
      /\ \A x \in Displays : h3.display[x].refs = IF x = D THEN Down(h.display[x].refs) ELSE h.display[x].refs
  <2>1. h2.context[c].refs = 3
    BY <1>4
  <2>2. /\ h3 \in Heaps
        /\ \A x \in Contexts : h3.context[x].display = h2.context[x].display
        /\ \A x \in Contexts : h3.context[x].refs = IF x = c THEN h2.context[x].refs - 1 ELSE h2.context[x].refs
        /\ \A x \in Displays : h3.display[x].valid = h2.display[x].valid /\ h3.display[x].refs = h2.display[x].refs
    BY <1>4, <1>5, <2>1, UnrefSharedContext
  <2>4. \A x \in Contexts : h3.context[x].refs
           = IF x = c THEN 2 ELSE IF x = o THEN Down(h.context[x].refs) ELSE h.context[x].refs
    BY <1>4, <2>1, <2>2
  <2> QED BY <1>4, <2>2, <2>4
<1>7. PICK h4 : h4 = RefDisplay(h3, d)
  OBVIOUS
<1>8. /\ h4 \in Heaps /\ h4.context = h3.context
      /\ \A x \in Displays : h4.display[x].valid = h3.display[x].valid
      /\ \A x \in Displays : h4.display[x].refs = IF x = d THEN Up(h3.display[x].refs) ELSE h3.display[x].refs
  BY <1>0, <1>6, <1>7, RefDisplayFacts
<1>9. k = UnrefContext(h4, c)
  BY <1>1, <1>3, <1>5, <1>7
<1>10. /\ k \in Heaps
       /\ \A x \in Contexts : k.context[x].display = h.context[x].display
       /\ \A x \in Contexts : k.context[x].refs
            = IF x = c THEN 1 ELSE IF x = o THEN Down(h.context[x].refs) ELSE h.context[x].refs
       /\ \A x \in Displays : k.display[x].valid = h4.display[x].valid
       /\ \A x \in Displays : k.display[x].refs = h4.display[x].refs
  <2>1. h4.context[c].refs = 2
    BY <1>6, <1>8
  <2>2. /\ k \in Heaps
        /\ \A x \in Contexts : k.context[x].display = h4.context[x].display
        /\ \A x \in Contexts : k.context[x].refs = IF x = c THEN h4.context[x].refs - 1 ELSE h4.context[x].refs
        /\ \A x \in Displays : k.display[x].valid = h4.display[x].valid /\ k.display[x].refs = h4.display[x].refs
    BY <1>8, <1>9, <2>1, UnrefSharedContext
  <2>4. \A x \in Contexts : k.context[x].refs
           = IF x = c THEN 1 ELSE IF x = o THEN Down(h.context[x].refs) ELSE h.context[x].refs
    BY <1>6, <1>8, <2>1, <2>2
  <2> QED BY <1>6, <1>8, <2>2, <2>4
<1>11. \A x \in Displays : (IF x = D THEN Down(h.display[x].refs) ELSE h.display[x].refs) \in Nat
  BY <1>0 DEF Down
<1>12. \A x \in Displays :
         /\ k.display[x].valid = (h.display[x].valid /\ (x = D => h.display[x].refs > 1))
         /\ k.display[x].refs = IF x = d THEN Up(h3.display[x].refs) ELSE h3.display[x].refs
  BY <1>6, <1>8, <1>10
<1> QED BY <1>6, <1>10, <1>11, <1>12

\* The answered query is the only one who holds its context.
LEMMA QueryCounts ==
  ASSUME SharingInv, NEW e \in Elements, query[e] # None
  PROVE  query[e] \in Contexts /\ ContextHolders(query[e]) = 2 /\ heap.context[query[e]].refs = 2
<1>1. /\ query[e] \in Contexts /\ QueryAlone(e) /\ ContextsExact
  BY DEF SharingInv, DisplayTypeOK, PlacesInv, CountsInv
<1>2. {f \in Elements : contexts[f] = query[e]} = {} /\ {f \in Elements : query[f] = query[e]} = {e}
  BY <1>1 DEF QueryAlone
<1>3. Cardinality({f \in Elements : contexts[f] = query[e]}) = 0
      /\ Cardinality({f \in Elements : query[f] = query[e]}) = 1
  BY <1>2, FS_EmptySet, FS_Singleton
<1>4. ContextHolders(query[e]) = 2
  BY <1>3 DEF ContextHolders
<1> QED BY <1>1, <1>4 DEF ContextsExact
LEMMA TakeKeeps ==
  ASSUME SharingInv, NEW e \in Elements, Take(e)
  PROVE  SharingInv'
<1>1. PICK c, d, o : c = query[e] /\ d = heap.context[c].display /\ o = contexts[e]
  OBVIOUS
<1>2. /\ pc[e] = "take" /\ chain' = chain /\ gstState' = gstState /\ asked' = asked /\ device' = device
      /\ changes' = changes /\ faults' = faults /\ ordered' = ordered /\ dangling' = dangling
      /\ contexts' = [contexts EXCEPT ![e] = c] /\ dpyctx_' = [dpyctx_ EXCEPT ![e] = d]
      /\ query' = [query EXCEPT ![e] = None] /\ seen' = [seen EXCEPT ![e] = None]
      /\ pc' = [pc EXCEPT ![e] = IF d = None THEN "display" ELSE "allocator"]
      /\ heap' = UnrefContext(RefDisplay(UnrefContext(UnrefContext(RefContext(heap, c), o), c), d), c)
  BY <1>1 DEF Take, Goto, displayHistory
<1>3. /\ chain \in Chains /\ heap \in Heaps /\ pc \in [Elements -> Places]
      /\ query \in [Elements -> Contexts \cup {None}] /\ DevicesValid /\ ContextsExact
      /\ contexts \in [Elements -> Contexts \cup {None}] /\ seen \in [Elements -> Displays \cup {None}]
      /\ dpyctx_ \in [Elements -> Displays \cup {None}]
      /\ o \in Contexts \cup {None}
      /\ \A f \in Elements : device[f] # None => device[f] = dpyctx_[f]
  BY <1>1 DEF SharingInv, DisplayTypeOK, CountsInv, Places, PlacesInv, PlaceOf
<1>4. PlaceOf(e) /\ QueryAlone(e) /\ (ordered => \A f \in Elements : SharesWith(e, f))
  BY ElementFacts
<1>5. /\ query[e] # None /\ gstState[e] = "null" /\ dpyctx_[e] = None /\ device[e] = None /\ d = seen[e]
  BY <1>1, <1>2, <1>4 DEF PlaceOf, Rising
<1>6. c \in Contexts /\ ContextHolders(c) = 2 /\ heap.context[c].refs = 2 /\ o # c
  BY <1>1, <1>4, <1>5, QueryCounts DEF QueryAlone
<1>7. d \in Displays \cup {None}
  BY <1>1, <1>3, <1>6 DEF Heaps
<1>8. PICK D : D = IF o # None /\ heap.context[o].refs = 1 THEN heap.context[o].display ELSE None
  OBVIOUS
<1>9. /\ heap' \in Heaps
      /\ \A x \in Contexts :
           /\ heap'.context[x].display = heap.context[x].display
           /\ heap'.context[x].refs = IF x = c THEN 1
                                      ELSE IF x = o THEN Down(heap.context[x].refs) ELSE heap.context[x].refs
      /\ \A x \in Displays :
           /\ heap'.display[x].valid = (heap.display[x].valid /\ (x = D => heap.display[x].refs > 1))
           /\ \E r1 \in Nat :
                /\ r1 = IF x = D THEN Down(heap.display[x].refs) ELSE heap.display[x].refs
                /\ heap'.display[x].refs = IF x = d THEN Up(r1) ELSE r1
  BY <1>1, <1>2, <1>3, <1>6, <1>8, TakeHeap
<1>10. /\ pc'[e] \in {"display", "allocator"} /\ (pc'[e] = "display" <=> d = None)
       /\ query'[e] = None /\ seen'[e] = None /\ dpyctx_'[e] = d /\ contexts'[e] = c /\ OnlyElement(e)
  BY <1>2, <1>3 DEF OnlyElement
<1>11. DisplayTypeOK'
  <2>1. "display" \in Places /\ "allocator" \in Places
    BY DEF Places
  <2>2. /\ pc' \in [Elements -> Places] /\ query' \in [Elements -> Contexts \cup {None}]
        /\ seen' \in [Elements -> Displays \cup {None}] /\ contexts' \in [Elements -> Contexts \cup {None}]
        /\ dpyctx_' \in [Elements -> Displays \cup {None}]
    BY <1>2, <1>3, <1>6, <1>7, <2>1
  <2>3. /\ device' \in [Elements -> Displays \cup {None}]
        /\ gstState' \in [Elements -> {"null", "ready", "gone"}] /\ asked' \in [Elements -> Elements \cup {None}]
        /\ changes' \in 0 .. MaxChanges /\ faults' \in 0 .. MaxFaults /\ ordered' \in BOOLEAN
        /\ dangling' \in BOOLEAN
    BY <1>2 DEF SharingInv, DisplayTypeOK
  <2> QED BY <1>2, <1>9, <2>2, <2>3, TypeStep DEF Places
<1>12. PlaceOf(e)'
  BY <1>2, <1>5, <1>10 DEF PlaceOf, Rising, Falling
<1>13. QueryAlone(e)'
  BY <1>10 DEF QueryAlone
<1>14. PlacesInv'
  <2>1. \A f \in Elements : f # e /\ query[f] # None =>
          /\ heap'.context[query[f]].display = heap.context[query[f]].display
          /\ contexts'[e] # query[f] /\ query'[e] # query[f]
    BY <1>1, <1>3, <1>4, <1>5, <1>9, <1>10 DEF QueryAlone
  <2> QED BY <1>2, <1>10, <1>12, <1>13, <2>1, PlacesStep
<1>15. ContextsExact'
  <2> SUFFICES ASSUME NEW b \in Contexts PROVE heap'.context[b].refs = ContextHolders(b)'
    BY <1>2, SameChain DEF ContextsExact
  <2> DEFINE n == ContextHolders(b)
             m == ContextHolders(b)'
             k1 == Hit(contexts'[e], b)
             k2 == Hit(contexts[e], b)
             k3 == Hit(query'[e], b)
             k4 == Hit(query[e], b)
  <2>1. m = n + k1 - k2 + 2 * k3 - 2 * k4
    BY <1>2, <1>10, ContextHoldersStep DEF OnlyElement
  <2>2. b # None
    BY DEF Contexts, None
  <2>3. k1 = (IF b = c THEN 1 ELSE 0) /\ k2 = (IF b = o THEN 1 ELSE 0) /\ k3 = 0 /\ k4 = (IF b = c THEN 1 ELSE 0)
    BY <1>1, <1>10, <2>2 DEF Hit
  <2>4. n \in Nat /\ heap.context[b].refs = n /\ (b = c => n = 2) /\ (b = o => n >= 1)
    BY <1>1, <1>3, <1>6, ContextHoldersFacts DEF ContextsExact
  <2>5. heap'.context[b].refs = IF b = c THEN 1 ELSE IF b = o THEN n - 1 ELSE n
    BY <1>9, <2>4 DEF Down
  <2> HIDE DEF n, m, k1, k2, k3, k4
  <2>6. m = IF b = c THEN 1 ELSE IF b = o THEN n - 1 ELSE n
    <3>1. CASE b = c
      BY <1>6, <2>1, <2>3, <2>4, <3>1
    <3>2. CASE b # c
      BY <2>1, <2>3, <2>4, <3>2
    <3> QED BY <3>1, <3>2
  <2> QED BY <2>5, <2>6 DEF m
<1>16. PICK x \in Contexts : x = IF o = None THEN c ELSE o
  BY <1>3, <1>6
<1>17. D \in Displays \cup {None} /\ (D # None => o \in Contexts /\ heap.context[o].refs = 1 /\ Pointed(heap, o) = D)
  <2>1. CASE D = None
    BY <2>1
  <2>2. CASE D # None
    <3>1. o \in Contexts /\ heap.context[o].refs = 1 /\ D = heap.context[o].display
      BY <1>3, <1>8, <2>2
    <3> QED BY <1>3, <3>1 DEF Heaps, Pointed
  <2> QED BY <2>1, <2>2
<1>18. Pointed(heap, c) = d
  BY <1>1, <1>6 DEF Pointed
<1>19. CountsMove(e, x, D, d)
  <2>1. \A b \in Contexts : b # x => Pointed(heap', b) = Pointed(heap, b)
    <3> SUFFICES ASSUME NEW b \in Contexts, b # x PROVE Pointed(heap', b) = Pointed(heap, b)
      OBVIOUS
    <3>1. CASE b = c
      <4>1. heap'.context[b].refs = 1 /\ heap.context[b].refs = 2 /\ heap'.context[b].display = heap.context[b].display
        BY <1>6, <1>9, <3>1
      <4> QED BY <4>1 DEF Pointed
    <3>2. CASE b # c
      <4>1. b # o
        BY <1>16, <3>2 DEF Contexts, None
      <4> QED BY <1>9, <3>2, <4>1 DEF Pointed
    <3> QED BY <3>1, <3>2
  <2>2. \A y \in Displays : Hit(Pointed(heap', x), y) - Hit(Pointed(heap, x), y) = 0 - Hit(D, y)
    <3> SUFFICES ASSUME NEW y \in Displays
                 PROVE  Hit(Pointed(heap', x), y) - Hit(Pointed(heap, x), y) = 0 - Hit(D, y)
      OBVIOUS
    <3>1. y # None
      BY <1>3, ChainFacts
    <3>4. Hit(Pointed(heap, x), y) \in {0, 1} /\ Hit(None, y) = 0 /\ Hit(D, y) \in {0, 1}
      BY <3>1 DEF Hit
    <3>2. CASE o = None
      <4>1. x = c /\ D = None
        BY <1>8, <1>16, <3>2
      <4>2. Pointed(heap', x) = Pointed(heap, x)
        BY <1>6, <1>9, <4>1 DEF Pointed
      <4> QED BY <3>4, <4>1, <4>2
    <3>3. CASE o # None
      <4>1. x = o /\ o \in Contexts /\ heap.context[o].refs \in Nat
        BY <1>3, <1>16, <3>3 DEF Heaps
      <4>2. heap.context[o].refs >= 1
        BY <1>1, <1>3, <4>1, ContextHoldersFacts DEF ContextsExact
      <4>3. /\ heap'.context[o].refs = Down(heap.context[o].refs)
            /\ heap'.context[o].display = heap.context[o].display
        BY <1>6, <1>9, <4>1
      <4>4. CASE heap.context[o].refs = 1
        <5>1. Pointed(heap', o) = None /\ Pointed(heap, o) = D
          BY <1>8, <3>3, <4>3, <4>4 DEF Pointed, Down
        <5> QED BY <3>4, <4>1, <5>1
      <4>5. CASE heap.context[o].refs # 1
        <5>1. Pointed(heap', o) = Pointed(heap, o) /\ D = None
          BY <1>8, <4>1, <4>2, <4>3, <4>5 DEF Pointed, Down
        <5> QED BY <3>4, <4>1, <5>1
      <4> QED BY <4>4, <4>5
    <3> QED BY <3>2, <3>3
  <2>3. D # None => Holders(D) >= 1
    BY <1>17, HoldersFacts
  <2>4. d # None => Holders(d) >= 1 + Hit(D, d)
    <3> SUFFICES ASSUME d # None PROVE Holders(d) >= 1 + Hit(D, d)
      OBVIOUS
    <3>1. d \in Displays /\ Holders(d) \in Nat /\ Holders(d) >= 1
      BY <1>6, <1>7, <1>18, HoldersFacts
    <3>2. CASE D = d
      <4>1. Holders(d) >= 2
        BY <1>6, <1>17, <1>18, <3>1, <3>2, HoldersFacts
      <4> QED BY <3>1, <4>1 DEF Hit
    <3>3. CASE D # d
      BY <3>1, <3>3 DEF Hit
    <3> QED BY <3>2, <3>3
  <2>5. \A f \in Elements : device'[f] # None => device'[f] = device[f] /\ (device[f] = D => Holders(D) >= 2)
    <3> SUFFICES ASSUME NEW f \in Elements, device[f] # None, device[f] = D PROVE Holders(D) >= 2
      BY <1>2
    <3>1. dpyctx_[f] = D /\ D \in Displays /\ o \in Contexts /\ Pointed(heap, o) = D
      BY <1>3, <1>17
    <3> QED BY <3>1, HoldersFacts
  <2>6. ASSUME NEW y \in Displays
        PROVE  Hit(dpyctx_'[e], y) - Hit(dpyctx_[e], y) + Hit(Pointed(heap', x), y)
                 - Hit(Pointed(heap, x), y) = Hit(d, y) - Hit(D, y)
    <3> DEFINE k2 == Hit(dpyctx_[e], y)
               k3 == Hit(Pointed(heap', x), y)
               k4 == Hit(Pointed(heap, x), y)
               k5 == Hit(D, y)
               k6 == Hit(d, y)
    <3>1. k2 = 0
      BY <1>3, <1>5, ChainFacts DEF Hit
    <3>2. k3 - k4 = 0 - k5
      BY <2>2
    <3>3. k3 \in {0, 1} /\ k4 \in {0, 1} /\ k5 \in {0, 1} /\ k6 \in {0, 1}
      BY DEF Hit
    <3> HIDE DEF k2, k3, k4, k5, k6
    <3>4. k6 - k2 + k3 - k4 = k6 - k5
      BY <3>1, <3>2, <3>3
    <3> QED BY <1>10, <3>4 DEF k2, k3, k4, k5, k6
  <2>7. \A f \in Elements : f # e => dpyctx_'[f] = dpyctx_[f]
    BY <1>10 DEF OnlyElement
  <2>8. dangling => dangling'
    BY <1>2
  <2> QED BY <1>2, <1>9, <2>1, <2>3, <2>4, <2>5, <2>6, <2>7, <2>8 DEF CountsMove
<1>20. (\A y \in Displays : DisplayCount(y)') /\ DevicesValid'
  BY <1>7, <1>17, <1>19, CountsStep
<1>21. OrderInv'
  <2>1. ASSUME ordered, NEW f \in Elements PROVE SharesWith(e, f)'
    <3>1. SharesWith(e, f) /\ Kind(f)' = Kind(f)
      BY <1>2, <1>4, <2>1, SameChain
    <3> QED BY <1>2, <1>5, <1>10, <3>1 DEF SharesWith
  <2> QED BY <1>2, <1>5, <1>10, <2>1, OrderStep DEF Rising
<1> QED BY <1>2, <1>9, <1>11, <1>14, <1>15, <1>20, <1>21, SameChain DEF SharingInv, CountsInv
-----------------------------------------------------------------------------
(* The theorems.                                                           *)

LEMMA DisplayInitOK ==
  ASSUME DisplayInit
  PROVE  SharingInv
<1>1. /\ chain \in Chains
      /\ gstState = [e \in Elements |-> "null"] /\ pc = [e \in Elements |-> "idle"]
      /\ asked = [e \in Elements |-> None] /\ seen = [e \in Elements |-> None]
      /\ query = [e \in Elements |-> None]
      /\ dpyctx_ = [e \in Elements |-> None] /\ device = [e \in Elements |-> None]
      /\ contexts = [e \in Elements |-> None]
      /\ changes = 0 /\ faults = 0 /\ ordered = TRUE /\ dangling = FALSE
      /\ heap = [context |-> [c \in Contexts |-> [refs |-> 0, display |-> None]],
                 display |-> [d \in Displays |-> [refs |-> 0, valid |-> FALSE]]]
  BY DEF DisplayInit
<1>2. /\ \A c \in Contexts : heap.context[c] = [refs |-> 0, display |-> None]
      /\ \A d \in Displays : heap.display[d] = [refs |-> 0, valid |-> FALSE]
      /\ heap \in Heaps
  BY <1>1 DEF Heaps
<1>3. \A d \in Displays : d # None
  BY <1>1, ChainFacts
<1>4. \A c \in Contexts : c # None
  BY DEF Contexts, None
<1>5. DisplayTypeOK
  <2>1. 0 \in 0 .. MaxChanges /\ 0 \in 0 .. MaxFaults
    BY ChangesAssumption
  <2>2. heap.context \in [Contexts -> [refs : Nat, display : Displays \cup {None}]]
        /\ heap.display \in [Displays -> [refs : Nat, valid : BOOLEAN]]
    BY <1>2 DEF Heaps
  <2> QED BY <1>1, <2>1, <2>2 DEF DisplayTypeOK
<1>6. PlacesInv
  BY <1>1 DEF PlacesInv, PlaceOf, QueryAlone, Rising, Falling
<1>7. ASSUME NEW c \in Contexts PROVE heap.context[c].refs = ContextHolders(c)
  <2>1. {e \in Elements : contexts[e] = c} = {} /\ {e \in Elements : query[e] = c} = {}
    BY <1>1, <1>4
  <2>2. ContextHolders(c) = 0
    BY <2>1, FS_EmptySet DEF ContextHolders
  <2> QED BY <1>2, <2>2
<1>8. ASSUME NEW d \in Displays PROVE DisplayCount(d)
  <2>1. {e \in Elements : dpyctx_[e] = d} = {}
    BY <1>1, <1>3
  <2>2. {c \in Contexts : heap.context[c].refs > 0 /\ heap.context[c].display = d} = {}
    BY <1>2
  <2>3. /\ Cardinality({e \in Elements : dpyctx_[e] = d}) = 0
        /\ Cardinality({c \in Contexts : heap.context[c].refs > 0 /\ heap.context[c].display = d}) = 0
    BY <2>1, <2>2, FS_EmptySet
  <2>4. Holders(d) = 0
    BY <2>3 DEF Holders
  <2> QED BY <1>2, <2>4 DEF DisplayCount
<1>9. CountsInv
  BY <1>1, <1>7, <1>8 DEF CountsInv, ContextsExact, DevicesValid
<1>10. OrderInv
  BY <1>1 DEF OrderInv, RaisedAlone, SharesWith, Rising
<1> QED BY <1>2, <1>5, <1>6, <1>9, <1>10 DEF SharingInv

LEMMA DisplayStepOK ==
  ASSUME SharingInv, [DisplayNext]_displayVars
  PROVE  SharingInv'
<1>1. CASE DisplayNext
  <2>1. PICK e \in Elements : ToReady(e) \/ ToNull(e) \/ Finalize(e) \/ ChangeStep(e)
    BY <1>1 DEF DisplayNext
  <2>2. CASE ToReady(e) \/ ToNull(e) \/ Finalize(e)
    BY <2>2, ToReadyKeeps, ToNullKeeps, FinalizeKeeps
  <2>3. CASE MakeSession(e) \/ AskDown(e) \/ AskUp(e) \/ Answer(e) \/ Take(e) \/ OpenDisplay(e)
    BY <2>3, MakeSessionKeeps, AskDownKeeps, AskUpKeeps, AnswerKeeps, TakeKeeps, OpenDisplayKeeps
  <2>4. CASE MakeAllocator(e) \/ MakeCodec(e) \/ Undo(e)
    BY <2>4, MakeAllocatorKeeps, MakeCodecKeeps, UndoKeeps
  <2>5. CASE DropContext(e) \/ FreeDevice(e) \/ ReleaseDisplay(e)
    BY <2>5, DropContextKeeps, FreeDeviceKeeps, ReleaseDisplayKeeps
  <2> QED BY <2>1, <2>2, <2>3, <2>4, <2>5 DEF ChangeStep
<1>2. CASE UNCHANGED displayVars
  <2>1. /\ chain' = chain /\ gstState' = gstState /\ pc' = pc /\ asked' = asked /\ seen' = seen
        /\ query' = query /\ dpyctx_' = dpyctx_ /\ device' = device /\ contexts' = contexts /\ heap' = heap
        /\ changes' = changes /\ faults' = faults /\ ordered' = ordered /\ dangling' = dangling
    BY <1>2 DEF displayVars, elementVars, queryVars, displayHistory
  <2>2. DisplayTypeOK' /\ heap' \in Heaps'
    <3>1. DisplayTypeOK /\ heap \in Heaps
      BY DEF SharingInv
    <3> QED BY <2>1, <3>1, SameChain DEF DisplayTypeOK
  <2>3. PlacesInv'
    <3>1. PlacesInv
      BY DEF SharingInv
    <3> QED BY <2>1, <3>1, SameChain DEF PlacesInv, PlaceOf, QueryAlone
  <2>4. CountsInv'
    <3>1. DevicesValid
      BY DEF SharingInv, CountsInv
    <3> QED BY <2>1, <3>1, CountsSame DEF DevicesValid
  <2>5. OrderInv'
    <3>1. OrderInv
      BY DEF SharingInv
    <3> QED BY <2>1, <3>1, SameChain DEF OrderInv, RaisedAlone, SharesWith
  <2> QED BY <2>2, <2>3, <2>4, <2>5 DEF SharingInv
<1> QED BY <1>1, <1>2

LEMMA SharingInvHolds == DisplaySpec => []SharingInv
<1>1. DisplayInit => SharingInv
  BY DisplayInitOK
<1>2. SharingInv /\ [DisplayNext]_displayVars => SharingInv'
  BY DisplayStepOK
<1> QED BY <1>1, <1>2, PTL DEF DisplaySpec

(***************************************************************************)
(* Whatever the pipeline and however many elements change state at the     *)
(* same time: while no query is answered by an element that disposes,      *)
(* every display and every context has exactly as many references as there *)
(* are elements, contexts, lists and queries that point to it.             *)
(***************************************************************************)
THEOREM DisplaysCountedCorrect == DisplaySpec => []DisplaysCounted
<1>1. SharingInv => DisplaysCounted
  BY DEF SharingInv, CountsInv, ContextsExact, DisplayCount, DisplaysCounted
<1> QED BY <1>1, SharingInvHolds, PTL

(***************************************************************************)
(* An allocator and its session never work on a display that is closed,    *)
(* in whatever order the elements that share it go down.                   *)
(***************************************************************************)
THEOREM InUseIsAliveCorrect == DisplaySpec => []InUseIsAlive
<1>1. SharingInv => InUseIsAlive
  <2> SUFFICES ASSUME SharingInv, NEW e \in Elements, device[e] # None, ~dangling
               PROVE  heap.display[device[e]].refs > 0 /\ heap.display[device[e]].valid
    BY DEF InUseIsAlive
  <2>1. PICK d : d = device[e]
    OBVIOUS
  <2>2. d \in Displays /\ dpyctx_[e] = d /\ DisplayCount(d) /\ heap.display[d].valid
    BY <2>1 DEF SharingInv, DisplayTypeOK, PlacesInv, PlaceOf, CountsInv, DevicesValid
  <2>3. Holders(d) >= 1 /\ Holders(d) \in Nat /\ heap.display[d].refs = Holders(d)
    BY <2>2, HoldersFacts DEF DisplayCount
  <2> QED BY <2>1, <2>2, <2>3
<1> QED BY <1>1, SharingInvHolds, PTL

(***************************************************************************)
(* When a bin has raised the pipeline from the sink to the source, a       *)
(* post-processor or encoder works on the display of the element before.   *)
(***************************************************************************)
THEOREM OneDisplayCorrect == DisplaySpec => []OneDisplay
<1>1. SharingInv => OneDisplay
  <2> SUFFICES ASSUME SharingInv, ordered, NEW e \in Elements, NEW f \in Elements, f = e + 1,
                      device[e] # None, device[f] # None,
                      gstState[e] = "ready", gstState[f] = "ready", Kind(f) \in {"vpp", "venc"}
               PROVE  device[e] = device[f]
    BY DEF OneDisplay
  <2>1. SharesWith(e, f) /\ PlaceOf(e)
    BY DEF SharingInv, OrderInv, PlacesInv
  <2> QED BY <2>1 DEF SharesWith, PlaceOf
<1> QED BY <1>1, SharingInvHolds, PTL
-----------------------------------------------------------------------------
(* What an element holds over its life (ElementLifecycle).                 *)

\* Where in their orders the steps are that the invariants speak of.
InitAt == IF kind = "vdec" \/ hevc THEN 3 ELSE 2
PoolAt == IF kind = "vdec" THEN 2 ELSE IF hevc THEN 5 ELSE 4
InitLen == IF hevc THEN 5 ELSE 4
UndoLen == IF hevc THEN 5 ELSE 4
CodecAt == IF hardware THEN 6 ELSE 3
BaseLen == IF hardware THEN 7 ELSE 4
DisposeLen == IF kind = "vpp" THEN 7 ELSE 8

\* What an element of this kind can hold.
Mine == {"session", "display", "allocator", "codec", "pool"}
          \cup (IF kind = "venc" THEN {"plugin"} ELSE {})
          \cup (IF kind = "vdec" THEN {"fc"} ELSE {})

TaskQuiet == taskQ = <<>> /\ tpc = "idle" /\ task.workers = 0 /\ ~task.started
SyncQuiet == syncQ = <<>> /\ ypc = "idle" /\ sync.workers = 0 /\ ~sync.started

(***************************************************************************)
(* Where the threads can be in each state, and what an Init() runs on.     *)
(***************************************************************************)
Seats ==
  /\ (kind # "venc" => ~hevc) /\ held \subseteq Mine
  /\ apc \in {"base", "undo"} => state = "null"
  /\ apc = "dispose" => state = "ready"
  /\ apc = "flush" => state = "paused"
  /\ apc = "base" => astep \in 1 .. BaseLen
  /\ apc = "dispose" => astep \in 1 .. DisposeLen
  /\ spc # "idle" => state = "paused"
  /\ ipc["stream"] # "no" <=> spc = "init"
  /\ ipc["task"] # "no" <=> tpc = "init"
  /\ \A c \in Callers : /\ ipc[c] = "do" => istep[c] \in 1 .. InitLen
                        /\ ipc[c] = "undo" => istep[c] \in 1 .. UndoLen
  /\ kind # "vdec" => tpc \notin {"fill", "init"}
  /\ kind = "vdec" => spc \notin {"start", "startSync"}

SeatsInv == TypeOK /\ Seats

(***************************************************************************)
(* How many workers.  A decoder starts one in each stream.  The others     *)
(* start them after an Init() that found the codec not initialised, so     *)
(* they have one only while the codec is, or the session is gone.          *)
(***************************************************************************)
DecoderWorkers ==
  /\ task.workers <= streams /\ sync.workers <= streams
  /\ state = "paused" /\ ~begun /\ ~refused => task.workers < streams /\ sync.workers < streams

OtherWorkers ==
  /\ task.workers <= 1 /\ sync.workers <= 1
  /\ task.workers > 0 \/ sync.workers > 0 =>
       inited \/ "session" \notin held \/ ipc["stream"] = "undo"
  /\ (ipc["stream"] = "do" /\ istep["stream"] > InitAt) \/ spc = "start" =>
       inited /\ task.workers = 0 /\ sync.workers = 0
  /\ spc = "startSync" => inited /\ sync.workers = 0
  /\ ipc["stream"] = "undo" /\ istep["stream"] = UndoLen => "session" \notin held

WorkersInv ==
  /\ kind = "vdec" => DecoderWorkers
  /\ kind # "vdec" => OtherWorkers

(***************************************************************************)
(* Nothing works, and nothing is held, that Dispose() has passed; in NULL  *)
(* nothing is, except what InitBase() has made so far.                     *)
(***************************************************************************)
OwnInv ==
  /\ tpc # "idle" => task.workers = 1
  /\ ypc # "idle" => sync.workers = 1
  /\ task.workers > 0 => task.started
  /\ sync.workers > 0 => sync.started
  /\ state = "null" => TaskQuiet /\ SyncQuiet /\ ~inited /\ held \subseteq BaseUndo
  /\ state = "null" /\ apc = "idle" => held = {}
  /\ apc = "dispose" =>
       /\ astep > 1 => TaskQuiet
       /\ astep > 2 => SyncQuiet
       /\ astep > 3 => ~inited
       /\ \A k \in 1 .. astep - 1 : DisposeOrder[k] \notin held

LifeInv == SeatsInv /\ WorkersInv /\ (~Orphans => OwnInv)

(***************************************************************************)
(* The codec object is there from InitBase() to Dispose(), fc_ from the    *)
(* CAPS event, before the first task.                                      *)
(***************************************************************************)
CodecDeleted == state = "null" \/ (apc = "dispose" /\ astep > 3)
ObjectsInv ==
  /\ ~CodecDeleted => "codec" \in held
  /\ state = "null" /\ "codec" \in held => "session" \in held
  /\ apc = "base" =>
       /\ astep > 1 => "session" \in held
       /\ astep > CodecAt => "codec" \in held
  /\ apc = "dispose" /\ astep > 3 => "codec" \notin held
  /\ kind = "vdec" /\ ~CodecDeleted
       /\ (tpc # "idle" \/ taskQ # <<>> \/ spc # "idle" \/ (state = "paused" /\ negotiated))
       => "fc" \in held

(***************************************************************************)
(* One Init() in a life: it has initialised the codec and made the pool as *)
(* far as it has got.                                                      *)
(***************************************************************************)
NobodyInits == ipc["stream"] = "no" /\ ipc["task"] = "no"
HasOp == \E k \in DOMAIN syncQ : syncQ[k] = "op"
InitFaults == {"plugin", "query", "init", "params", "pool"}

Doing(c) ==
  /\ istep[c] > 1 => "session" \in held
  /\ inited <=> istep[c] > InitAt
  /\ "pool" \in held <=> istep[c] > PoolAt
Undoing(c) ==
  /\ istep[c] > 1 => "pool" \notin held
  /\ istep[c] > 2 => ~inited
ProgressInv ==
  /\ caps = 0 => ~inited /\ "pool" \notin held /\ "fc" \notin held
  /\ \A c \in Callers : (ipc[c] = "do" => Doing(c)) /\ (ipc[c] = "undo" => Undoing(c))
  /\ NobodyInits /\ "codec" \in held =>
       (inited <=> "pool" \in held) /\ (inited => "session" \in held)
  /\ ipc["stream"] = "undo" \/ ipc["task"] = "undo" \/ ("codec" \in held /\ "session" \notin held)
       => failures \cap InitFaults # {}

\* The encoder and the post-processor start their threads after it; the task thread of
\* the decoder does the work of Init(), or of the codec.
OthersReady ==
  /\ caps = 0 => spc = "idle" /\ ~task.started /\ ~sync.started
  /\ spc \in {"start", "startSync"} \/ task.started \/ sync.started => NobodyInits /\ inited
DecoderReady ==
  /\ tpc = "using" \/ ypc = "using" \/ HasOp => NobodyInits /\ inited
  /\ ipc["stream"] # "no" => tpc = "idle" /\ taskQ = <<>>
  /\ tpc = "fill" => ~inited
ReadyInv ==
  /\ kind = "vdec" => DecoderReady
  /\ kind # "vdec" => OthersReady

\* One CAPS event in this life, and in a decoder one stream.
Calm == caps <= 1 /\ ~Orphans

UseInv ==
  /\ LifeInv
  /\ ~Orphans => ObjectsInv
  /\ Calm => ProgressInv /\ ReadyInv
-----------------------------------------------------------------------------
(* The orders, position by position.                                       *)

LEMMA BaseOrderIs ==
  ASSUME SeatsInv
  PROVE  /\ Len(BaseOrder) = BaseLen
         /\ BaseOrder[1] = "session" /\ BaseOrder[CodecAt] = "codec"
         /\ \A k \in 1 .. BaseLen :
              /\ BaseOrder[k] \in BaseUndo \cup {"impl", "handle", "setAllocator"}
              /\ BaseOrder[k] = "codec" => k = CodecAt
<1>1. BaseOrder = BaseSteps
  BY KindsAssumption DEF SeatsInv, Seats, TypeOK, BaseOrder, VencBaseOrder, VdecBaseOrder, VppBaseOrder
<1>2. CASE hardware
  <2>1. BaseOrder = <<"session", "impl", "display", "allocator", "handle", "codec", "setAllocator">>
    BY <1>1, <1>2 DEF BaseSteps
  <2> QED BY <1>2, <2>1 DEF BaseLen, CodecAt, BaseUndo
<1>3. CASE ~hardware
  <2>1. BaseOrder = <<"session", "impl", "codec", "setAllocator">>
    BY <1>1, <1>3 DEF BaseSteps
  <2> QED BY <1>3, <2>1 DEF BaseLen, CodecAt, BaseUndo
<1> QED BY <1>2, <1>3

LEMMA InitOrderIs ==
  ASSUME SeatsInv
  PROVE  /\ Len(InitOrder) = InitLen
         /\ InitOrder[InitAt] = "init" /\ InitOrder[PoolAt] = "pool"
         /\ \A k \in 1 .. InitLen :
              /\ InitOrder[k] \in InitFaults
              /\ InitOrder[k] = "init" => k = InitAt
              /\ InitOrder[k] = "pool" => k = PoolAt
              /\ InitOrder[k] = "plugin" => kind = "venc"
         /\ InitOrder[1] \in {"plugin", "query"}
<1>1. CASE kind = "venc" /\ hevc
  <2>1. InitOrder = <<"plugin", "query", "init", "params", "pool">>
    BY <1>1 DEF InitOrder, VencInitOrder
  <2> QED BY <1>1, <2>1 DEF InitLen, InitAt, PoolAt, InitFaults
<1>2. CASE kind = "venc" /\ ~hevc
  <2>1. InitOrder = <<"query", "init", "params", "pool">>
    BY <1>2 DEF InitOrder, VencInitOrder
  <2> QED BY <1>2, <2>1 DEF InitLen, InitAt, PoolAt, InitFaults
<1>3. CASE kind = "vdec"
  <2>1. InitOrder = <<"query", "pool", "init", "params">> /\ ~hevc
    BY <1>3 DEF InitOrder, VdecInitOrder, SeatsInv, Seats
  <2> QED BY <1>3, <2>1 DEF InitLen, InitAt, PoolAt, InitFaults
<1>4. CASE kind = "vpp"
  <2>1. InitOrder = <<"query", "init", "params", "pool">> /\ ~hevc
    BY <1>4 DEF InitOrder, VppInitOrder, SeatsInv, Seats
  <2> QED BY <1>4, <2>1 DEF InitLen, InitAt, PoolAt, InitFaults
<1> QED BY <1>1, <1>2, <1>3, <1>4, KindsAssumption DEF SeatsInv, Seats, TypeOK

LEMMA UndoOrderIs ==
  ASSUME SeatsInv
  PROVE  /\ Len(InitUndoOrder) = UndoLen
         /\ InitUndoOrder[1] = "pool" /\ InitUndoOrder[2] = "close"
         /\ InitUndoOrder[UndoLen - 1] = "session" /\ InitUndoOrder[UndoLen] = "notify"
         /\ \A k \in 1 .. UndoLen :
              /\ InitUndoOrder[k] \in {"pool", "close", "plugin", "session", "notify"}
              /\ InitUndoOrder[k] = "close" => k = 2
<1>1. CASE hevc
  <2>1. InitUndoOrder = <<"pool", "close", "plugin", "session", "notify">>
    BY <1>1 DEF InitUndoOrder, SeatsInv, Seats
  <2> QED BY <1>1, <2>1 DEF UndoLen
<1>2. CASE ~hevc
  <2>1. InitUndoOrder = <<"pool", "close", "session", "notify">>
    BY <1>2 DEF InitUndoOrder
  <2> QED BY <1>2, <2>1 DEF UndoLen
<1> QED BY <1>1, <1>2

LEMMA DisposeOrderIs ==
  ASSUME SeatsInv
  PROVE  /\ Len(DisposeOrder) = DisposeLen
         /\ DisposeOrder[1] = "stopTask" /\ DisposeOrder[2] = "stopSync"
         /\ DisposeOrder[3] = "codec"
         /\ \A k \in 1 .. DisposeLen :
              /\ DisposeOrder[k] = "stopTask" => k = 1
              /\ DisposeOrder[k] = "stopSync" => k = 2
              /\ DisposeOrder[k] = "codec" => k = 3
         /\ \A r \in Mine : \E k \in 1 .. DisposeLen : DisposeOrder[k] = r
<1>1. CASE kind = "venc"
  <2>1. DisposeOrder = <<"stopTask", "stopSync", "codec", "plugin", "session",
                         "allocator", "display", "pool">>
    BY <1>1 DEF DisposeOrder, VencDisposeOrder
  <2> QED BY <1>1, <2>1 DEF DisposeLen, Mine
<1>2. CASE kind = "vdec"
  <2>1. DisposeOrder = <<"stopTask", "stopSync", "codec", "session", "fc", "pool",
                         "allocator", "display">>
    BY <1>2 DEF DisposeOrder, VdecDisposeOrder
  <2> QED BY <1>2, <2>1 DEF DisposeLen, Mine
<1>3. CASE kind = "vpp"
  <2>1. DisposeOrder = <<"stopTask", "stopSync", "codec", "session", "pool",
                         "allocator", "display">>
    BY <1>3 DEF DisposeOrder, VppDisposeOrder
  <2> QED BY <1>3, <2>1 DEF DisposeLen, Mine
<1> QED BY <1>1, <1>2, <1>3, KindsAssumption DEF SeatsInv, Seats, TypeOK
-----------------------------------------------------------------------------
(* Types, places and workers: each step keeps LifeInv.                     *)

\* What the element is never changes, nor do the orders.
LEMMA SameElement ==
  ASSUME UNCHANGED config
  PROVE  /\ kind' = kind /\ hardware' = hardware /\ hevc' = hevc
         /\ InitAt' = InitAt /\ PoolAt' = PoolAt /\ InitLen' = InitLen /\ UndoLen' = UndoLen
         /\ CodecAt' = CodecAt /\ BaseLen' = BaseLen /\ DisposeLen' = DisposeLen
         /\ Mine' = Mine /\ DisposeOrder' = DisposeOrder
<1>1. kind' = kind /\ hardware' = hardware /\ hevc' = hevc
  BY DEF config
<1> QED BY <1>1 DEF InitAt, PoolAt, InitLen, UndoLen, CodecAt, BaseLen, DisposeLen, Mine,
           DisposeOrder, VencDisposeOrder, VdecDisposeOrder, VppDisposeOrder

LEMMA Positions ==
  /\ InitAt \in {2, 3} /\ PoolAt \in {2, 4, 5} /\ InitLen \in {4, 5} /\ UndoLen \in {4, 5}
  /\ InitAt < InitLen /\ PoolAt <= InitLen
  /\ CodecAt \in {3, 6} /\ BaseLen = CodecAt + 1 /\ DisposeLen \in {7, 8}
BY DEF InitAt, PoolAt, InitLen, UndoLen, CodecAt, BaseLen, DisposeLen

\* The types, group of variables by group.
AppType == state \in {"null", "ready", "paused"}
           /\ apc \in {"idle", "base", "undo", "flush", "dispose"} /\ astep \in 0 .. 9
HeldType == held \subseteq Resources /\ inited \in BOOLEAN
ThreadsType == task \in Threads /\ sync \in Threads
QueuesType ==
  /\ taskQ \in Seq({"buffer", "eos"}) /\ Len(taskQ) <= MaxTasks
  /\ tpc \in {"idle", "fill", "init", "using", "drain"}
  /\ syncQ \in Seq({"op", "eos"}) /\ ypc \in {"idle", "using"}
InitsType ==
  /\ spc \in {"idle", "init", "start", "startSync", "outCaps"}
  /\ ipc \in [Callers -> {"no", "do", "undo"}] /\ istep \in [Callers -> 0 .. 6]
FlagsType == {begun, negotiated, eosSent, eosOut, refused} \subseteq BOOLEAN
HistoryType ==
  /\ lives \in 0 .. MaxLives /\ streams \in 0 .. MaxStreams /\ caps \in 0 .. MaxCaps
  /\ failures \subseteq Faults

LEMMA TypeParts ==
  TypeOK <=> /\ kind \in Kinds /\ hardware \in BOOLEAN /\ hevc \in BOOLEAN
             /\ AppType /\ HeldType /\ ThreadsType /\ QueuesType /\ InitsType
             /\ FlagsType /\ HistoryType
BY DEF TypeOK, AppType, HeldType, ThreadsType, QueuesType, InitsType, FlagsType, HistoryType

LEMMA TypePartsNext ==
  /\ (kind \in Kinds /\ hardware \in BOOLEAN /\ hevc \in BOOLEAN)'
  /\ AppType' /\ HeldType' /\ ThreadsType' /\ QueuesType' /\ InitsType'
  /\ FlagsType' /\ HistoryType'
  => TypeOK'
BY DEF TypeOK, AppType, HeldType, ThreadsType, QueuesType, InitsType, FlagsType, HistoryType

\* A step keeps the types of what it leaves alone.
LEMMA KeptTypes ==
  ASSUME TypeOK
  PROVE  /\ UNCHANGED config => (kind \in Kinds /\ hardware \in BOOLEAN /\ hevc \in BOOLEAN)'
         /\ UNCHANGED app => AppType'
         /\ UNCHANGED <<held, inited>> => HeldType'
         /\ UNCHANGED threads => ThreadsType'
         /\ UNCHANGED <<taskVars, syncVars>> => QueuesType'
         /\ UNCHANGED <<spc, initing>> => InitsType'
         /\ UNCHANGED <<events, signals>> => FlagsType'
         /\ UNCHANGED history => HistoryType'
<1>0. /\ kind \in Kinds /\ hardware \in BOOLEAN /\ hevc \in BOOLEAN
      /\ AppType /\ HeldType /\ ThreadsType /\ QueuesType /\ InitsType /\ FlagsType /\ HistoryType
  BY TypeParts
<1>1. UNCHANGED config => (kind \in Kinds /\ hardware \in BOOLEAN /\ hevc \in BOOLEAN)'
  BY <1>0 DEF config
<1>2. UNCHANGED app => AppType'
  BY <1>0 DEF app, AppType
<1>3. UNCHANGED <<held, inited>> => HeldType'
  BY <1>0 DEF HeldType
<1>4. UNCHANGED threads => ThreadsType'
  BY <1>0 DEF threads, ThreadsType
<1>5. UNCHANGED <<taskVars, syncVars>> => QueuesType'
  BY <1>0 DEF taskVars, syncVars, QueuesType
<1>6. UNCHANGED <<spc, initing>> => InitsType'
  BY <1>0 DEF initing, InitsType
<1>7. UNCHANGED <<events, signals>> => FlagsType'
  BY <1>0 DEF events, signals, FlagsType
<1>8. UNCHANGED history => HistoryType'
  BY <1>0 DEF history, HistoryType
<1> QED BY <1>1, <1>2, <1>3, <1>4, <1>5, <1>6, <1>7, <1>8

LEMMA ThreadIn ==
  ASSUME NEW a \in BOOLEAN, NEW b \in BOOLEAN, NEW w \in 0 .. MaxStreams
  PROVE  [started |-> a, stopping |-> b, workers |-> w] \in Threads
BY DEF Threads

\* start() and stop() of a work thread.
LEMMA ThreadSteps ==
  ASSUME NEW t \in Threads
  PROVE  /\ t.workers \in 0 .. MaxStreams /\ t.started \in BOOLEAN
         /\ Started(t).started /\ Started(t).workers = t.workers + 1
         /\ t.workers < MaxStreams => Started(t) \in Threads
         /\ NotStarted(t).started /\ NotStarted(t).workers = t.workers
         /\ NotStarted(t) \in Threads
         /\ ~Stopped(t).started /\ Stopped(t) \in Threads
         /\ Stopped(t).workers <= t.workers
         /\ t.workers <= 1 /\ (t.workers > 0 => t.started) => Stopped(t).workers = 0
<1>0. MaxStreams \in Nat
  BY BoundsAssumption
<1>1. t.workers \in 0 .. MaxStreams /\ t.started \in BOOLEAN /\ t.stopping \in BOOLEAN
  BY DEF Threads
<1>2. t = [started |-> t.started, stopping |-> t.stopping, workers |-> t.workers]
  BY DEF Threads
<1>3. /\ Started(t) = [started |-> TRUE, stopping |-> t.stopping, workers |-> t.workers + 1]
      /\ NotStarted(t) = [started |-> TRUE, stopping |-> t.stopping, workers |-> t.workers]
  <2> DEFINE a == t.started  b == t.stopping  w == t.workers
  <2>1. t = [started |-> a, stopping |-> b, workers |-> w]
    BY <1>2
  <2>2. /\ Started(t) = [[started |-> a, stopping |-> b, workers |-> w]
                           EXCEPT !.started = TRUE, !.workers = @ + 1]
        /\ NotStarted(t) = [[started |-> a, stopping |-> b, workers |-> w]
                              EXCEPT !.started = TRUE]
    BY <2>1 DEF Started, NotStarted
  <2> HIDE DEF a, b, w
  <2>3. /\ Started(t) = [started |-> TRUE, stopping |-> b, workers |-> w + 1]
        /\ NotStarted(t) = [started |-> TRUE, stopping |-> b, workers |-> w]
    BY <2>2
  <2> QED BY <2>3 DEF a, b, w
<1>4. t.workers < MaxStreams => Started(t) \in Threads
  <2>1. t.workers < MaxStreams => t.workers + 1 \in 0 .. MaxStreams
    BY <1>0, <1>1
  <2> QED BY <1>1, <1>3, <2>1, ThreadIn
<1>5. NotStarted(t) \in Threads
  BY <1>1, <1>3, ThreadIn
<1>6. /\ Stopped(t).workers <= t.workers /\ Stopped(t).workers \in 0 .. MaxStreams
      /\ t.workers <= 1 /\ (t.workers > 0 => t.started) => Stopped(t).workers = 0
  BY <1>0, <1>1 DEF Stopped
<1>7. Stopped(t) = [started |-> FALSE, stopping |-> Stopped(t).stopping,
                    workers |-> Stopped(t).workers]
  BY DEF Stopped
<1>8. Stopped(t).stopping \in BOOLEAN
  BY <1>1 DEF Stopped
<1>9. Stopped(t) \in Threads
  BY <1>6, <1>7, <1>8, ThreadIn
<1> QED BY <1>1, <1>2, <1>3, <1>4, <1>5, <1>6, <1>7, <1>9

LEMMA ThreadsNow ==
  ASSUME TypeOK
  PROVE  /\ task.workers \in 0 .. MaxStreams /\ task.started \in BOOLEAN
         /\ Started(task).started /\ Started(task).workers = task.workers + 1
         /\ task.workers < MaxStreams => Started(task) \in Threads
         /\ NotStarted(task).started /\ NotStarted(task).workers = task.workers
         /\ NotStarted(task) \in Threads
         /\ sync.workers \in 0 .. MaxStreams /\ sync.started \in BOOLEAN
         /\ Started(sync).started /\ Started(sync).workers = sync.workers + 1
         /\ sync.workers < MaxStreams => Started(sync) \in Threads
         /\ NotStarted(sync).started /\ NotStarted(sync).workers = sync.workers
         /\ NotStarted(sync) \in Threads
<1>1. task \in Threads /\ sync \in Threads
  BY DEF TypeOK
<1> QED BY <1>1, ThreadSteps

LEMMA Entered ==
  ASSUME TypeOK, NEW c \in Callers, Enter(c)
  PROVE  /\ ipc' \in [Callers -> {"no", "do", "undo"}] /\ istep' \in [Callers -> 0 .. 6]
         /\ ipc'[c] = "do" /\ istep'[c] = 1
         /\ \A d \in Callers \ {c} : ipc'[d] = ipc[d] /\ istep'[d] = istep[d]
BY DEF TypeOK, Enter

\* A step that leaves Init(), the objects of the threads and the history alone.
LEMMA SeatsKept ==
  ASSUME Seats, UNCHANGED <<config, app, initing>>, held' \subseteq Mine,
         tpc' = "init" <=> tpc = "init",
         tpc' = "fill" => tpc = "fill" \/ kind = "vdec",
         spc' = spc \/ (spc # "init" /\ spc' \in {"idle", "outCaps"} /\ (spc' # "idle" => spc # "idle"))
  PROVE  Seats'
<1>1. UNCHANGED <<kind, hevc, state, apc, astep, ipc, istep, Mine, BaseLen, DisposeLen, InitLen, UndoLen>>
  BY SameElement DEF app, initing
<1> QED BY <1>1 DEF Seats, Callers

LEMMA WorkersKept ==
  ASSUME WorkersInv, UNCHANGED <<config, inited, threads, initing, streams>>,
         state' = "paused" => state = "paused" /\ (begun => begun') /\ (refused => refused'),
         "session" \in held' => "session" \in held,
         spc' = spc \/ spc' \in {"idle", "outCaps"}
  PROVE  WorkersInv'
<1>1. UNCHANGED <<kind, task, sync, ipc, istep, InitAt, UndoLen>>
  BY SameElement DEF threads, initing
<1>2. DecoderWorkers => DecoderWorkers'
  BY <1>1 DEF DecoderWorkers
<1>3. OtherWorkers => OtherWorkers'
  BY <1>1 DEF OtherWorkers
<1> QED BY <1>1, <1>2, <1>3 DEF WorkersInv

LEMMA OwnKept ==
  ASSUME OwnInv, UNCHANGED <<config, app, held, inited, threads>>,
         tpc' # "idle" => tpc # "idle" \/ task.workers > 0,
         ypc' # "idle" => ypc # "idle" \/ sync.workers > 0,
         task.workers \in 0 .. 1, sync.workers \in 0 .. 1,
         (state = "paused" /\ apc = "idle")
           \/ ((TaskQuiet => TaskQuiet') /\ (SyncQuiet => SyncQuiet'))
  PROVE  OwnInv'
<1>1. UNCHANGED <<state, apc, astep, task, sync, DisposeOrder>>
  BY SameElement DEF app, threads
<1>2. /\ tpc' # "idle" => task.workers = 1
      /\ ypc' # "idle" => sync.workers = 1
  BY DEF OwnInv
<1>3. /\ task'.workers > 0 => task'.started
      /\ sync'.workers > 0 => sync'.started
  BY <1>1 DEF OwnInv
<1>4. CASE state = "paused" /\ apc = "idle"
  BY <1>1, <1>2, <1>3, <1>4 DEF OwnInv
<1>5. CASE (TaskQuiet => TaskQuiet') /\ (SyncQuiet => SyncQuiet')
  BY <1>1, <1>2, <1>3, <1>5 DEF OwnInv
<1> QED BY <1>4, <1>5

\* Without orphans a thread has one worker at most.
LEMMA OneWorker ==
  ASSUME TypeOK, WorkersInv, ~Orphans
  PROVE  task.workers \in 0 .. 1 /\ sync.workers \in 0 .. 1
<1>1. task.workers \in Nat /\ sync.workers \in Nat /\ streams \in Nat
  BY ThreadsNow, BoundsAssumption DEF TypeOK
<1> QED BY <1>1 DEF WorkersInv, DecoderWorkers, OtherWorkers, Orphans

LEMMA LifeNullToReady == LifeInv /\ NullToReady => LifeInv'
<1> SUFFICES ASSUME LifeInv, NullToReady PROVE LifeInv'
  OBVIOUS
<1>0. TypeOK /\ Seats /\ WorkersInv /\ UNCHANGED config
  BY DEF LifeInv, SeatsInv, NullToReady
<1>1. TypeOK'
  <2>1. /\ (kind \in Kinds /\ hardware \in BOOLEAN /\ hevc \in BOOLEAN)'
        /\ HeldType' /\ ThreadsType' /\ QueuesType' /\ InitsType' /\ FlagsType'
    <3>1. UNCHANGED <<held, inited, threads, taskVars, syncVars, spc, initing, events, signals>>
      BY DEF NullToReady, threads, taskVars, syncVars, initing, events, signals
    <3> QED BY <1>0, <3>1, KeptTypes
  <2>2. AppType'
    BY <1>0, TypeParts, BoundsAssumption, Positions
    DEF NullToReady, AppType, app, Seats
  <2>3. HistoryType'
    BY <1>0, TypeParts, BoundsAssumption
    DEF NullToReady, HistoryType, history
  <2> QED BY <2>1, <2>2, <2>3, TypePartsNext
<1>6. held' \subseteq Mine
  BY <1>0
  DEF Seats, NullToReady
<1>2. Seats'
  BY <1>0, <1>6, SameElement, Positions, BoundsAssumption
  DEF Seats, TypeOK, NullToReady, Threads, Callers, app, threads, taskVars, syncVars,
      initing, events, signals, history
<1>3. WorkersInv'
  BY <1>0, SameElement, Positions, BoundsAssumption
  DEF LifeInv, OwnInv, Orphans, TaskQuiet, SyncQuiet, WorkersInv, DecoderWorkers,
      OtherWorkers, Seats, TypeOK, NullToReady, Threads, Callers, app, threads, taskVars,
      syncVars, initing, events, signals, history
<1>5. ~Orphans' => OwnInv'
  BY <1>0, SameElement
  DEF LifeInv, OwnInv, Orphans, TaskQuiet, SyncQuiet, BaseUndo, Resources, WorkersInv,
      DecoderWorkers, OtherWorkers, Seats, TypeOK, NullToReady, Threads, Callers, app,
      threads, taskVars, syncVars, initing, events, signals, history
<1> QED BY <1>1, <1>2, <1>3, <1>5 DEF LifeInv, SeatsInv

LEMMA LifeBaseStep == LifeInv /\ BaseStep => LifeInv'
<1> SUFFICES ASSUME LifeInv, BaseStep PROVE LifeInv'
  OBVIOUS
<1>0. TypeOK /\ Seats /\ WorkersInv /\ UNCHANGED config
  BY DEF LifeInv, SeatsInv, BaseStep
<1>4. BaseOrder[astep] \in BaseUndo \cup {"impl", "handle", "setAllocator"}
      /\ Len(BaseOrder) = BaseLen
  BY BaseOrderIs DEF LifeInv, SeatsInv, Seats, BaseStep
<1>1. TypeOK'
  <2>1. /\ (kind \in Kinds /\ hardware \in BOOLEAN /\ hevc \in BOOLEAN)'
        /\ ThreadsType' /\ QueuesType' /\ InitsType' /\ FlagsType' /\ HistoryType'
    <3>1. UNCHANGED <<threads, taskVars, syncVars, spc, initing, events, signals, history>>
      BY DEF BaseStep, threads, taskVars, syncVars, initing, events, signals, history
    <3> QED BY <1>0, <3>1, KeptTypes
  <2>2. AppType'
    BY <1>0, <1>4, TypeParts, BoundsAssumption, Positions
    DEF BaseStep, AppType, app, Seats
  <2>3. HeldType'
    BY <1>0, <1>4, TypeParts
    DEF BaseStep, HeldType, Resources, BaseUndo
  <2> QED BY <2>1, <2>2, <2>3, TypePartsNext
<1>6. held' \subseteq Mine
  BY <1>0, <1>4
  DEF Seats, BaseStep, BaseUndo, Resources, Mine
<1>2. Seats'
  <2>1. CASE astep = Len(BaseOrder)
    BY <1>0, <1>6, <2>1, SameElement
    DEF Seats, BaseStep, Callers, taskVars, initing
  <2>2. CASE astep # Len(BaseOrder)
    <3>1. apc' = "base" /\ state' = state /\ astep' \in 1 .. BaseLen
      BY <1>0, <1>4, <2>2, Positions DEF Seats, BaseStep
    <3> QED BY <1>0, <1>6, <3>1, SameElement
            DEF Seats, BaseStep, Callers, taskVars, initing
  <2> QED BY <2>1, <2>2
<1>3. WorkersInv'
  BY <1>0, <1>4, SameElement, Positions, BoundsAssumption
  DEF LifeInv, OwnInv, Orphans, TaskQuiet, SyncQuiet, WorkersInv, DecoderWorkers,
      OtherWorkers, Seats, TypeOK, BaseStep, Threads, Callers, app, threads, taskVars,
      syncVars, initing, events, signals, history
<1>5. ~Orphans' => OwnInv'
  BY <1>0, <1>4, SameElement
  DEF LifeInv, OwnInv, Orphans, TaskQuiet, SyncQuiet, BaseUndo, Resources, WorkersInv,
      DecoderWorkers, OtherWorkers, Seats, TypeOK, BaseStep, Threads, Callers, app,
      threads, taskVars, syncVars, initing, events, signals, history
<1> QED BY <1>1, <1>2, <1>3, <1>5 DEF LifeInv, SeatsInv

LEMMA LifeBaseFail == LifeInv /\ BaseFail => LifeInv'
<1> SUFFICES ASSUME LifeInv, BaseFail PROVE LifeInv'
  OBVIOUS
<1>0. TypeOK /\ Seats /\ WorkersInv /\ UNCHANGED config
  BY DEF LifeInv, SeatsInv, BaseFail
<1>4. BaseOrder[astep] \in BaseUndo \cup {"impl", "handle", "setAllocator"}
      /\ Len(BaseOrder) = BaseLen
  BY BaseOrderIs DEF LifeInv, SeatsInv, Seats, BaseFail
<1>1. TypeOK'
  <2>1. /\ (kind \in Kinds /\ hardware \in BOOLEAN /\ hevc \in BOOLEAN)'
        /\ ThreadsType' /\ QueuesType' /\ InitsType' /\ FlagsType'
    <3>1. UNCHANGED <<threads, taskVars, syncVars, spc, initing, events, signals>>
      BY DEF BaseFail, threads, taskVars, syncVars, initing, events, signals
    <3> QED BY <1>0, <3>1, KeptTypes
  <2>2. AppType'
    BY <1>0, <1>4, TypeParts, BoundsAssumption, Positions
    DEF BaseFail, Failed, MayFail, AppType, app, Seats
  <2>3. HeldType'
    BY <1>0, <1>4, TypeParts
    DEF BaseFail, Failed, MayFail, HeldType, Resources, BaseUndo
  <2>4. HistoryType'
    BY <1>0, <1>4, TypeParts, BoundsAssumption
    DEF BaseFail, Failed, MayFail, HistoryType, history
  <2> QED BY <2>1, <2>2, <2>3, <2>4, TypePartsNext
<1>6. held' \subseteq Mine
  BY <1>0, <1>4
  DEF Seats, BaseFail, Failed, MayFail, BaseUndo, Resources, Mine
<1>2. Seats'
  BY <1>0, <1>6, <1>4, SameElement, Positions, BoundsAssumption
  DEF Seats, TypeOK, BaseFail, Failed, MayFail, Threads, Callers, app, threads, taskVars,
      syncVars, initing, events, signals, history
<1>3. WorkersInv'
  BY <1>0, <1>4, SameElement, Positions, BoundsAssumption
  DEF LifeInv, OwnInv, Orphans, TaskQuiet, SyncQuiet, WorkersInv, DecoderWorkers,
      OtherWorkers, Seats, TypeOK, BaseFail, Failed, MayFail, Threads, Callers, app,
      threads, taskVars, syncVars, initing, events, signals, history
<1>5. ~Orphans' => OwnInv'
  BY <1>0, <1>4, SameElement
  DEF LifeInv, OwnInv, Orphans, TaskQuiet, SyncQuiet, BaseUndo, Resources, WorkersInv,
      DecoderWorkers, OtherWorkers, Seats, TypeOK, BaseFail, Failed, MayFail, Threads,
      Callers, app, threads, taskVars, syncVars, initing, events, signals, history
<1> QED BY <1>1, <1>2, <1>3, <1>5 DEF LifeInv, SeatsInv

LEMMA LifeBaseError == LifeInv /\ BaseError => LifeInv'
<1> SUFFICES ASSUME LifeInv, BaseError PROVE LifeInv'
  OBVIOUS
<1>0. TypeOK /\ Seats /\ WorkersInv /\ UNCHANGED config
  BY DEF LifeInv, SeatsInv, BaseError
<1>1. TypeOK'
  <2>1. /\ (kind \in Kinds /\ hardware \in BOOLEAN /\ hevc \in BOOLEAN)'
        /\ ThreadsType' /\ QueuesType' /\ InitsType' /\ FlagsType' /\ HistoryType'
    <3>1. UNCHANGED <<threads, taskVars, syncVars, spc, initing, events, signals, history>>
      BY DEF BaseError, threads, taskVars, syncVars, initing, events, signals, history
    <3> QED BY <1>0, <3>1, KeptTypes
  <2>2. AppType'
    BY <1>0, TypeParts, BoundsAssumption, Positions
    DEF BaseError, AppType, app, Seats
  <2>3. HeldType'
    BY <1>0, TypeParts
    DEF BaseError, HeldType, Resources, BaseUndo
  <2> QED BY <2>1, <2>2, <2>3, TypePartsNext
<1>6. held' \subseteq Mine
  BY <1>0
  DEF Seats, BaseError, BaseUndo, Resources, Mine
<1>2. Seats'
  BY <1>0, <1>6, SameElement, Positions, BoundsAssumption
  DEF Seats, TypeOK, BaseError, Threads, Callers, app, threads, taskVars, syncVars,
      initing, events, signals, history
<1>3. WorkersInv'
  BY <1>0, SameElement, Positions, BoundsAssumption
  DEF LifeInv, OwnInv, Orphans, TaskQuiet, SyncQuiet, WorkersInv, DecoderWorkers,
      OtherWorkers, Seats, TypeOK, BaseError, Threads, Callers, app, threads, taskVars,
      syncVars, initing, events, signals, history
<1>5. ~Orphans' => OwnInv'
  BY <1>0, SameElement
  DEF LifeInv, OwnInv, Orphans, TaskQuiet, SyncQuiet, BaseUndo, Resources, WorkersInv,
      DecoderWorkers, OtherWorkers, Seats, TypeOK, BaseError, Threads, Callers, app,
      threads, taskVars, syncVars, initing, events, signals, history
<1> QED BY <1>1, <1>2, <1>3, <1>5 DEF LifeInv, SeatsInv

LEMMA LifeReadyToPaused == LifeInv /\ ReadyToPaused => LifeInv'
<1> SUFFICES ASSUME LifeInv, ReadyToPaused PROVE LifeInv'
  OBVIOUS
<1>0. TypeOK /\ Seats /\ WorkersInv /\ UNCHANGED config
  BY DEF LifeInv, SeatsInv, ReadyToPaused
<1>1. TypeOK'
  <2>1. /\ (kind \in Kinds /\ hardware \in BOOLEAN /\ hevc \in BOOLEAN)'
        /\ HeldType' /\ ThreadsType' /\ QueuesType' /\ InitsType'
    <3>1. UNCHANGED <<held, inited, threads, taskVars, syncVars, spc, initing>>
      BY DEF ReadyToPaused, threads, taskVars, syncVars, initing
    <3> QED BY <1>0, <3>1, KeptTypes
  <2>2. AppType'
    BY <1>0, TypeParts, BoundsAssumption, Positions
    DEF ReadyToPaused, AppType, app, Seats
  <2>3. HistoryType'
    BY <1>0, TypeParts, BoundsAssumption
    DEF ReadyToPaused, HistoryType, history
  <2>4. FlagsType'
    BY <1>0, TypeParts
    DEF ReadyToPaused, FlagsType, events, signals
  <2> QED BY <2>1, <2>2, <2>3, <2>4, TypePartsNext
<1>6. held' \subseteq Mine
  BY <1>0
  DEF Seats, ReadyToPaused
<1>2. Seats'
  BY <1>0, <1>6, SameElement, Positions, BoundsAssumption
  DEF Seats, TypeOK, ReadyToPaused, Threads, Callers, app, threads, taskVars, syncVars,
      initing, events, signals, history
<1>3. WorkersInv'
  <2>1. /\ UNCHANGED <<kind, task, sync, ipc, istep, inited, held, spc, InitAt, UndoLen>>
        /\ streams' = streams + 1
    BY SameElement DEF ReadyToPaused, threads, initing, config
  <2>2. task.workers \in Nat /\ sync.workers \in Nat /\ streams \in Nat
    BY <1>0, ThreadsNow, BoundsAssumption DEF TypeOK
  <2>3. DecoderWorkers => DecoderWorkers'
    BY <2>1, <2>2 DEF DecoderWorkers
  <2>4. OtherWorkers => OtherWorkers'
    BY <2>1 DEF OtherWorkers
  <2> QED BY <1>0, <2>1, <2>3, <2>4 DEF WorkersInv
<1>5. ~Orphans' => OwnInv'
  BY <1>0, SameElement
  DEF LifeInv, OwnInv, Orphans, TaskQuiet, SyncQuiet, BaseUndo, Resources, WorkersInv,
      DecoderWorkers, OtherWorkers, Seats, TypeOK, ReadyToPaused, Threads, Callers, app,
      threads, taskVars, syncVars, initing, events, signals, history
<1> QED BY <1>1, <1>2, <1>3, <1>5 DEF LifeInv, SeatsInv

LEMMA LifeVdecStreamStart == LifeInv /\ VdecStreamStart => LifeInv'
<1> SUFFICES ASSUME LifeInv, VdecStreamStart PROVE LifeInv'
  OBVIOUS
<1>0. TypeOK /\ Seats /\ WorkersInv /\ UNCHANGED config
  BY DEF LifeInv, SeatsInv, VdecStreamStart
<1>4. /\ task.workers \in 0 .. MaxStreams /\ sync.workers \in 0 .. MaxStreams
      /\ Started(task).started /\ Started(task).workers = task.workers + 1
      /\ task.workers < MaxStreams => Started(task) \in Threads
      /\ NotStarted(task).started /\ NotStarted(task).workers = task.workers
      /\ NotStarted(task) \in Threads
      /\ Started(sync).started /\ Started(sync).workers = sync.workers + 1
      /\ sync.workers < MaxStreams => Started(sync) \in Threads
      /\ NotStarted(sync).started /\ NotStarted(sync).workers = sync.workers
      /\ NotStarted(sync) \in Threads
  BY <1>0, ThreadsNow
<1>1. TypeOK'
  <2>1. /\ (kind \in Kinds /\ hardware \in BOOLEAN /\ hevc \in BOOLEAN)'
        /\ AppType' /\ HeldType' /\ QueuesType' /\ InitsType'
    <3>1. UNCHANGED <<app, held, inited, taskVars, syncVars, spc, initing>>
      BY DEF VdecStreamStart, app, taskVars, syncVars, initing
    <3> QED BY <1>0, <3>1, KeptTypes
  <2>2. ThreadsType'
    BY <1>0, <1>4, TypeParts, BoundsAssumption
    DEF VdecStreamStart, Streaming, Failed, MayFail, ThreadsType, threads, WorkersInv,
        DecoderWorkers, OtherWorkers, Seats, HistoryType
  <2>3. FlagsType'
    BY <1>0, <1>4, TypeParts
    DEF VdecStreamStart, Streaming, Failed, MayFail, FlagsType, events, signals
  <2>4. HistoryType'
    BY <1>0, <1>4, TypeParts, BoundsAssumption
    DEF VdecStreamStart, Streaming, Failed, MayFail, HistoryType, history
  <2> QED BY <2>1, <2>2, <2>3, <2>4, TypePartsNext
<1>6. held' \subseteq Mine
  BY <1>0
  DEF Seats, VdecStreamStart
<1>2. Seats'
  BY <1>0, <1>6, <1>4, SameElement, Positions, BoundsAssumption
  DEF Seats, TypeOK, VdecStreamStart, Streaming, Failed, MayFail, Threads, Callers, app,
      threads, taskVars, syncVars, initing, events, signals, history
<1>3. WorkersInv'
  <2>1. /\ kind = "vdec" /\ kind' = "vdec" /\ state = "paused" /\ ~begun /\ ~refused
        /\ UNCHANGED <<state, streams>> /\ begun \in BOOLEAN /\ streams \in Nat
    BY <1>0, SameElement, BoundsAssumption
    DEF VdecStreamStart, Streaming, TypeOK, app
  <2>2. task.workers < streams /\ sync.workers < streams
    BY <1>0, <2>1 DEF WorkersInv, DecoderWorkers
  <2>3. /\ task'.workers <= streams /\ sync'.workers <= streams
        /\ begun' \/ refused'
    BY <1>4, <2>1, <2>2 DEF VdecStreamStart
  <2> QED BY <2>1, <2>3 DEF WorkersInv, DecoderWorkers
<1>5. ~Orphans' => OwnInv'
  BY <1>0, <1>4, SameElement
  DEF LifeInv, OwnInv, Orphans, TaskQuiet, SyncQuiet, BaseUndo, Resources, WorkersInv,
      DecoderWorkers, OtherWorkers, Seats, TypeOK, VdecStreamStart, Streaming, Failed,
      MayFail, Threads, Callers, app, threads, taskVars, syncVars, initing, events,
      signals, history
<1> QED BY <1>1, <1>2, <1>3, <1>5 DEF LifeInv, SeatsInv

LEMMA LifeVencCapsRefused == LifeInv /\ VencCapsRefused => LifeInv'
<1> SUFFICES ASSUME LifeInv, VencCapsRefused PROVE LifeInv'
  OBVIOUS
<1>0. TypeOK /\ Seats /\ WorkersInv /\ UNCHANGED config
  BY DEF LifeInv, SeatsInv, VencCapsRefused, Refuse
<1>1. TypeOK'
  <2>1. /\ (kind \in Kinds /\ hardware \in BOOLEAN /\ hevc \in BOOLEAN)'
        /\ AppType' /\ HeldType' /\ ThreadsType' /\ QueuesType' /\ InitsType'
    <3>1. UNCHANGED <<app, held, inited, threads, taskVars, syncVars, spc, initing>>
      BY DEF VencCapsRefused, Refuse, app, threads, taskVars, syncVars, initing
    <3> QED BY <1>0, <3>1, KeptTypes
  <2>2. FlagsType'
    BY <1>0, TypeParts
    DEF VencCapsRefused, Refuse, CapsComes, Streaming, Failed, MayFail, FlagsType, events,
        signals
  <2>3. HistoryType'
    BY <1>0, TypeParts, BoundsAssumption
    DEF VencCapsRefused, Refuse, CapsComes, Streaming, Failed, MayFail, HistoryType, history
  <2> QED BY <2>1, <2>2, <2>3, TypePartsNext
<1>6. held' \subseteq Mine
  BY <1>0
  DEF Seats, VencCapsRefused, Refuse
<1>2. Seats'
  <2>1. /\ UNCHANGED <<config, app, initing>>
        /\ tpc' = "init" <=> tpc = "init"
        /\ tpc' = "fill" => tpc = "fill" \/ kind = "vdec"
        /\ spc' = spc \/ (spc = "outCaps" /\ spc' = "idle")
    BY DEF VencCapsRefused, Refuse, taskVars
  <2> QED BY <1>0, <1>6, <2>1, SeatsKept
<1>3. WorkersInv'
  <2>1. /\ UNCHANGED <<config, inited, threads, initing, streams, state, begun, held>>
        /\ refused => refused'
        /\ spc' = spc \/ spc' = "idle"
    BY DEF VencCapsRefused, Refuse, app, events, signals, history
  <2> QED BY <1>0, <2>1, WorkersKept
<1>5. ASSUME ~Orphans' PROVE OwnInv'
  <2>1. /\ UNCHANGED <<config, app, held, inited, threads, streams>>
        /\ tpc' # "idle" => tpc # "idle" \/ task.workers > 0
        /\ ypc' # "idle" => ypc # "idle" \/ sync.workers > 0
    BY DEF VencCapsRefused, Refuse, taskVars, syncVars, history
  <2>2. OwnInv /\ ~Orphans
    BY <1>5, <2>1, SameElement DEF LifeInv, Orphans
  <2>3. (state = "paused" /\ apc = "idle")
          \/ ((TaskQuiet => TaskQuiet') /\ (SyncQuiet => SyncQuiet'))
    BY <1>0, <2>1 DEF VencCapsRefused, Refuse, CapsComes, Streaming, Seats, TaskQuiet, SyncQuiet, threads, taskVars, syncVars
  <2> QED BY <1>0, <2>1, <2>2, <2>3, OneWorker, OwnKept
<1> QED BY <1>1, <1>2, <1>3, <1>5 DEF LifeInv, SeatsInv

LEMMA LifeVppCapsRefused == LifeInv /\ VppCapsRefused => LifeInv'
<1> SUFFICES ASSUME LifeInv, VppCapsRefused PROVE LifeInv'
  OBVIOUS
<1>0. TypeOK /\ Seats /\ WorkersInv /\ UNCHANGED config
  BY DEF LifeInv, SeatsInv, VppCapsRefused, Refuse
<1>1. TypeOK'
  <2>1. /\ (kind \in Kinds /\ hardware \in BOOLEAN /\ hevc \in BOOLEAN)'
        /\ AppType' /\ HeldType' /\ ThreadsType' /\ QueuesType' /\ InitsType'
    <3>1. UNCHANGED <<app, held, inited, threads, taskVars, syncVars, spc, initing>>
      BY DEF VppCapsRefused, Refuse, app, threads, taskVars, syncVars, initing
    <3> QED BY <1>0, <3>1, KeptTypes
  <2>2. FlagsType'
    BY <1>0, TypeParts
    DEF VppCapsRefused, Refuse, CapsComes, Streaming, Failed, MayFail, FlagsType, events,
        signals
  <2>3. HistoryType'
    BY <1>0, TypeParts, BoundsAssumption
    DEF VppCapsRefused, Refuse, CapsComes, Streaming, Failed, MayFail, HistoryType, history
  <2> QED BY <2>1, <2>2, <2>3, TypePartsNext
<1>6. held' \subseteq Mine
  BY <1>0
  DEF Seats, VppCapsRefused, Refuse
<1>2. Seats'
  <2>1. /\ UNCHANGED <<config, app, initing>>
        /\ tpc' = "init" <=> tpc = "init"
        /\ tpc' = "fill" => tpc = "fill" \/ kind = "vdec"
        /\ spc' = spc \/ (spc = "outCaps" /\ spc' = "idle")
    BY DEF VppCapsRefused, Refuse, taskVars
  <2> QED BY <1>0, <1>6, <2>1, SeatsKept
<1>3. WorkersInv'
  <2>1. /\ UNCHANGED <<config, inited, threads, initing, streams, state, begun, held>>
        /\ refused => refused'
        /\ spc' = spc \/ spc' = "idle"
    BY DEF VppCapsRefused, Refuse, app, events, signals, history
  <2> QED BY <1>0, <2>1, WorkersKept
<1>5. ASSUME ~Orphans' PROVE OwnInv'
  <2>1. /\ UNCHANGED <<config, app, held, inited, threads, streams>>
        /\ tpc' # "idle" => tpc # "idle" \/ task.workers > 0
        /\ ypc' # "idle" => ypc # "idle" \/ sync.workers > 0
    BY DEF VppCapsRefused, Refuse, taskVars, syncVars, history
  <2>2. OwnInv /\ ~Orphans
    BY <1>5, <2>1, SameElement DEF LifeInv, Orphans
  <2>3. (state = "paused" /\ apc = "idle")
          \/ ((TaskQuiet => TaskQuiet') /\ (SyncQuiet => SyncQuiet'))
    BY <1>0, <2>1 DEF VppCapsRefused, Refuse, CapsComes, Streaming, Seats, TaskQuiet, SyncQuiet, threads, taskVars, syncVars
  <2> QED BY <1>0, <2>1, <2>2, <2>3, OneWorker, OwnKept
<1> QED BY <1>1, <1>2, <1>3, <1>5 DEF LifeInv, SeatsInv

LEMMA LifeVdecCapsRefused == LifeInv /\ VdecCapsRefused => LifeInv'
<1> SUFFICES ASSUME LifeInv, VdecCapsRefused PROVE LifeInv'
  OBVIOUS
<1>0. TypeOK /\ Seats /\ WorkersInv /\ UNCHANGED config
  BY DEF LifeInv, SeatsInv, VdecCapsRefused, Refuse
<1>1. TypeOK'
  <2>1. /\ (kind \in Kinds /\ hardware \in BOOLEAN /\ hevc \in BOOLEAN)'
        /\ AppType' /\ HeldType' /\ ThreadsType' /\ QueuesType' /\ InitsType'
    <3>1. UNCHANGED <<app, held, inited, threads, taskVars, syncVars, spc, initing>>
      BY DEF VdecCapsRefused, Refuse, app, threads, taskVars, syncVars, initing
    <3> QED BY <1>0, <3>1, KeptTypes
  <2>2. FlagsType'
    BY <1>0, TypeParts
    DEF VdecCapsRefused, Refuse, CapsComes, Streaming, Failed, MayFail, FlagsType, events,
        signals
  <2>3. HistoryType'
    BY <1>0, TypeParts, BoundsAssumption
    DEF VdecCapsRefused, Refuse, CapsComes, Streaming, Failed, MayFail, HistoryType, history
  <2> QED BY <2>1, <2>2, <2>3, TypePartsNext
<1>6. held' \subseteq Mine
  BY <1>0
  DEF Seats, VdecCapsRefused, Refuse
<1>2. Seats'
  <2>1. /\ UNCHANGED <<config, app, initing>>
        /\ tpc' = "init" <=> tpc = "init"
        /\ tpc' = "fill" => tpc = "fill" \/ kind = "vdec"
        /\ spc' = spc \/ (spc = "outCaps" /\ spc' = "idle")
    BY DEF VdecCapsRefused, Refuse, taskVars
  <2> QED BY <1>0, <1>6, <2>1, SeatsKept
<1>3. WorkersInv'
  <2>1. /\ UNCHANGED <<config, inited, threads, initing, streams, state, begun, held>>
        /\ refused => refused'
        /\ spc' = spc \/ spc' = "idle"
    BY DEF VdecCapsRefused, Refuse, app, events, signals, history
  <2> QED BY <1>0, <2>1, WorkersKept
<1>5. ASSUME ~Orphans' PROVE OwnInv'
  <2>1. /\ UNCHANGED <<config, app, held, inited, threads, streams>>
        /\ tpc' # "idle" => tpc # "idle" \/ task.workers > 0
        /\ ypc' # "idle" => ypc # "idle" \/ sync.workers > 0
    BY DEF VdecCapsRefused, Refuse, taskVars, syncVars, history
  <2>2. OwnInv /\ ~Orphans
    BY <1>5, <2>1, SameElement DEF LifeInv, Orphans
  <2>3. (state = "paused" /\ apc = "idle")
          \/ ((TaskQuiet => TaskQuiet') /\ (SyncQuiet => SyncQuiet'))
    BY <1>0, <2>1 DEF VdecCapsRefused, Refuse, CapsComes, Streaming, Seats, TaskQuiet, SyncQuiet, threads, taskVars, syncVars
  <2> QED BY <1>0, <2>1, <2>2, <2>3, OneWorker, OwnKept
<1> QED BY <1>1, <1>2, <1>3, <1>5 DEF LifeInv, SeatsInv

LEMMA LifeVencCaps == LifeInv /\ VencCaps => LifeInv'
<1> SUFFICES ASSUME LifeInv, VencCaps PROVE LifeInv'
  OBVIOUS
<1>0. TypeOK /\ Seats /\ WorkersInv /\ UNCHANGED config
  BY DEF LifeInv, SeatsInv, VencCaps
<1>1. TypeOK'
  <2>1. /\ (kind \in Kinds /\ hardware \in BOOLEAN /\ hevc \in BOOLEAN)'
        /\ AppType' /\ HeldType' /\ ThreadsType' /\ QueuesType' /\ FlagsType'
    <3>1. UNCHANGED <<app, held, inited, threads, taskVars, syncVars, events, signals>>
      BY DEF VencCaps, app, threads, taskVars, syncVars, events, signals
    <3> QED BY <1>0, <3>1, KeptTypes
  <2>2. InitsType'
    BY <1>0, TypeParts, BoundsAssumption
    DEF VencCaps, CapsComes, Streaming, Enter, InitsType, initing, Callers
  <2>3. HistoryType'
    BY <1>0, TypeParts, BoundsAssumption
    DEF VencCaps, CapsComes, Streaming, Enter, HistoryType, history
  <2> QED BY <2>1, <2>2, <2>3, TypePartsNext
<1>6. held' \subseteq Mine
  BY <1>0
  DEF Seats, VencCaps
<1>2. Seats'
  <2>1. /\ UNCHANGED <<config, app, tpc>> /\ kind # "vdec"
        /\ state = "paused" /\ spc' = "init" /\ Enter("stream")
    BY DEF VencCaps, CapsComes, Streaming, taskVars
  <2>2. ipc'["stream"] = "do" /\ istep'["stream"] = 1
        /\ ipc'["task"] = ipc["task"] /\ istep'["task"] = istep["task"]
    BY <1>0, <2>1, Entered DEF Callers
  <2> QED BY <1>0, <1>6, <2>1, <2>2, SameElement, Positions DEF Seats, Callers, app
<1>3. WorkersInv'
  <2>1. /\ UNCHANGED <<config, inited, threads, held>> /\ kind # "vdec"
        /\ spc' = "init" /\ Enter("stream")
    BY DEF VencCaps
  <2>2. ipc'["stream"] = "do" /\ istep'["stream"] = 1
    BY <1>0, <2>1, Entered DEF Callers
  <2>3. ipc["stream"] # "undo"
    BY <1>0 DEF Seats, VencCaps, CapsComes, Streaming
  <2>4. OtherWorkers /\ ~(istep'["stream"] > InitAt)
    BY <1>0, <2>1, <2>2, Positions DEF WorkersInv
  <2>5. OtherWorkers'
    BY <2>1, <2>2, <2>3, <2>4, SameElement DEF OtherWorkers, threads
  <2> QED BY <2>1, <2>5, SameElement DEF WorkersInv
<1>5. ~Orphans' => OwnInv'
  BY <1>0, SameElement
  DEF LifeInv, OwnInv, Orphans, TaskQuiet, SyncQuiet, BaseUndo, Resources, WorkersInv,
      DecoderWorkers, OtherWorkers, Seats, TypeOK, VencCaps, CapsComes, Streaming, Enter,
      Threads, Callers, app, threads, taskVars, syncVars, initing, events, signals,
      history
<1> QED BY <1>1, <1>2, <1>3, <1>5 DEF LifeInv, SeatsInv

LEMMA LifeVppCaps == LifeInv /\ VppCaps => LifeInv'
<1> SUFFICES ASSUME LifeInv, VppCaps PROVE LifeInv'
  OBVIOUS
<1>0. TypeOK /\ Seats /\ WorkersInv /\ UNCHANGED config
  BY DEF LifeInv, SeatsInv, VppCaps
<1>1. TypeOK'
  <2>1. /\ (kind \in Kinds /\ hardware \in BOOLEAN /\ hevc \in BOOLEAN)'
        /\ AppType' /\ HeldType' /\ ThreadsType' /\ QueuesType' /\ FlagsType'
    <3>1. UNCHANGED <<app, held, inited, threads, taskVars, syncVars, events, signals>>
      BY DEF VppCaps, app, threads, taskVars, syncVars, events, signals
    <3> QED BY <1>0, <3>1, KeptTypes
  <2>2. InitsType'
    BY <1>0, TypeParts, BoundsAssumption
    DEF VppCaps, CapsComes, Streaming, Enter, InitsType, initing, Callers
  <2>3. HistoryType'
    BY <1>0, TypeParts, BoundsAssumption
    DEF VppCaps, CapsComes, Streaming, Enter, HistoryType, history
  <2> QED BY <2>1, <2>2, <2>3, TypePartsNext
<1>6. held' \subseteq Mine
  BY <1>0
  DEF Seats, VppCaps
<1>2. Seats'
  <2>1. /\ UNCHANGED <<config, app, tpc>> /\ kind # "vdec"
        /\ state = "paused" /\ spc' = "init" /\ Enter("stream")
    BY DEF VppCaps, CapsComes, Streaming, taskVars
  <2>2. ipc'["stream"] = "do" /\ istep'["stream"] = 1
        /\ ipc'["task"] = ipc["task"] /\ istep'["task"] = istep["task"]
    BY <1>0, <2>1, Entered DEF Callers
  <2> QED BY <1>0, <1>6, <2>1, <2>2, SameElement, Positions DEF Seats, Callers, app
<1>3. WorkersInv'
  <2>1. /\ UNCHANGED <<config, inited, threads, held>> /\ kind # "vdec"
        /\ spc' = "init" /\ Enter("stream")
    BY DEF VppCaps
  <2>2. ipc'["stream"] = "do" /\ istep'["stream"] = 1
    BY <1>0, <2>1, Entered DEF Callers
  <2>3. ipc["stream"] # "undo"
    BY <1>0 DEF Seats, VppCaps, CapsComes, Streaming
  <2>4. OtherWorkers /\ ~(istep'["stream"] > InitAt)
    BY <1>0, <2>1, <2>2, Positions DEF WorkersInv
  <2>5. OtherWorkers'
    BY <2>1, <2>2, <2>3, <2>4, SameElement DEF OtherWorkers, threads
  <2> QED BY <2>1, <2>5, SameElement DEF WorkersInv
<1>5. ~Orphans' => OwnInv'
  BY <1>0, SameElement
  DEF LifeInv, OwnInv, Orphans, TaskQuiet, SyncQuiet, BaseUndo, Resources, WorkersInv,
      DecoderWorkers, OtherWorkers, Seats, TypeOK, VppCaps, CapsComes, Streaming, Enter,
      Threads, Callers, app, threads, taskVars, syncVars, initing, events, signals,
      history
<1> QED BY <1>1, <1>2, <1>3, <1>5 DEF LifeInv, SeatsInv

LEMMA LifeVdecCaps == LifeInv /\ VdecCaps => LifeInv'
<1> SUFFICES ASSUME LifeInv, VdecCaps PROVE LifeInv'
  OBVIOUS
<1>0. TypeOK /\ Seats /\ WorkersInv /\ UNCHANGED config
  BY DEF LifeInv, SeatsInv, VdecCaps
<1>1. TypeOK'
  <2>1. /\ (kind \in Kinds /\ hardware \in BOOLEAN /\ hevc \in BOOLEAN)'
        /\ AppType' /\ ThreadsType' /\ QueuesType'
    <3>1. UNCHANGED <<app, threads, taskVars, syncVars>>
      BY DEF VdecCaps, app, threads, taskVars, syncVars
    <3> QED BY <1>0, <3>1, KeptTypes
  <2>2. HeldType'
    BY <1>0, TypeParts
    DEF VdecCaps, CapsComes, Streaming, Enter, Failed, MayFail, HeldType, Resources,
        BaseUndo
  <2>3. InitsType'
    BY <1>0, TypeParts, BoundsAssumption
    DEF VdecCaps, CapsComes, Streaming, Enter, Failed, MayFail, InitsType, initing, Callers
  <2>4. FlagsType'
    BY <1>0, TypeParts
    DEF VdecCaps, CapsComes, Streaming, Enter, Failed, MayFail, FlagsType, events, signals
  <2>5. HistoryType'
    BY <1>0, TypeParts, BoundsAssumption
    DEF VdecCaps, CapsComes, Streaming, Enter, Failed, MayFail, HistoryType, history
  <2> QED BY <2>1, <2>2, <2>3, <2>4, <2>5, TypePartsNext
<1>6. held' \subseteq Mine
  BY <1>0
  DEF Seats, VdecCaps, CapsComes, Streaming, Enter, Failed, MayFail, BaseUndo, Resources,
      Mine
<1>2. Seats'
  <2>0. state = "paused" /\ spc = "idle" /\ kind = "vdec" /\ UNCHANGED app /\ tpc' = tpc
    BY DEF VdecCaps, CapsComes, Streaming, taskVars
  <2>1. CASE spc' \in {"idle", "outCaps"} /\ UNCHANGED initing
    BY <1>0, <1>6, <2>0, <2>1, SameElement
    DEF Seats, Callers, app, initing
  <2>2. CASE spc' = "init" /\ Enter("stream")
    <3>1. ipc'["stream"] = "do" /\ istep'["stream"] = 1
          /\ ipc'["task"] = ipc["task"] /\ istep'["task"] = istep["task"]
      BY <1>0, <2>2, Entered DEF Callers
    <3> QED BY <1>0, <1>6, <2>0, <2>2, <3>1, SameElement, Positions
            DEF Seats, Callers, app
  <2> QED BY <2>0, <2>1, <2>2 DEF VdecCaps
<1>3. WorkersInv'
  BY <1>0, SameElement, Positions, BoundsAssumption
  DEF LifeInv, OwnInv, Orphans, TaskQuiet, SyncQuiet, WorkersInv, DecoderWorkers,
      OtherWorkers, Seats, TypeOK, VdecCaps, CapsComes, Streaming, Enter, Failed, MayFail,
      Threads, Callers, app, threads, taskVars, syncVars, initing, events, signals,
      history
<1>5. ~Orphans' => OwnInv'
  BY <1>0, SameElement
  DEF LifeInv, OwnInv, Orphans, TaskQuiet, SyncQuiet, BaseUndo, Resources, WorkersInv,
      DecoderWorkers, OtherWorkers, Seats, TypeOK, VdecCaps, CapsComes, Streaming, Enter,
      Failed, MayFail, Threads, Callers, app, threads, taskVars, syncVars, initing,
      events, signals, history
<1> QED BY <1>1, <1>2, <1>3, <1>5 DEF LifeInv, SeatsInv

LEMMA LifeStartTaskThread == LifeInv /\ StartTaskThread => LifeInv'
<1> SUFFICES ASSUME LifeInv, StartTaskThread PROVE LifeInv'
  OBVIOUS
<1>0. TypeOK /\ Seats /\ WorkersInv /\ UNCHANGED config
  BY DEF LifeInv, SeatsInv, StartTaskThread
<1>4. /\ task.workers \in 0 .. MaxStreams /\ sync.workers \in 0 .. MaxStreams
      /\ Started(task).started /\ Started(task).workers = task.workers + 1
      /\ task.workers < MaxStreams => Started(task) \in Threads
      /\ NotStarted(task).started /\ NotStarted(task).workers = task.workers
      /\ NotStarted(task) \in Threads
  BY <1>0, ThreadsNow
<1>1. TypeOK'
  <2>1. /\ (kind \in Kinds /\ hardware \in BOOLEAN /\ hevc \in BOOLEAN)'
        /\ AppType' /\ HeldType' /\ QueuesType'
    <3>1. UNCHANGED <<app, held, inited, taskVars, syncVars>>
      BY DEF StartTaskThread, app, taskVars, syncVars
    <3> QED BY <1>0, <3>1, KeptTypes
  <2>2. ThreadsType'
    BY <1>0, <1>4, TypeParts, BoundsAssumption
    DEF StartTaskThread, Failed, MayFail, ThreadsType, threads, WorkersInv, DecoderWorkers,
        OtherWorkers, Seats, HistoryType
  <2>3. InitsType'
    BY <1>0, <1>4, TypeParts, BoundsAssumption
    DEF StartTaskThread, Failed, MayFail, InitsType, initing, Callers
  <2>4. FlagsType'
    BY <1>0, <1>4, TypeParts
    DEF StartTaskThread, Failed, MayFail, FlagsType, events, signals
  <2>5. HistoryType'
    BY <1>0, <1>4, TypeParts, BoundsAssumption
    DEF StartTaskThread, Failed, MayFail, HistoryType, history
  <2> QED BY <2>1, <2>2, <2>3, <2>4, <2>5, TypePartsNext
<1>6. held' \subseteq Mine
  BY <1>0
  DEF Seats, StartTaskThread
<1>2. Seats'
  <2>1. /\ spc \in {"start", "startSync"} /\ spc' \in {"idle", "startSync", "outCaps"}
        /\ UNCHANGED <<app, tpc, initing>>
    BY DEF StartTaskThread, taskVars
  <2> QED BY <1>0, <1>6, <2>1, SameElement
          DEF Seats, Callers, app, initing
<1>3. WorkersInv'
  <2>1. /\ UNCHANGED <<kind, sync, ipc, istep, inited, held, InitAt, UndoLen>>
        /\ spc = "start" /\ task' \in {Started(task), NotStarted(task)}
        /\ spc' \in {"idle", "startSync"}
    BY SameElement DEF StartTaskThread, initing, config
  <2>2. kind # "vdec" /\ OtherWorkers /\ ipc["stream"] = "no"
    BY <1>0, <2>1 DEF Seats, WorkersInv
  <2>3. inited /\ task.workers = 0 /\ sync.workers = 0
    BY <2>1, <2>2 DEF OtherWorkers
  <2>4. task'.workers \in 0 .. 1
    BY <1>4, <2>1, <2>3
  <2>5. OtherWorkers'
    BY <2>1, <2>2, <2>3, <2>4 DEF OtherWorkers
  <2> QED BY <2>1, <2>2, <2>5 DEF WorkersInv
<1>5. ~Orphans' => OwnInv'
  BY <1>0, <1>4, SameElement
  DEF LifeInv, OwnInv, Orphans, TaskQuiet, SyncQuiet, BaseUndo, Resources, WorkersInv,
      DecoderWorkers, OtherWorkers, Seats, TypeOK, StartTaskThread, Failed, MayFail,
      Threads, Callers, app, threads, taskVars, syncVars, initing, events, signals,
      history
<1> QED BY <1>1, <1>2, <1>3, <1>5 DEF LifeInv, SeatsInv

LEMMA LifeStartSyncThread == LifeInv /\ StartSyncThread => LifeInv'
<1> SUFFICES ASSUME LifeInv, StartSyncThread PROVE LifeInv'
  OBVIOUS
<1>0. TypeOK /\ Seats /\ WorkersInv /\ UNCHANGED config
  BY DEF LifeInv, SeatsInv, StartSyncThread
<1>4. /\ task.workers \in 0 .. MaxStreams /\ sync.workers \in 0 .. MaxStreams
      /\ Started(sync).started /\ Started(sync).workers = sync.workers + 1
      /\ sync.workers < MaxStreams => Started(sync) \in Threads
      /\ NotStarted(sync).started /\ NotStarted(sync).workers = sync.workers
      /\ NotStarted(sync) \in Threads
  BY <1>0, ThreadsNow
<1>1. TypeOK'
  <2>1. /\ (kind \in Kinds /\ hardware \in BOOLEAN /\ hevc \in BOOLEAN)'
        /\ AppType' /\ HeldType' /\ QueuesType'
    <3>1. UNCHANGED <<app, held, inited, taskVars, syncVars>>
      BY DEF StartSyncThread, app, taskVars, syncVars
    <3> QED BY <1>0, <3>1, KeptTypes
  <2>2. ThreadsType'
    BY <1>0, <1>4, TypeParts, BoundsAssumption
    DEF StartSyncThread, Failed, MayFail, ThreadsType, threads, WorkersInv, DecoderWorkers,
        OtherWorkers, Seats, HistoryType
  <2>3. InitsType'
    BY <1>0, <1>4, TypeParts, BoundsAssumption
    DEF StartSyncThread, Failed, MayFail, InitsType, initing, Callers
  <2>4. FlagsType'
    BY <1>0, <1>4, TypeParts
    DEF StartSyncThread, Failed, MayFail, FlagsType, events, signals
  <2>5. HistoryType'
    BY <1>0, <1>4, TypeParts, BoundsAssumption
    DEF StartSyncThread, Failed, MayFail, HistoryType, history
  <2> QED BY <2>1, <2>2, <2>3, <2>4, <2>5, TypePartsNext
<1>6. held' \subseteq Mine
  BY <1>0
  DEF Seats, StartSyncThread
<1>2. Seats'
  <2>1. /\ spc \in {"start", "startSync"} /\ spc' \in {"idle", "startSync", "outCaps"}
        /\ UNCHANGED <<app, tpc, initing>>
    BY DEF StartSyncThread, taskVars
  <2> QED BY <1>0, <1>6, <2>1, SameElement
          DEF Seats, Callers, app, initing
<1>3. WorkersInv'
  <2>1. /\ UNCHANGED <<kind, task, ipc, istep, inited, held, InitAt, UndoLen>>
        /\ spc = "startSync" /\ sync' \in {Started(sync), NotStarted(sync)}
        /\ spc' \in {"idle", "outCaps"}
    BY SameElement DEF StartSyncThread, initing, config
  <2>2. kind # "vdec" /\ OtherWorkers /\ ipc["stream"] = "no"
    BY <1>0, <2>1 DEF Seats, WorkersInv
  <2>3. inited /\ sync.workers = 0
    BY <2>1, <2>2 DEF OtherWorkers
  <2>4. sync'.workers \in 0 .. 1
    BY <1>4, <2>1, <2>3
  <2>5. OtherWorkers'
    BY <2>1, <2>2, <2>3, <2>4 DEF OtherWorkers
  <2> QED BY <2>1, <2>2, <2>5 DEF WorkersInv
<1>5. ~Orphans' => OwnInv'
  BY <1>0, <1>4, SameElement
  DEF LifeInv, OwnInv, Orphans, TaskQuiet, SyncQuiet, BaseUndo, Resources, WorkersInv,
      DecoderWorkers, OtherWorkers, Seats, TypeOK, StartSyncThread, Failed, MayFail,
      Threads, Callers, app, threads, taskVars, syncVars, initing, events, signals,
      history
<1> QED BY <1>1, <1>2, <1>3, <1>5 DEF LifeInv, SeatsInv

LEMMA LifeOutCaps == LifeInv /\ OutCaps => LifeInv'
<1> SUFFICES ASSUME LifeInv, OutCaps PROVE LifeInv'
  OBVIOUS
<1>0. TypeOK /\ Seats /\ WorkersInv /\ UNCHANGED config
  BY DEF LifeInv, SeatsInv, OutCaps
<1>1. TypeOK'
  <2>1. /\ (kind \in Kinds /\ hardware \in BOOLEAN /\ hevc \in BOOLEAN)'
        /\ AppType' /\ HeldType' /\ ThreadsType' /\ QueuesType'
    <3>1. UNCHANGED <<app, held, inited, threads, taskVars, syncVars>>
      BY DEF OutCaps, app, threads, taskVars, syncVars
    <3> QED BY <1>0, <3>1, KeptTypes
  <2>2. InitsType'
    BY <1>0, TypeParts, BoundsAssumption
    DEF OutCaps, NoOutCaps, Failed, MayFail, InitsType, initing, Callers
  <2>3. FlagsType'
    BY <1>0, TypeParts
    DEF OutCaps, NoOutCaps, Failed, MayFail, FlagsType, events, signals
  <2>4. HistoryType'
    BY <1>0, TypeParts, BoundsAssumption
    DEF OutCaps, NoOutCaps, Failed, MayFail, HistoryType, history
  <2> QED BY <2>1, <2>2, <2>3, <2>4, TypePartsNext
<1>6. held' \subseteq Mine
  BY <1>0
  DEF Seats, OutCaps
<1>2. Seats'
  <2>1. /\ UNCHANGED <<config, app, initing>>
        /\ tpc' = "init" <=> tpc = "init"
        /\ tpc' = "fill" => tpc = "fill" \/ kind = "vdec"
        /\ spc' = spc \/ (spc = "outCaps" /\ spc' = "idle")
    BY DEF OutCaps, taskVars
  <2> QED BY <1>0, <1>6, <2>1, SeatsKept
<1>3. WorkersInv'
  <2>1. /\ UNCHANGED <<config, inited, threads, initing, streams, state, begun, held>>
        /\ refused => refused'
        /\ spc' = spc \/ spc' = "idle"
    BY DEF OutCaps, NoOutCaps, app, events, signals, history
  <2> QED BY <1>0, <2>1, WorkersKept
<1>5. ASSUME ~Orphans' PROVE OwnInv'
  <2>1. /\ UNCHANGED <<config, app, held, inited, threads, streams>>
        /\ tpc' # "idle" => tpc # "idle" \/ task.workers > 0
        /\ ypc' # "idle" => ypc # "idle" \/ sync.workers > 0
    BY DEF OutCaps, taskVars, syncVars, history
  <2>2. OwnInv /\ ~Orphans
    BY <1>5, <2>1, SameElement DEF LifeInv, Orphans
  <2>3. (state = "paused" /\ apc = "idle")
          \/ ((TaskQuiet => TaskQuiet') /\ (SyncQuiet => SyncQuiet'))
    BY <1>0, <2>1 DEF OutCaps, NoOutCaps, Seats, TaskQuiet, SyncQuiet, threads, taskVars, syncVars
  <2> QED BY <1>0, <2>1, <2>2, <2>3, OneWorker, OwnKept
<1> QED BY <1>1, <1>2, <1>3, <1>5 DEF LifeInv, SeatsInv

LEMMA LifeChain == LifeInv /\ Chain => LifeInv'
<1> SUFFICES ASSUME LifeInv, Chain PROVE LifeInv'
  OBVIOUS
<1>0. TypeOK /\ Seats /\ WorkersInv /\ UNCHANGED config
  BY DEF LifeInv, SeatsInv, Chain
<1>1. TypeOK'
  <2>1. /\ (kind \in Kinds /\ hardware \in BOOLEAN /\ hevc \in BOOLEAN)'
        /\ AppType' /\ HeldType' /\ ThreadsType' /\ InitsType' /\ HistoryType'
    <3>1. UNCHANGED <<app, held, inited, threads, spc, initing, history>>
      BY DEF Chain, app, threads, initing, history
    <3> QED BY <1>0, <3>1, KeptTypes
  <2>2. QueuesType'
    <3>1. /\ taskQ' = taskQ \/ (taskQ' = Append(taskQ, "buffer") /\ Len(taskQ) < MaxTasks)
          /\ UNCHANGED <<tpc, syncQ, ypc>>
      BY DEF Chain, syncVars
    <3> QED BY <1>0, <3>1, TypeParts, BoundsAssumption DEF QueuesType
  <2>3. FlagsType'
    BY <1>0, TypeParts
    DEF Chain, Streaming, Accepts, FlagsType, events, signals
  <2> QED BY <2>1, <2>2, <2>3, TypePartsNext
<1>6. held' \subseteq Mine
  BY <1>0
  DEF Seats, Chain
<1>2. Seats'
  <2>1. /\ UNCHANGED <<config, app, initing>>
        /\ tpc' = "init" <=> tpc = "init"
        /\ tpc' = "fill" => tpc = "fill" \/ kind = "vdec"
        /\ spc' = spc \/ (spc = "outCaps" /\ spc' = "idle")
    BY DEF Chain, taskVars
  <2> QED BY <1>0, <1>6, <2>1, SeatsKept
<1>3. WorkersInv'
  <2>1. /\ UNCHANGED <<config, inited, threads, initing, streams, state, begun, held>>
        /\ refused => refused'
        /\ spc' = spc \/ spc' = "idle"
    BY DEF Chain, app, events, signals, history
  <2> QED BY <1>0, <2>1, WorkersKept
<1>5. ASSUME ~Orphans' PROVE OwnInv'
  <2>1. /\ UNCHANGED <<config, app, held, inited, threads, streams>>
        /\ tpc' # "idle" => tpc # "idle" \/ task.workers > 0
        /\ ypc' # "idle" => ypc # "idle" \/ sync.workers > 0
    BY DEF Chain, taskVars, syncVars, history
  <2>2. OwnInv /\ ~Orphans
    BY <1>5, <2>1, SameElement DEF LifeInv, Orphans
  <2>3. (state = "paused" /\ apc = "idle")
          \/ ((TaskQuiet => TaskQuiet') /\ (SyncQuiet => SyncQuiet'))
    BY <1>0, <2>1 DEF Chain, Streaming, Seats, TaskQuiet, SyncQuiet, threads, taskVars, syncVars
  <2> QED BY <1>0, <2>1, <2>2, <2>3, OneWorker, OwnKept
<1> QED BY <1>1, <1>2, <1>3, <1>5 DEF LifeInv, SeatsInv

LEMMA LifeEos == LifeInv /\ Eos => LifeInv'
<1> SUFFICES ASSUME LifeInv, Eos PROVE LifeInv'
  OBVIOUS
<1>0. TypeOK /\ Seats /\ WorkersInv /\ UNCHANGED config
  BY DEF LifeInv, SeatsInv, Eos
<1>1. TypeOK'
  <2>1. /\ (kind \in Kinds /\ hardware \in BOOLEAN /\ hevc \in BOOLEAN)'
        /\ AppType' /\ HeldType' /\ ThreadsType' /\ InitsType' /\ HistoryType'
    <3>1. UNCHANGED <<app, held, inited, threads, spc, initing, history>>
      BY DEF Eos, app, threads, initing, history
    <3> QED BY <1>0, <3>1, KeptTypes
  <2>2. QueuesType'
    <3>1. /\ taskQ' = taskQ \/ (taskQ' = Append(taskQ, "eos") /\ Len(taskQ) < MaxTasks)
          /\ UNCHANGED <<tpc, syncQ, ypc>>
      BY DEF Eos, syncVars
    <3>2. QueuesType
      BY <1>0, TypeParts
    <3> QED BY <3>1, <3>2, BoundsAssumption DEF QueuesType
  <2>3. FlagsType'
    BY <1>0, TypeParts
    DEF Eos, Streaming, Accepts, FlagsType, events, signals
  <2> QED BY <2>1, <2>2, <2>3, TypePartsNext
<1>6. held' \subseteq Mine
  BY <1>0
  DEF Seats, Eos
<1>2. Seats'
  <2>1. /\ UNCHANGED <<config, app, initing>>
        /\ tpc' = "init" <=> tpc = "init"
        /\ tpc' = "fill" => tpc = "fill" \/ kind = "vdec"
        /\ spc' = spc \/ (spc = "outCaps" /\ spc' = "idle")
    BY DEF Eos, taskVars
  <2> QED BY <1>0, <1>6, <2>1, SeatsKept
<1>3. WorkersInv'
  <2>1. /\ UNCHANGED <<config, inited, threads, initing, streams, state, begun, held>>
        /\ refused => refused'
        /\ spc' = spc \/ spc' = "idle"
    BY DEF Eos, app, events, signals, history
  <2> QED BY <1>0, <2>1, WorkersKept
<1>5. ASSUME ~Orphans' PROVE OwnInv'
  <2>1. /\ UNCHANGED <<config, app, held, inited, threads, streams>>
        /\ tpc' # "idle" => tpc # "idle" \/ task.workers > 0
        /\ ypc' # "idle" => ypc # "idle" \/ sync.workers > 0
    BY DEF Eos, taskVars, syncVars, history
  <2>2. OwnInv /\ ~Orphans
    BY <1>5, <2>1, SameElement DEF LifeInv, Orphans
  <2>3. (state = "paused" /\ apc = "idle")
          \/ ((TaskQuiet => TaskQuiet') /\ (SyncQuiet => SyncQuiet'))
    BY <1>0, <2>1 DEF Eos, Streaming, Seats, TaskQuiet, SyncQuiet, threads, taskVars, syncVars
  <2> QED BY <1>0, <2>1, <2>2, <2>3, OneWorker, OwnKept
<1> QED BY <1>1, <1>2, <1>3, <1>5 DEF LifeInv, SeatsInv

LEMMA LifeTakeTask == LifeInv /\ TakeTask => LifeInv'
<1> SUFFICES ASSUME LifeInv, TakeTask PROVE LifeInv'
  OBVIOUS
<1>0. TypeOK /\ Seats /\ WorkersInv /\ UNCHANGED config
  BY DEF LifeInv, SeatsInv, TakeTask
<1>1. TypeOK'
  <2>1. /\ (kind \in Kinds /\ hardware \in BOOLEAN /\ hevc \in BOOLEAN)'
        /\ AppType' /\ HeldType' /\ ThreadsType' /\ InitsType' /\ FlagsType' /\ HistoryType'
    <3>1. UNCHANGED <<app, held, inited, threads, spc, initing, events, signals, history>>
      BY DEF TakeTask, app, threads, initing, events, signals, history
    <3> QED BY <1>0, <3>1, KeptTypes
  <2>2. QueuesType'
    BY <1>0, TypeParts, BoundsAssumption
    DEF TakeTask, QueuesType, taskVars, syncVars
  <2> QED BY <2>1, <2>2, TypePartsNext
<1>6. held' \subseteq Mine
  BY <1>0
  DEF Seats, TakeTask
<1>2. Seats'
  <2>1. /\ UNCHANGED <<config, app, initing>>
        /\ tpc' = "init" <=> tpc = "init"
        /\ tpc' = "fill" => tpc = "fill" \/ kind = "vdec"
        /\ spc' = spc \/ (spc = "outCaps" /\ spc' = "idle")
    BY DEF TakeTask, taskVars
  <2> QED BY <1>0, <1>6, <2>1, SeatsKept
<1>3. WorkersInv'
  <2>1. /\ UNCHANGED <<config, inited, threads, initing, streams, state, begun, held>>
        /\ refused => refused'
        /\ spc' = spc \/ spc' = "idle"
    BY DEF TakeTask, app, events, signals, history
  <2> QED BY <1>0, <2>1, WorkersKept
<1>5. ASSUME ~Orphans' PROVE OwnInv'
  <2>1. /\ UNCHANGED <<config, app, held, inited, threads, streams>>
        /\ tpc' # "idle" => tpc # "idle" \/ task.workers > 0
        /\ ypc' # "idle" => ypc # "idle" \/ sync.workers > 0
    BY DEF TakeTask, taskVars, syncVars, history
  <2>2. OwnInv /\ ~Orphans
    BY <1>5, <2>1, SameElement DEF LifeInv, Orphans
  <2>3. (state = "paused" /\ apc = "idle")
          \/ ((TaskQuiet => TaskQuiet') /\ (SyncQuiet => SyncQuiet'))
    BY <1>0, <2>1 DEF TakeTask, Seats, TaskQuiet, SyncQuiet, threads, taskVars, syncVars
  <2> QED BY <1>0, <2>1, <2>2, <2>3, OneWorker, OwnKept
<1> QED BY <1>1, <1>2, <1>3, <1>5 DEF LifeInv, SeatsInv

LEMMA LifeFillVideoParams == LifeInv /\ FillVideoParams => LifeInv'
<1> SUFFICES ASSUME LifeInv, FillVideoParams PROVE LifeInv'
  OBVIOUS
<1>0. TypeOK /\ Seats /\ WorkersInv /\ UNCHANGED config
  BY DEF LifeInv, SeatsInv, FillVideoParams
<1>1. TypeOK'
  <2>1. /\ (kind \in Kinds /\ hardware \in BOOLEAN /\ hevc \in BOOLEAN)'
        /\ AppType' /\ HeldType' /\ ThreadsType' /\ FlagsType'
    <3>1. UNCHANGED <<app, held, inited, threads, events, signals>>
      BY DEF FillVideoParams, app, threads, events, signals
    <3> QED BY <1>0, <3>1, KeptTypes
  <2>2. QueuesType'
    BY <1>0, TypeParts, BoundsAssumption
    DEF FillVideoParams, Enter, Failed, MayFail, QueuesType, taskVars, syncVars
  <2>3. InitsType'
    BY <1>0, TypeParts, BoundsAssumption
    DEF FillVideoParams, Enter, Failed, MayFail, InitsType, initing, Callers
  <2>4. HistoryType'
    BY <1>0, TypeParts, BoundsAssumption
    DEF FillVideoParams, Enter, Failed, MayFail, HistoryType, history
  <2> QED BY <2>1, <2>2, <2>3, <2>4, TypePartsNext
<1>6. held' \subseteq Mine
  BY <1>0
  DEF Seats, FillVideoParams
<1>2. Seats'
  <2>1. CASE tpc' = "init" /\ Enter("task")
    BY <1>0, <1>6, <2>1, Entered, SameElement, Positions
    DEF Seats, FillVideoParams, Callers, app, taskVars, initing
  <2>2. CASE tpc' = "idle" /\ UNCHANGED initing
    BY <1>0, <1>6, <2>2, SameElement, Positions
    DEF Seats, FillVideoParams, Callers, app, taskVars, initing
  <2> QED BY <2>1, <2>2 DEF FillVideoParams, initing
<1>3. WorkersInv'
  BY <1>0, SameElement, Positions, BoundsAssumption
  DEF LifeInv, OwnInv, Orphans, TaskQuiet, SyncQuiet, WorkersInv, DecoderWorkers,
      OtherWorkers, Seats, TypeOK, FillVideoParams, Enter, Failed, MayFail, Threads,
      Callers, app, threads, taskVars, syncVars, initing, events, signals, history
<1>5. ~Orphans' => OwnInv'
  BY <1>0, SameElement
  DEF LifeInv, OwnInv, Orphans, TaskQuiet, SyncQuiet, BaseUndo, Resources, WorkersInv,
      DecoderWorkers, OtherWorkers, Seats, TypeOK, FillVideoParams, Enter, Failed,
      MayFail, Threads, Callers, app, threads, taskVars, syncVars, initing, events,
      signals, history
<1> QED BY <1>1, <1>2, <1>3, <1>5 DEF LifeInv, SeatsInv

LEMMA LifeProcessed == LifeInv /\ Processed => LifeInv'
<1> SUFFICES ASSUME LifeInv, Processed PROVE LifeInv'
  OBVIOUS
<1>0. TypeOK /\ Seats /\ WorkersInv /\ UNCHANGED config
  BY DEF LifeInv, SeatsInv, Processed
<1>1. TypeOK'
  <2>1. /\ (kind \in Kinds /\ hardware \in BOOLEAN /\ hevc \in BOOLEAN)'
        /\ AppType' /\ HeldType' /\ ThreadsType' /\ InitsType' /\ FlagsType' /\ HistoryType'
    <3>1. UNCHANGED <<app, held, inited, threads, spc, initing, events, signals, history>>
      BY DEF Processed, app, threads, initing, events, signals, history
    <3> QED BY <1>0, <3>1, KeptTypes
  <2>2. QueuesType'
    <3>1. /\ syncQ' = syncQ \/ syncQ' = Append(syncQ, "op")
          /\ tpc' = "idle" /\ UNCHANGED <<taskQ, ypc>>
      BY DEF Processed, PostSync
    <3>2. QueuesType
      BY <1>0, TypeParts
    <3> QED BY <3>1, <3>2 DEF QueuesType
  <2> QED BY <2>1, <2>2, TypePartsNext
<1>6. held' \subseteq Mine
  BY <1>0
  DEF Seats, Processed
<1>2. Seats'
  <2>1. /\ UNCHANGED <<config, app, initing>>
        /\ tpc' = "init" <=> tpc = "init"
        /\ tpc' = "fill" => tpc = "fill" \/ kind = "vdec"
        /\ spc' = spc \/ (spc = "outCaps" /\ spc' = "idle")
    BY DEF Processed, taskVars
  <2> QED BY <1>0, <1>6, <2>1, SeatsKept
<1>3. WorkersInv'
  <2>1. /\ UNCHANGED <<config, inited, threads, initing, streams, state, begun, held>>
        /\ refused => refused'
        /\ spc' = spc \/ spc' = "idle"
    BY DEF Processed, app, events, signals, history
  <2> QED BY <1>0, <2>1, WorkersKept
<1>5. ASSUME ~Orphans' PROVE OwnInv'
  <2>1. /\ UNCHANGED <<config, app, held, inited, threads, streams>>
        /\ tpc' # "idle" => tpc # "idle" \/ task.workers > 0
        /\ ypc' # "idle" => ypc # "idle" \/ sync.workers > 0
    BY DEF Processed, taskVars, syncVars, history
  <2>2. OwnInv /\ ~Orphans
    BY <1>5, <2>1, SameElement DEF LifeInv, Orphans
  <2>3. (state = "paused" /\ apc = "idle")
          \/ ((TaskQuiet => TaskQuiet') /\ (SyncQuiet => SyncQuiet'))
    BY <1>0, <2>1 DEF Processed, PostSync, Accepts, Seats, TaskQuiet, SyncQuiet, threads, taskVars, syncVars
  <2> QED BY <1>0, <2>1, <2>2, <2>3, OneWorker, OwnKept
<1> QED BY <1>1, <1>2, <1>3, <1>5 DEF LifeInv, SeatsInv

LEMMA LifeDrained == LifeInv /\ Drained => LifeInv'
<1> SUFFICES ASSUME LifeInv, Drained PROVE LifeInv'
  OBVIOUS
<1>0. TypeOK /\ Seats /\ WorkersInv /\ UNCHANGED config
  BY DEF LifeInv, SeatsInv, Drained
<1>1. TypeOK'
  <2>1. /\ (kind \in Kinds /\ hardware \in BOOLEAN /\ hevc \in BOOLEAN)'
        /\ AppType' /\ HeldType' /\ ThreadsType' /\ InitsType' /\ HistoryType'
    <3>1. UNCHANGED <<app, held, inited, threads, spc, initing, history>>
      BY DEF Drained, app, threads, initing, history
    <3> QED BY <1>0, <3>1, KeptTypes
  <2>2. QueuesType'
    <3>1. /\ syncQ' = syncQ \/ syncQ' = Append(syncQ, "eos")
          /\ tpc' = "idle" /\ UNCHANGED <<taskQ, ypc>>
      BY DEF Drained, PostSync
    <3>2. QueuesType
      BY <1>0, TypeParts
    <3> QED BY <3>1, <3>2 DEF QueuesType
  <2>3. FlagsType'
    BY <1>0, TypeParts
    DEF Drained, PostSync, Accepts, FlagsType, events, signals
  <2> QED BY <2>1, <2>2, <2>3, TypePartsNext
<1>6. held' \subseteq Mine
  BY <1>0
  DEF Seats, Drained
<1>2. Seats'
  <2>1. /\ UNCHANGED <<config, app, initing>>
        /\ tpc' = "init" <=> tpc = "init"
        /\ tpc' = "fill" => tpc = "fill" \/ kind = "vdec"
        /\ spc' = spc \/ (spc = "outCaps" /\ spc' = "idle")
    BY DEF Drained, taskVars
  <2> QED BY <1>0, <1>6, <2>1, SeatsKept
<1>3. WorkersInv'
  <2>1. /\ UNCHANGED <<config, inited, threads, initing, streams, state, begun, held>>
        /\ refused => refused'
        /\ spc' = spc \/ spc' = "idle"
    BY DEF Drained, app, events, signals, history
  <2> QED BY <1>0, <2>1, WorkersKept
<1>5. ASSUME ~Orphans' PROVE OwnInv'
  <2>1. /\ UNCHANGED <<config, app, held, inited, threads, streams>>
        /\ tpc' # "idle" => tpc # "idle" \/ task.workers > 0
        /\ ypc' # "idle" => ypc # "idle" \/ sync.workers > 0
    BY DEF Drained, taskVars, syncVars, history
  <2>2. OwnInv /\ ~Orphans
    BY <1>5, <2>1, SameElement DEF LifeInv, Orphans
  <2>3. (state = "paused" /\ apc = "idle")
          \/ ((TaskQuiet => TaskQuiet') /\ (SyncQuiet => SyncQuiet'))
    BY <1>0, <2>1 DEF Drained, PostSync, Accepts, Seats, TaskQuiet, SyncQuiet, threads, taskVars, syncVars
  <2> QED BY <1>0, <2>1, <2>2, <2>3, OneWorker, OwnKept
<1> QED BY <1>1, <1>2, <1>3, <1>5 DEF LifeInv, SeatsInv

LEMMA LifeTakeSync == LifeInv /\ TakeSync => LifeInv'
<1> SUFFICES ASSUME LifeInv, TakeSync PROVE LifeInv'
  OBVIOUS
<1>0. TypeOK /\ Seats /\ WorkersInv /\ UNCHANGED config
  BY DEF LifeInv, SeatsInv, TakeSync
<1>1. TypeOK'
  <2>1. /\ (kind \in Kinds /\ hardware \in BOOLEAN /\ hevc \in BOOLEAN)'
        /\ AppType' /\ HeldType' /\ ThreadsType' /\ InitsType' /\ HistoryType'
    <3>1. UNCHANGED <<app, held, inited, threads, spc, initing, history>>
      BY DEF TakeSync, app, threads, initing, history
    <3> QED BY <1>0, <3>1, KeptTypes
  <2>2. QueuesType'
    BY <1>0, TypeParts, BoundsAssumption
    DEF TakeSync, QueuesType, taskVars, syncVars
  <2>3. FlagsType'
    BY <1>0, TypeParts
    DEF TakeSync, FlagsType, events, signals
  <2> QED BY <2>1, <2>2, <2>3, TypePartsNext
<1>6. held' \subseteq Mine
  BY <1>0
  DEF Seats, TakeSync
<1>2. Seats'
  <2>1. /\ UNCHANGED <<config, app, initing>>
        /\ tpc' = "init" <=> tpc = "init"
        /\ tpc' = "fill" => tpc = "fill" \/ kind = "vdec"
        /\ spc' = spc \/ (spc = "outCaps" /\ spc' = "idle")
    BY DEF TakeSync, taskVars
  <2> QED BY <1>0, <1>6, <2>1, SeatsKept
<1>3. WorkersInv'
  <2>1. /\ UNCHANGED <<config, inited, threads, initing, streams, state, begun, held>>
        /\ refused => refused'
        /\ spc' = spc \/ spc' = "idle"
    BY DEF TakeSync, app, events, signals, history
  <2> QED BY <1>0, <2>1, WorkersKept
<1>5. ASSUME ~Orphans' PROVE OwnInv'
  <2>1. /\ UNCHANGED <<config, app, held, inited, threads, streams>>
        /\ tpc' # "idle" => tpc # "idle" \/ task.workers > 0
        /\ ypc' # "idle" => ypc # "idle" \/ sync.workers > 0
    BY DEF TakeSync, taskVars, syncVars, history
  <2>2. OwnInv /\ ~Orphans
    BY <1>5, <2>1, SameElement DEF LifeInv, Orphans
  <2>3. (state = "paused" /\ apc = "idle")
          \/ ((TaskQuiet => TaskQuiet') /\ (SyncQuiet => SyncQuiet'))
    BY <1>0, <2>1 DEF TakeSync, Seats, TaskQuiet, SyncQuiet, threads, taskVars, syncVars
  <2> QED BY <1>0, <2>1, <2>2, <2>3, OneWorker, OwnKept
<1> QED BY <1>1, <1>2, <1>3, <1>5 DEF LifeInv, SeatsInv

LEMMA LifeSynced == LifeInv /\ Synced => LifeInv'
<1> SUFFICES ASSUME LifeInv, Synced PROVE LifeInv'
  OBVIOUS
<1>0. TypeOK /\ Seats /\ WorkersInv /\ UNCHANGED config
  BY DEF LifeInv, SeatsInv, Synced
<1>1. TypeOK'
  <2>1. /\ (kind \in Kinds /\ hardware \in BOOLEAN /\ hevc \in BOOLEAN)'
        /\ AppType' /\ HeldType' /\ ThreadsType' /\ InitsType' /\ FlagsType' /\ HistoryType'
    <3>1. UNCHANGED <<app, held, inited, threads, spc, initing, events, signals, history>>
      BY DEF Synced, app, threads, initing, events, signals, history
    <3> QED BY <1>0, <3>1, KeptTypes
  <2>2. QueuesType'
    BY <1>0, TypeParts, BoundsAssumption
    DEF Synced, QueuesType, taskVars, syncVars
  <2> QED BY <2>1, <2>2, TypePartsNext
<1>6. held' \subseteq Mine
  BY <1>0
  DEF Seats, Synced
<1>2. Seats'
  <2>1. /\ UNCHANGED <<config, app, initing>>
        /\ tpc' = "init" <=> tpc = "init"
        /\ tpc' = "fill" => tpc = "fill" \/ kind = "vdec"
        /\ spc' = spc \/ (spc = "outCaps" /\ spc' = "idle")
    BY DEF Synced, taskVars
  <2> QED BY <1>0, <1>6, <2>1, SeatsKept
<1>3. WorkersInv'
  <2>1. /\ UNCHANGED <<config, inited, threads, initing, streams, state, begun, held>>
        /\ refused => refused'
        /\ spc' = spc \/ spc' = "idle"
    BY DEF Synced, app, events, signals, history
  <2> QED BY <1>0, <2>1, WorkersKept
<1>5. ASSUME ~Orphans' PROVE OwnInv'
  <2>1. /\ UNCHANGED <<config, app, held, inited, threads, streams>>
        /\ tpc' # "idle" => tpc # "idle" \/ task.workers > 0
        /\ ypc' # "idle" => ypc # "idle" \/ sync.workers > 0
    BY DEF Synced, taskVars, syncVars, history
  <2>2. OwnInv /\ ~Orphans
    BY <1>5, <2>1, SameElement DEF LifeInv, Orphans
  <2>3. (state = "paused" /\ apc = "idle")
          \/ ((TaskQuiet => TaskQuiet') /\ (SyncQuiet => SyncQuiet'))
    BY <1>0, <2>1 DEF Synced, Seats, TaskQuiet, SyncQuiet, threads, taskVars, syncVars
  <2> QED BY <1>0, <2>1, <2>2, <2>3, OneWorker, OwnKept
<1> QED BY <1>1, <1>2, <1>3, <1>5 DEF LifeInv, SeatsInv

LEMMA LifePausedToReady == LifeInv /\ PausedToReady => LifeInv'
<1> SUFFICES ASSUME LifeInv, PausedToReady PROVE LifeInv'
  OBVIOUS
<1>0. TypeOK /\ Seats /\ WorkersInv /\ UNCHANGED config
  BY DEF LifeInv, SeatsInv, PausedToReady
<1>1. TypeOK'
  <2>1. /\ (kind \in Kinds /\ hardware \in BOOLEAN /\ hevc \in BOOLEAN)'
        /\ HeldType' /\ ThreadsType' /\ QueuesType' /\ InitsType' /\ FlagsType' /\ HistoryType'
    <3>1. UNCHANGED <<held, inited, threads, taskVars, syncVars, spc, initing, events, signals, history>>
      BY DEF PausedToReady, threads, taskVars, syncVars, initing, events, signals, history
    <3> QED BY <1>0, <3>1, KeptTypes
  <2>2. AppType'
    BY <1>0, TypeParts, BoundsAssumption, Positions
    DEF PausedToReady, AppType, app, Seats
  <2> QED BY <2>1, <2>2, TypePartsNext
<1>6. held' \subseteq Mine
  BY <1>0
  DEF Seats, PausedToReady
<1>2. Seats'
  BY <1>0, <1>6, SameElement, Positions, BoundsAssumption
  DEF Seats, TypeOK, PausedToReady, Threads, Callers, app, threads, taskVars, syncVars,
      initing, events, signals, history
<1>3. WorkersInv'
  <2>1. /\ UNCHANGED <<config, inited, threads, initing, streams, begun, refused, held, spc>>
        /\ state' = "paused" => state = "paused"
    BY DEF PausedToReady, events, signals, history
  <2> QED BY <1>0, <2>1, WorkersKept
<1>5. ~Orphans' => OwnInv'
  BY <1>0, SameElement
  DEF LifeInv, OwnInv, Orphans, TaskQuiet, SyncQuiet, BaseUndo, Resources, WorkersInv,
      DecoderWorkers, OtherWorkers, Seats, TypeOK, PausedToReady, Threads, Callers, app,
      threads, taskVars, syncVars, initing, events, signals, history
<1> QED BY <1>1, <1>2, <1>3, <1>5 DEF LifeInv, SeatsInv

LEMMA LifeFlushed == LifeInv /\ Flushed => LifeInv'
<1> SUFFICES ASSUME LifeInv, Flushed PROVE LifeInv'
  OBVIOUS
<1>0. TypeOK /\ Seats /\ WorkersInv /\ UNCHANGED config
  BY DEF LifeInv, SeatsInv, Flushed
<1>1. TypeOK'
  <2>1. /\ (kind \in Kinds /\ hardware \in BOOLEAN /\ hevc \in BOOLEAN)'
        /\ HeldType' /\ ThreadsType' /\ QueuesType' /\ InitsType' /\ FlagsType' /\ HistoryType'
    <3>1. UNCHANGED <<held, inited, threads, taskVars, syncVars, spc, initing, events, signals, history>>
      BY DEF Flushed, threads, taskVars, syncVars, initing, events, signals, history
    <3> QED BY <1>0, <3>1, KeptTypes
  <2>2. AppType'
    BY <1>0, TypeParts, BoundsAssumption, Positions
    DEF Flushed, AppType, app, Seats
  <2> QED BY <2>1, <2>2, TypePartsNext
<1>6. held' \subseteq Mine
  BY <1>0
  DEF Seats, Flushed
<1>2. Seats'
  BY <1>0, <1>6, SameElement, Positions, BoundsAssumption
  DEF Seats, TypeOK, Flushed, Threads, Callers, app, threads, taskVars, syncVars, initing,
      events, signals, history
<1>3. WorkersInv'
  <2>1. /\ UNCHANGED <<config, inited, threads, initing, streams, begun, refused, held, spc>>
        /\ state' = "paused" => state = "paused"
    BY DEF Flushed, events, signals, history
  <2> QED BY <1>0, <2>1, WorkersKept
<1>5. ~Orphans' => OwnInv'
  BY <1>0, SameElement
  DEF LifeInv, OwnInv, Orphans, TaskQuiet, SyncQuiet, BaseUndo, Resources, WorkersInv,
      DecoderWorkers, OtherWorkers, Seats, TypeOK, Flushed, Threads, Callers, app,
      threads, taskVars, syncVars, initing, events, signals, history
<1> QED BY <1>1, <1>2, <1>3, <1>5 DEF LifeInv, SeatsInv

LEMMA LifeReadyToNull == LifeInv /\ ReadyToNull => LifeInv'
<1> SUFFICES ASSUME LifeInv, ReadyToNull PROVE LifeInv'
  OBVIOUS
<1>0. TypeOK /\ Seats /\ WorkersInv /\ UNCHANGED config
  BY DEF LifeInv, SeatsInv, ReadyToNull
<1>1. TypeOK'
  <2>1. /\ (kind \in Kinds /\ hardware \in BOOLEAN /\ hevc \in BOOLEAN)'
        /\ HeldType' /\ ThreadsType' /\ QueuesType' /\ InitsType' /\ FlagsType' /\ HistoryType'
    <3>1. UNCHANGED <<held, inited, threads, taskVars, syncVars, spc, initing, events, signals, history>>
      BY DEF ReadyToNull, threads, taskVars, syncVars, initing, events, signals, history
    <3> QED BY <1>0, <3>1, KeptTypes
  <2>2. AppType'
    BY <1>0, TypeParts, BoundsAssumption, Positions
    DEF ReadyToNull, AppType, app, Seats
  <2> QED BY <2>1, <2>2, TypePartsNext
<1>6. held' \subseteq Mine
  BY <1>0
  DEF Seats, ReadyToNull
<1>2. Seats'
  BY <1>0, <1>6, SameElement, Positions, BoundsAssumption
  DEF Seats, TypeOK, ReadyToNull, Threads, Callers, app, threads, taskVars, syncVars,
      initing, events, signals, history
<1>3. WorkersInv'
  <2>1. /\ UNCHANGED <<config, inited, threads, initing, streams, begun, refused, held, spc>>
        /\ state' = "paused" => state = "paused"
    BY DEF ReadyToNull, events, signals, history
  <2> QED BY <1>0, <2>1, WorkersKept
<1>5. ~Orphans' => OwnInv'
  BY <1>0, SameElement
  DEF LifeInv, OwnInv, Orphans, TaskQuiet, SyncQuiet, BaseUndo, Resources, WorkersInv,
      DecoderWorkers, OtherWorkers, Seats, TypeOK, ReadyToNull, Threads, Callers, app,
      threads, taskVars, syncVars, initing, events, signals, history
<1> QED BY <1>1, <1>2, <1>3, <1>5 DEF LifeInv, SeatsInv

-----------------------------------------------------------------------------
(* The steps of Init().                                                    *)

NextInit(c) == InitOrder[istep[c]]
NextUndo(c) == InitUndoOrder[istep[c]]

\* Where the other caller is stays as it is.
OtherStays(c) == \A d \in Callers \ {c} : ipc'[d] = ipc[d] /\ istep'[d] = istep[d]
InitsTyped == ipc' \in [Callers -> {"no", "do", "undo"}] /\ istep' \in [Callers -> 0 .. 6]

\* One step on, or the end of the function.
LEMMA InitStepIs ==
  ASSUME SeatsInv, NEW c \in Callers, InitStep(c)
  PROVE  /\ ipc[c] = "do" /\ istep[c] \in 1 .. InitLen /\ Possible(NextInit(c))
         /\ NextInit(c) \in InitFaults /\ (NextInit(c) = "plugin" => kind = "venc")
         /\ NextInit(c) = "init" <=> istep[c] = InitAt
         /\ NextInit(c) = "pool" <=> istep[c] = PoolAt
         /\ held' = held \cup ({NextInit(c)} \cap Resources)
         /\ inited' = (inited \/ NextInit(c) = "init")
         /\ OtherStays(c) /\ InitsTyped
         /\ istep[c] = InitLen => ipc'[c] = "no"
         /\ istep[c] = InitLen /\ c = "stream" =>
              spc' = (IF kind = "vdec" THEN "outCaps" ELSE "start")
         /\ istep[c] = InitLen /\ c = "task" => tpc' = "using"
         /\ istep[c] # InitLen =>
              ipc'[c] = "do" /\ istep'[c] = istep[c] + 1 /\ UNCHANGED <<spc, tpc>>
         /\ c # "stream" => UNCHANGED spc
         /\ c # "task" => UNCHANGED tpc
         /\ UNCHANGED <<config, app, threads, taskQ, syncVars, events, signals, history>>
<1>1. ipc[c] = "do" /\ istep[c] \in 1 .. InitLen /\ Len(InitOrder) = InitLen
  BY InitOrderIs DEF SeatsInv, Seats, InitStep
<1>2. /\ Possible(NextInit(c)) /\ held' = held \cup ({NextInit(c)} \cap Resources)
      /\ inited' = (inited \/ NextInit(c) = "init")
      /\ UNCHANGED <<config, app, threads, taskQ, syncVars, events, signals, history>>
  BY DEF InitStep, NextInit
<1>3. /\ NextInit(c) \in InitFaults /\ (NextInit(c) = "plugin" => kind = "venc")
      /\ NextInit(c) = "init" <=> istep[c] = InitAt
      /\ NextInit(c) = "pool" <=> istep[c] = PoolAt
  BY <1>1, InitOrderIs DEF NextInit
<1>4. OtherStays(c) /\ InitsTyped
  <2>1. istep[c] + 1 \in 0 .. 6
    BY <1>1, Positions
  <2>2. /\ ipc' = [ipc EXCEPT ![c] = "no"] \/ ipc' = [ipc EXCEPT ![c] = "do"]
        /\ istep' = [istep EXCEPT ![c] = 0] \/ istep' = [istep EXCEPT ![c] = istep[c] + 1]
    BY DEF InitStep
  <2>3. ipc \in [Callers -> {"no", "do", "undo"}] /\ istep \in [Callers -> 0 .. 6]
    BY DEF SeatsInv, TypeOK
  <2>4. /\ ipc' \in [Callers -> {"no", "do", "undo"}]
        /\ \A d \in Callers \ {c} : ipc'[d] = ipc[d]
    BY <2>2, <2>3
  <2>5. /\ istep' \in [Callers -> 0 .. 6]
        /\ \A d \in Callers \ {c} : istep'[d] = istep[d]
    BY <2>1, <2>2, <2>3
  <2> QED BY <2>4, <2>5 DEF OtherStays, InitsTyped
<1>5. CASE istep[c] = InitLen
  <2>1. ipc' = [ipc EXCEPT ![c] = "no"]
    BY <1>1, <1>5 DEF InitStep
  <2>2. ipc'[c] = "no"
    BY <2>1 DEF SeatsInv, TypeOK
  <2>3. /\ spc' = IF c = "stream" THEN IF kind = "vdec" THEN "outCaps" ELSE "start" ELSE spc
        /\ tpc' = IF c = "task" THEN "using" ELSE tpc
    BY <1>1, <1>5 DEF InitStep
  <2> QED BY <1>1, <1>2, <1>3, <1>4, <1>5, <2>2, <2>3
<1>6. CASE istep[c] # InitLen
  <2>1. /\ ipc' = [ipc EXCEPT ![c] = "do"] /\ istep' = [istep EXCEPT ![c] = istep[c] + 1]
        /\ UNCHANGED <<spc, tpc>>
    BY <1>1, <1>6 DEF InitStep
  <2>2. ipc'[c] = "do" /\ istep'[c] = istep[c] + 1
    BY <2>1 DEF SeatsInv, TypeOK
  <2> QED BY <1>1, <1>2, <1>3, <1>4, <1>6, <2>1, <2>2
<1> QED BY <1>5, <1>6

LEMMA InitFailIs ==
  ASSUME SeatsInv, NEW c \in Callers, InitFail(c)
  PROVE  /\ ipc[c] = "do" /\ istep[c] \in 1 .. InitLen
         /\ NextInit(c) \in InitFaults /\ (NextInit(c) = "plugin" => kind = "venc")
         /\ NextInit(c) = "init" <=> istep[c] = InitAt
         /\ NextInit(c) = "pool" <=> istep[c] = PoolAt
         /\ ipc'[c] = "undo" /\ istep'[c] = 1
         /\ OtherStays(c) /\ InitsTyped
         /\ failures \subseteq failures' /\ failures' \subseteq Faults
         /\ NextInit(c) \in failures' \/ (~Possible(NextInit(c)) /\ UNCHANGED failures)
         /\ UNCHANGED <<config, app, held, inited, threads, taskVars, syncVars, spc, events,
                        signals, lives, streams, caps>>
<1>1. ipc[c] = "do" /\ istep[c] \in 1 .. InitLen
  BY DEF SeatsInv, Seats, InitFail
<1>2. /\ NextInit(c) \in InitFaults /\ (NextInit(c) = "plugin" => kind = "venc")
      /\ NextInit(c) = "init" <=> istep[c] = InitAt
      /\ NextInit(c) = "pool" <=> istep[c] = PoolAt
  BY <1>1, InitOrderIs DEF NextInit
<1>3. /\ ipc'[c] = "undo" /\ istep'[c] = 1 /\ OtherStays(c) /\ InitsTyped
  BY DEF InitFail, SeatsInv, TypeOK, OtherStays, InitsTyped
<1>4. /\ failures \subseteq failures' /\ failures' \subseteq Faults
      /\ NextInit(c) \in failures' \/ (~Possible(NextInit(c)) /\ UNCHANGED failures)
  BY DEF InitFail, Failed, MayFail, NextInit, SeatsInv, TypeOK
<1>5. UNCHANGED <<config, app, held, inited, threads, taskVars, syncVars, spc, events,
                  signals, lives, streams, caps>>
  BY DEF InitFail
<1> QED BY <1>1, <1>2, <1>3, <1>4, <1>5

LEMMA InitUndoIs ==
  ASSUME SeatsInv, NEW c \in Callers, InitUndo(c)
  PROVE  /\ ipc[c] = "undo" /\ istep[c] \in 1 .. UndoLen
         /\ held' = held \ {NextUndo(c)} /\ inited' = (inited /\ istep[c] # 2)
         /\ istep[c] = 1 => NextUndo(c) = "pool"
         /\ istep[c] = UndoLen - 1 => NextUndo(c) = "session"
         /\ NextUndo(c) \in {"pool", "close", "plugin", "session", "notify"}
         /\ OtherStays(c) /\ InitsTyped
         /\ istep[c] = UndoLen => ipc'[c] = "no"
         /\ istep[c] = UndoLen /\ c = "stream" => spc' = "idle" /\ ~negotiated'
         /\ istep[c] = UndoLen /\ c = "task" => tpc' = "idle"
         /\ istep[c] # UndoLen =>
              ipc'[c] = "undo" /\ istep'[c] = istep[c] + 1 /\ UNCHANGED <<spc, tpc>>
         /\ c # "stream" => UNCHANGED spc
         /\ c # "task" => UNCHANGED tpc
         /\ refused' \in BOOLEAN /\ negotiated' \in BOOLEAN
         /\ refused => refused'
         /\ negotiated' => negotiated
         /\ UNCHANGED <<config, app, threads, taskQ, syncVars, begun, eosSent, eosOut,
                        history>>
<1>1. ipc[c] = "undo" /\ istep[c] \in 1 .. UndoLen /\ Len(InitUndoOrder) = UndoLen
  BY UndoOrderIs DEF SeatsInv, Seats, InitUndo
<1>2. /\ istep[c] = 1 => NextUndo(c) = "pool"
      /\ istep[c] = UndoLen - 1 => NextUndo(c) = "session"
      /\ NextUndo(c) \in {"pool", "close", "plugin", "session", "notify"}
      /\ NextUndo(c) = "close" <=> istep[c] = 2
  BY <1>1, UndoOrderIs DEF NextUndo
<1>3. /\ held' = held \ {NextUndo(c)} /\ inited' = (inited /\ NextUndo(c) # "close")
      /\ UNCHANGED <<config, app, threads, taskQ, syncVars, begun, eosSent, eosOut, history>>
  BY DEF InitUndo, NextUndo
<1>4. OtherStays(c) /\ InitsTyped
  <2>1. istep[c] + 1 \in 0 .. 6
    BY <1>1, Positions
  <2>2. /\ ipc' = [ipc EXCEPT ![c] = "no"] \/ ipc' = [ipc EXCEPT ![c] = "undo"]
        /\ istep' = [istep EXCEPT ![c] = 0] \/ istep' = [istep EXCEPT ![c] = istep[c] + 1]
    BY DEF InitUndo
  <2>3. ipc \in [Callers -> {"no", "do", "undo"}] /\ istep \in [Callers -> 0 .. 6]
    BY DEF SeatsInv, TypeOK
  <2>4. /\ ipc' \in [Callers -> {"no", "do", "undo"}]
        /\ \A d \in Callers \ {c} : ipc'[d] = ipc[d]
    BY <2>2, <2>3
  <2>5. /\ istep' \in [Callers -> 0 .. 6]
        /\ \A d \in Callers \ {c} : istep'[d] = istep[d]
    BY <2>1, <2>2, <2>3
  <2> QED BY <2>4, <2>5 DEF OtherStays, InitsTyped
<1>5. /\ refused' \in BOOLEAN /\ negotiated' \in BOOLEAN
      /\ refused => refused'
      /\ negotiated' => negotiated
  BY DEF InitUndo
<1>6. CASE istep[c] = UndoLen
  <2>1. ipc' = [ipc EXCEPT ![c] = "no"]
    BY <1>1, <1>6 DEF InitUndo
  <2>2. ipc'[c] = "no"
    BY <2>1 DEF SeatsInv, TypeOK
  <2>3. /\ spc' = IF c = "stream" THEN "idle" ELSE spc
        /\ tpc' = IF c = "task" THEN "idle" ELSE tpc
    BY <1>1, <1>6 DEF InitUndo
  <2>4. c = "stream" => ~negotiated'
    BY <1>1, <1>6 DEF InitUndo
  <2> QED BY <1>1, <1>2, <1>3, <1>4, <1>5, <1>6, <2>2, <2>3, <2>4
<1>7. CASE istep[c] # UndoLen
  <2>1. /\ ipc' = [ipc EXCEPT ![c] = "undo"] /\ istep' = [istep EXCEPT ![c] = istep[c] + 1]
        /\ UNCHANGED <<spc, tpc>>
    BY <1>1, <1>7 DEF InitUndo
  <2>2. ipc'[c] = "undo" /\ istep'[c] = istep[c] + 1
    BY <2>1 DEF SeatsInv, TypeOK
  <2> QED BY <1>1, <1>2, <1>3, <1>4, <1>5, <1>7, <2>1, <2>2
<1> QED BY <1>6, <1>7

-----------------------------------------------------------------------------
(* The steps of Dispose().                                                 *)

NextDispose == DisposeOrder[astep]

LEMMA DisposeStepIs ==
  ASSUME SeatsInv, DisposeStep
  PROVE  /\ apc = "dispose" /\ astep \in 1 .. DisposeLen
         /\ held' = held \ {NextDispose} /\ inited' = (inited /\ astep # 3)
         /\ astep = 3 => NextDispose = "codec"
         /\ astep < 3 => NextDispose \notin Resources
         /\ astep = 1 => /\ task.workers = 1 => tpc = "idle"
                         /\ task' = Stopped(task) /\ taskQ' = <<>>
         /\ astep # 1 => UNCHANGED <<task, taskQ>>
         /\ astep = 2 => /\ sync.workers = 1 => ypc = "idle"
                         /\ sync' = Stopped(sync) /\ syncQ' = <<>>
         /\ astep # 2 => UNCHANGED <<sync, syncQ>>
         /\ astep = DisposeLen => apc' = "idle" /\ astep' = 0 /\ state' = "null"
         /\ astep # DisposeLen => apc' = "dispose" /\ astep' = astep + 1 /\ UNCHANGED state
         /\ UNCHANGED <<config, tpc, ypc, spc, initing, events, signals, history>>
<1>1. apc = "dispose" /\ astep \in 1 .. DisposeLen /\ Len(DisposeOrder) = DisposeLen
  BY DisposeOrderIs DEF SeatsInv, Seats, DisposeStep
<1>2. /\ NextDispose = "stopTask" <=> astep = 1
      /\ NextDispose = "stopSync" <=> astep = 2
      /\ NextDispose = "codec" <=> astep = 3
  BY <1>1, DisposeOrderIs DEF NextDispose
<1>3. /\ held' = held \ {NextDispose} /\ inited' = (inited /\ NextDispose # "codec")
      /\ UNCHANGED <<config, tpc, ypc, spc, initing, events, signals, history>>
  BY DEF DisposeStep, NextDispose
<1>4. /\ astep = 1 => /\ task.workers = 1 => tpc = "idle"
                      /\ task' = Stopped(task) /\ taskQ' = <<>>
      /\ astep # 1 => UNCHANGED <<task, taskQ>>
  BY <1>2 DEF DisposeStep, NextDispose
<1>5. /\ astep = 2 => /\ sync.workers = 1 => ypc = "idle"
                      /\ sync' = Stopped(sync) /\ syncQ' = <<>>
      /\ astep # 2 => UNCHANGED <<sync, syncQ>>
  BY <1>2 DEF DisposeStep, NextDispose
<1>6. /\ astep = DisposeLen => apc' = "idle" /\ astep' = 0 /\ state' = "null"
      /\ astep # DisposeLen => apc' = "dispose" /\ astep' = astep + 1 /\ UNCHANGED state
  BY <1>1 DEF DisposeStep
<1>7. /\ astep = 3 => NextDispose = "codec"
      /\ astep < 3 => NextDispose \notin Resources
  BY <1>1, <1>2 DEF Resources
<1> QED BY <1>1, <1>2, <1>3, <1>4, <1>5, <1>6, <1>7

LEMMA LifeInitStep ==
  ASSUME LifeInv, NEW c \in Callers, InitStep(c)
  PROVE  LifeInv'
<1>0. SeatsInv /\ TypeOK /\ Seats /\ WorkersInv
  BY DEF LifeInv, SeatsInv
<1> DEFINE w == NextInit(c)
<1>1. /\ ipc[c] = "do" /\ istep[c] \in 1 .. InitLen /\ Possible(w)
      /\ w \in InitFaults /\ (w = "plugin" => kind = "venc")
      /\ w = "init" <=> istep[c] = InitAt
      /\ held' = held \cup ({w} \cap Resources) /\ inited' = (inited \/ w = "init")
      /\ OtherStays(c) /\ InitsTyped
      /\ UNCHANGED <<config, app, threads, taskQ, syncVars, events, signals, history>>
  BY <1>0, InitStepIs
<1>2. /\ istep[c] = InitLen => ipc'[c] = "no"
      /\ istep[c] = InitLen /\ c = "stream" =>
           spc' = (IF kind = "vdec" THEN "outCaps" ELSE "start")
      /\ istep[c] = InitLen /\ c = "task" => tpc' = "using"
      /\ istep[c] # InitLen =>
           ipc'[c] = "do" /\ istep'[c] = istep[c] + 1 /\ UNCHANGED <<spc, tpc>>
      /\ c # "stream" => UNCHANGED spc
      /\ c # "task" => UNCHANGED tpc
  BY <1>0, InitStepIs
<1> HIDE DEF w
<1>3. /\ w \in {"plugin", "query", "init", "params", "pool"}
      /\ ({w} \cap Resources) \subseteq {"plugin", "pool"} \cap {w}
  BY <1>1 DEF InitFaults, Resources
<1>4. /\ c = "stream" => spc = "init" /\ state = "paused"
      /\ c = "task" => tpc = "init" /\ kind = "vdec"
      /\ c \in {"stream", "task"}
  BY <1>0, <1>1 DEF Seats, Callers
<1>5. TypeOK'
  <2>1. /\ (kind \in Kinds /\ hardware \in BOOLEAN /\ hevc \in BOOLEAN)'
        /\ AppType' /\ ThreadsType' /\ FlagsType' /\ HistoryType'
    BY <1>0, <1>1, KeptTypes
  <2>2. HeldType'
    BY <1>0, <1>1, <1>3 DEF TypeOK, HeldType, Resources
  <2>3. QueuesType'
    BY <1>0, <1>1, <1>2, <1>4 DEF TypeOK, QueuesType, syncVars
  <2>4. InitsType'
    BY <1>0, <1>1, <1>2, <1>4 DEF TypeOK, InitsType, InitsTyped
  <2> QED BY <2>1, <2>2, <2>3, <2>4, TypePartsNext
<1>6. Seats'
  <2>1. held' \subseteq Mine
    BY <1>0, <1>1, <1>3 DEF Seats, Mine
  <2>2. /\ ipc'["stream"] # "no" <=> spc' = "init"
        /\ ipc'["task"] # "no" <=> tpc' = "init"
        /\ kind = "vdec" => spc' \notin {"start", "startSync"}
        /\ spc' # "idle" => state = "paused"
        /\ kind # "vdec" => tpc' \notin {"fill", "init"}
    BY <1>0, <1>1, <1>2, <1>4 DEF Seats, OtherStays, Callers
  <2>3. \A d \in Callers : /\ ipc'[d] = "do" => istep'[d] \in 1 .. InitLen
                           /\ ipc'[d] = "undo" => istep'[d] \in 1 .. UndoLen
    BY <1>0, <1>1, <1>2, <1>4, Positions DEF Seats, OtherStays, Callers
  <2> QED BY <1>0, <1>1, <2>1, <2>2, <2>3, SameElement DEF Seats, app, Callers
<1>7. WorkersInv'
  <2>1. CASE kind = "vdec"
    BY <1>0, <1>1, <2>1, SameElement
    DEF WorkersInv, DecoderWorkers, threads, app, events, signals, history
  <2>2. CASE kind # "vdec"
    <3>1. c = "stream" /\ OtherWorkers /\ istep["stream"] \in 1 .. InitLen
          /\ UNCHANGED <<task, sync>> /\ spc = "init" /\ kind' # "vdec"
      BY <1>0, <1>1, <1>4, <2>2, SameElement DEF WorkersInv, threads
    <3>2. inited => inited'
      BY <1>1
    <3>3. "session" \notin held => "session" \notin held'
      BY <1>1, <1>3
    <3>4. ipc["stream"] = "do" /\ ipc'["stream"] \in {"do", "no"}
      BY <1>1, <1>2, <3>1
    <3>5. (istep["stream"] >= InitAt) => inited' /\ task.workers = 0 /\ sync.workers = 0
      <4>1. CASE istep["stream"] = InitAt
        <5>1. w = "init" /\ inited' /\ ~inited /\ "session" \in held
          BY <1>1, <3>1, <4>1 DEF Possible
        <5>2. task.workers \in Nat /\ sync.workers \in Nat
          BY <1>0, ThreadsNow
        <5> QED BY <3>1, <3>4, <5>1, <5>2 DEF OtherWorkers
      <4>2. CASE istep["stream"] > InitAt
        BY <3>1, <3>2, <3>4, <4>2 DEF OtherWorkers
      <4> QED BY <3>1, <4>1, <4>2, Positions
    <3>6. (ipc'["stream"] = "do" /\ istep'["stream"] > InitAt) \/ spc' = "start"
             => istep["stream"] >= InitAt
      BY <1>2, <3>1, Positions
    <3>7. spc' # "startSync"
      BY <1>2, <3>1
    <3>8. OtherWorkers'
      BY <1>0, <1>1, <3>1, <3>2, <3>3, <3>4, <3>5, <3>6, <3>7, SameElement
      DEF OtherWorkers
    <3> QED BY <3>1, <3>8 DEF WorkersInv
  <2> QED BY <2>1, <2>2
<1>8. ASSUME ~Orphans' PROVE OwnInv'
  <2>1. OwnInv
    BY <1>1, <1>8, SameElement DEF LifeInv, Orphans, history
  <2>2. state # "null" /\ ~(apc = "dispose" /\ astep > 1)
    BY <1>0, <1>4, <2>1 DEF OwnInv, TaskQuiet, Seats
  <2>3. tpc' # "idle" => tpc # "idle"
    BY <1>2, <1>4
  <2>4. apc = "dispose" => astep = 1
    BY <1>0, <2>2 DEF Seats, DisposeLen
  <2>5. UNCHANGED <<state, apc, astep, task, sync, ypc>>
    BY <1>1 DEF app, threads, syncVars
  <2> QED BY <2>1, <2>2, <2>3, <2>4, <2>5 DEF OwnInv
<1> QED BY <1>5, <1>6, <1>7, <1>8 DEF LifeInv, SeatsInv

LEMMA LifeInitFail ==
  ASSUME LifeInv, NEW c \in Callers, InitFail(c)
  PROVE  LifeInv'
<1>0. SeatsInv /\ TypeOK /\ Seats /\ WorkersInv
  BY DEF LifeInv, SeatsInv
<1>1. /\ ipc[c] = "do" /\ istep[c] \in 1 .. InitLen
      /\ ipc'[c] = "undo" /\ istep'[c] = 1 /\ OtherStays(c) /\ InitsTyped
      /\ failures' \subseteq Faults
      /\ UNCHANGED <<config, app, held, inited, threads, taskVars, syncVars, spc, events,
                     signals, lives, streams, caps>>
  BY <1>0, InitFailIs
<1>2. TypeOK'
  <2>1. /\ (kind \in Kinds /\ hardware \in BOOLEAN /\ hevc \in BOOLEAN)'
        /\ AppType' /\ HeldType' /\ ThreadsType' /\ QueuesType' /\ FlagsType'
    BY <1>0, <1>1, KeptTypes
  <2>2. HistoryType' /\ InitsType'
    BY <1>0, <1>1 DEF TypeOK, HistoryType, InitsType, InitsTyped
  <2> QED BY <2>1, <2>2, TypePartsNext
<1>3. Seats'
  BY <1>0, <1>1, SameElement, Positions DEF Seats, OtherStays, Callers, app, taskVars
<1>4. WorkersInv'
  <2>1. CASE kind = "vdec"
    BY <1>0, <1>1, <2>1, SameElement
    DEF WorkersInv, DecoderWorkers, threads, app, events, signals
  <2>2. CASE kind # "vdec"
    <3>1. c = "stream" /\ OtherWorkers /\ spc = "init" /\ kind' # "vdec"
      BY <1>0, <1>1, <2>2, SameElement DEF Seats, Callers, WorkersInv
    <3>2. OtherWorkers'
      BY <1>1, <3>1, SameElement, Positions DEF OtherWorkers, threads
    <3> QED BY <3>1, <3>2 DEF WorkersInv
  <2> QED BY <2>1, <2>2
<1>5. ASSUME ~Orphans' PROVE OwnInv'
  <2>1. OwnInv
    BY <1>1, <1>5, SameElement DEF LifeInv, Orphans
  <2> QED BY <1>1, <2>1, SameElement DEF OwnInv, TaskQuiet, SyncQuiet, app, threads, taskVars, syncVars
<1> QED BY <1>2, <1>3, <1>4, <1>5 DEF LifeInv, SeatsInv

LEMMA LifeInitUndo ==
  ASSUME LifeInv, NEW c \in Callers, InitUndo(c)
  PROVE  LifeInv'
<1>0. SeatsInv /\ TypeOK /\ Seats /\ WorkersInv
  BY DEF LifeInv, SeatsInv
<1>1. /\ ipc[c] = "undo" /\ istep[c] \in 1 .. UndoLen
      /\ held' = held \ {NextUndo(c)} /\ inited' = (inited /\ istep[c] # 2)
      /\ istep[c] = UndoLen - 1 => NextUndo(c) = "session"
      /\ OtherStays(c) /\ InitsTyped
      /\ refused' \in BOOLEAN /\ negotiated' \in BOOLEAN
      /\ refused => refused'
      /\ UNCHANGED <<config, app, threads, taskQ, syncVars, begun, eosSent, eosOut, history>>
  BY <1>0, InitUndoIs
<1>2. /\ istep[c] = UndoLen => ipc'[c] = "no"
      /\ istep[c] = UndoLen /\ c = "stream" => spc' = "idle"
      /\ istep[c] = UndoLen /\ c = "task" => tpc' = "idle"
      /\ istep[c] # UndoLen =>
           ipc'[c] = "undo" /\ istep'[c] = istep[c] + 1 /\ UNCHANGED <<spc, tpc>>
      /\ c # "stream" => UNCHANGED spc
      /\ c # "task" => UNCHANGED tpc
  BY <1>0, InitUndoIs
<1>4. /\ c = "stream" => spc = "init" /\ state = "paused"
      /\ c = "task" => tpc = "init" /\ kind = "vdec"
      /\ c \in {"stream", "task"}
  BY <1>0, <1>1 DEF Seats, Callers
<1>5. TypeOK'
  <2>1. /\ (kind \in Kinds /\ hardware \in BOOLEAN /\ hevc \in BOOLEAN)'
        /\ AppType' /\ ThreadsType' /\ HistoryType'
    BY <1>0, <1>1, KeptTypes
  <2>2. HeldType'
    BY <1>0, <1>1 DEF TypeOK, HeldType
  <2>3. QueuesType'
    BY <1>0, <1>1, <1>2, <1>4 DEF TypeOK, QueuesType, syncVars
  <2>4. InitsType'
    BY <1>0, <1>1, <1>2, <1>4 DEF TypeOK, InitsType, InitsTyped
  <2>5. FlagsType'
    BY <1>0, <1>1 DEF TypeOK, FlagsType
  <2> QED BY <2>1, <2>2, <2>3, <2>4, <2>5, TypePartsNext
<1>6. Seats'
  <2>1. held' \subseteq Mine
    BY <1>0, <1>1 DEF Seats
  <2>2. /\ ipc'["stream"] # "no" <=> spc' = "init"
        /\ ipc'["task"] # "no" <=> tpc' = "init"
        /\ kind = "vdec" => spc' \notin {"start", "startSync"}
        /\ spc' # "idle" => state = "paused"
        /\ kind # "vdec" => tpc' \notin {"fill", "init"}
    BY <1>0, <1>1, <1>2, <1>4 DEF Seats, OtherStays, Callers
  <2>3. \A d \in Callers : /\ ipc'[d] = "do" => istep'[d] \in 1 .. InitLen
                           /\ ipc'[d] = "undo" => istep'[d] \in 1 .. UndoLen
    BY <1>0, <1>1, <1>2, <1>4, Positions DEF Seats, OtherStays, Callers
  <2> QED BY <1>0, <1>1, <2>1, <2>2, <2>3, SameElement DEF Seats, app, Callers
<1>7. WorkersInv'
  <2>1. CASE kind = "vdec"
    BY <1>0, <1>1, <2>1, SameElement
    DEF WorkersInv, DecoderWorkers, threads, app, history
  <2>2. CASE kind # "vdec"
    <3>1. c = "stream" /\ OtherWorkers /\ istep["stream"] \in 1 .. UndoLen
          /\ UNCHANGED <<task, sync>> /\ spc = "init" /\ kind' # "vdec"
      BY <1>0, <1>1, <1>4, <2>2, SameElement DEF WorkersInv, threads
    <3>2. ipc'["stream"] = "no" => "session" \notin held /\ "session" \notin held'
      BY <1>1, <1>2, <3>1 DEF OtherWorkers
    <3>3. ipc'["stream"] \in {"no", "undo"} /\ spc' \in {"idle", "init"}
      BY <1>2, <3>1
    <3>4. ipc'["stream"] = "undo" /\ istep'["stream"] = UndoLen => "session" \notin held'
      BY <1>1, <1>2, <3>1, Positions
    <3>8. OtherWorkers'
      BY <3>1, <3>2, <3>3, <3>4, <1>1, SameElement DEF OtherWorkers
    <3> QED BY <3>1, <3>8 DEF WorkersInv
  <2> QED BY <2>1, <2>2
<1>8. ASSUME ~Orphans' PROVE OwnInv'
  <2>1. OwnInv
    BY <1>1, <1>8, SameElement DEF LifeInv, Orphans, history
  <2>2. state # "null" /\ ~(apc = "dispose" /\ astep > 1)
    BY <1>0, <1>4, <2>1 DEF OwnInv, TaskQuiet, Seats
  <2>3. tpc' # "idle" => tpc # "idle"
    BY <1>2, <1>4
  <2>4. apc = "dispose" => astep = 1
    BY <1>0, <2>2 DEF Seats, DisposeLen
  <2>5. UNCHANGED <<state, apc, astep, task, sync, ypc>>
    BY <1>1 DEF app, threads, syncVars
  <2> QED BY <2>1, <2>2, <2>3, <2>4, <2>5 DEF OwnInv
<1> QED BY <1>5, <1>6, <1>7, <1>8 DEF LifeInv, SeatsInv

LEMMA LifeDisposeStep == LifeInv /\ DisposeStep => LifeInv'
<1> SUFFICES ASSUME LifeInv, DisposeStep PROVE LifeInv'
  OBVIOUS
<1>0. SeatsInv /\ TypeOK /\ Seats /\ WorkersInv
  BY DEF LifeInv, SeatsInv
<1>1. /\ apc = "dispose" /\ astep \in 1 .. DisposeLen /\ state = "ready"
      /\ held' = held \ {NextDispose} /\ inited' = (inited /\ astep # 3)
      /\ astep < 3 => NextDispose \notin Resources
      /\ UNCHANGED <<config, tpc, ypc, spc, initing, events, signals, history>>
  BY <1>0, DisposeStepIs DEF Seats
<1>2. /\ astep = 1 => /\ task.workers = 1 => tpc = "idle"
                      /\ task' = Stopped(task) /\ taskQ' = <<>>
      /\ astep # 1 => UNCHANGED <<task, taskQ>>
      /\ astep = 2 => /\ sync.workers = 1 => ypc = "idle"
                      /\ sync' = Stopped(sync) /\ syncQ' = <<>>
      /\ astep # 2 => UNCHANGED <<sync, syncQ>>
  BY <1>0, DisposeStepIs
<1>3. /\ astep = DisposeLen => apc' = "idle" /\ astep' = 0 /\ state' = "null"
      /\ astep # DisposeLen => apc' = "dispose" /\ astep' = astep + 1 /\ UNCHANGED state
  BY <1>0, DisposeStepIs
<1>4. /\ task.workers \in 0 .. MaxStreams /\ sync.workers \in 0 .. MaxStreams
      /\ task' \in Threads /\ task'.workers \in 0 .. MaxStreams
      /\ sync' \in Threads /\ sync'.workers \in 0 .. MaxStreams
      /\ task'.workers <= task.workers /\ sync'.workers <= sync.workers
  <2>1. task \in Threads /\ sync \in Threads /\ MaxStreams \in Nat
    BY <1>0, BoundsAssumption DEF TypeOK
  <2>2. /\ task' \in Threads /\ task'.workers <= task.workers
    BY <1>2, <2>1, ThreadSteps
  <2>3. /\ sync' \in Threads /\ sync'.workers <= sync.workers
    BY <1>2, <2>1, ThreadSteps
  <2> QED BY <2>1, <2>2, <2>3, ThreadSteps
<1>5. TypeOK'
  <2>1. /\ (kind \in Kinds /\ hardware \in BOOLEAN /\ hevc \in BOOLEAN)'
        /\ InitsType' /\ FlagsType' /\ HistoryType'
    BY <1>0, <1>1, KeptTypes
  <2>2. AppType'
    BY <1>1, <1>3, Positions DEF AppType
  <2>3. HeldType'
    BY <1>0, <1>1 DEF TypeOK, HeldType
  <2>4. ThreadsType'
    BY <1>4 DEF ThreadsType
  <2>5. QueuesType'
    <3>1. taskQ' \in {taskQ, <<>>} /\ syncQ' \in {syncQ, <<>>} /\ UNCHANGED <<tpc, ypc>>
      BY <1>1, <1>2
    <3>2. /\ <<>> \in Seq({"buffer", "eos"}) /\ <<>> \in Seq({"op", "eos"})
          /\ Len(<<>>) <= MaxTasks
      BY BoundsAssumption
    <3> QED BY <1>0, <3>1, <3>2 DEF TypeOK, QueuesType
  <2> QED BY <2>1, <2>2, <2>3, <2>4, <2>5, TypePartsNext
<1>6. Seats'
  <2>1. held' \subseteq Mine
    BY <1>0, <1>1 DEF Seats
  <2>2. apc' = "dispose" => astep' \in 1 .. DisposeLen /\ state' = "ready"
    BY <1>1, <1>3, Positions
  <2>3. spc = "idle" /\ apc' \in {"idle", "dispose"}
    BY <1>0, <1>1, <1>3 DEF Seats
  <2> QED BY <1>0, <1>1, <2>1, <2>2, <2>3, SameElement DEF Seats, initing, Callers
<1>7. WorkersInv'
  <2>1. CASE kind = "vdec"
    <3>1. state' # "paused" /\ streams' = streams /\ streams \in Nat /\ kind' = "vdec"
      BY <1>0, <1>1, <1>3, <2>1, SameElement, BoundsAssumption DEF TypeOK, history
    <3>2. task.workers <= streams /\ sync.workers <= streams
      BY <1>0, <2>1 DEF WorkersInv, DecoderWorkers
    <3> QED BY <1>4, <3>1, <3>2 DEF WorkersInv, DecoderWorkers
  <2>2. CASE kind # "vdec"
    <3>1. OtherWorkers /\ spc' = "idle" /\ ipc'["stream"] = "no" /\ kind' # "vdec"
      BY <1>0, <1>1, <2>2, SameElement DEF Seats, WorkersInv, initing
    <3>2. OwnInv
      BY <2>2 DEF LifeInv, Orphans
    <3>3. task'.workers > 0 \/ sync'.workers > 0 => task.workers > 0 \/ sync.workers > 0
      BY <1>4
    <3>4. ipc["stream"] = "no" /\ ("session" \notin held => "session" \notin held')
      BY <1>1, <3>1 DEF initing
    <3>5. task'.workers > 0 \/ sync'.workers > 0 => inited' \/ "session" \notin held'
      <4>1. CASE astep < 3
        <5>1. astep # 3
          BY <4>1
        <5>2. inited => inited'
          BY <1>1, <5>1
        <5> QED BY <3>1, <3>3, <3>4, <5>2 DEF OtherWorkers
      <4>2. CASE astep >= 3
        BY <1>1, <1>4, <3>2, <4>2 DEF OwnInv, TaskQuiet, SyncQuiet
      <4> QED BY <1>1, <4>1, <4>2, Positions
    <3>6. OtherWorkers'
      BY <1>4, <3>1, <3>5, SameElement DEF OtherWorkers
    <3> QED BY <3>1, <3>6 DEF WorkersInv
  <2> QED BY <2>1, <2>2
<1>8. ASSUME ~Orphans' PROVE OwnInv'
  <2>1. OwnInv /\ ~Orphans
    BY <1>1, <1>8, SameElement DEF LifeInv, Orphans, history
  <2>2. task.workers <= 1 /\ sync.workers <= 1
    <3>1. CASE kind = "vdec"
      <4>1. streams \in Nat /\ streams <= 1
        BY <1>0, <2>1, <3>1, BoundsAssumption DEF Orphans, TypeOK
      <4> QED BY <1>0, <1>4, <3>1, <4>1 DEF WorkersInv, DecoderWorkers
    <3>2. CASE kind # "vdec"
      BY <1>0, <3>2 DEF WorkersInv, OtherWorkers
    <3> QED BY <3>1, <3>2
  <2>3. astep = 1 => /\ task'.workers = 0 /\ ~task'.started
                     /\ tpc' = "idle" /\ taskQ' = <<>>
    <3>1. task.workers > 0 => task.started
      BY <2>1 DEF OwnInv
    <3>2. astep = 1 => tpc = "idle"
      BY <1>2, <2>1 DEF OwnInv
    <3>3. task \in Threads
      BY <1>0 DEF TypeOK
    <3>4. Stopped(task).workers = 0 /\ ~Stopped(task).started
      BY <2>2, <3>1, <3>3, ThreadSteps
    <3> QED BY <1>1, <1>2, <3>2, <3>4
  <2>4. astep = 2 => /\ sync'.workers = 0 /\ ~sync'.started
                     /\ ypc' = "idle" /\ syncQ' = <<>>
    <3>1. sync.workers > 0 => sync.started
      BY <2>1 DEF OwnInv
    <3>2. astep = 2 => ypc = "idle"
      BY <1>2, <2>1 DEF OwnInv
    <3>3. sync \in Threads
      BY <1>0 DEF TypeOK
    <3>4. Stopped(sync).workers = 0 /\ ~Stopped(sync).started
      BY <2>2, <3>1, <3>3, ThreadSteps
    <3> QED BY <1>1, <1>2, <3>2, <3>4
  <2>5. TaskQuiet'
    <3>1. CASE astep = 1
      BY <2>3, <3>1 DEF TaskQuiet
    <3>2. CASE astep > 1
      BY <1>1, <1>2, <2>1, <3>2 DEF OwnInv, TaskQuiet
    <3> QED BY <1>1, <3>1, <3>2, Positions
  <2>6. astep >= 2 => SyncQuiet'
    <3>1. CASE astep = 2
      BY <2>4, <3>1 DEF SyncQuiet
    <3>2. CASE astep > 2
      BY <1>1, <1>2, <2>1, <3>2 DEF OwnInv, SyncQuiet
    <3> QED BY <1>1, <3>1, <3>2, Positions
  <2>7. astep >= 3 => ~inited'
    <3>1. CASE astep = 3
      BY <1>1, <3>1
    <3>2. CASE astep > 3
      BY <1>1, <2>1, <3>2 DEF OwnInv
    <3> QED BY <1>1, <3>1, <3>2, Positions
  <2>8. \A k \in 1 .. astep : DisposeOrder[k] \notin held'
    BY <1>1, <2>1 DEF OwnInv, NextDispose
  <2>9. /\ tpc' # "idle" => task'.workers = 1
        /\ task'.workers > 0 => task'.started
    BY <2>5 DEF TaskQuiet
  <2>10. /\ ypc' # "idle" => sync'.workers = 1
         /\ sync'.workers > 0 => sync'.started
    <3>1. CASE astep >= 2
      BY <2>6, <3>1 DEF SyncQuiet
    <3>2. CASE astep = 1
      BY <1>1, <1>2, <2>1, <3>2 DEF OwnInv
    <3> QED BY <1>1, <3>1, <3>2, Positions
  <2>11. CASE astep = DisposeLen
    <3>1. held' = {}
      <4>1. \A r \in Mine : r \notin held'
        BY <1>0, <2>8, <2>11, DisposeOrderIs
      <4> QED BY <1>6, <4>1, <1>1, SameElement DEF Seats
    <3>2. astep >= 3
      BY <2>11, Positions
    <3>3. SyncQuiet'
      BY <1>1, <2>6, <3>2, Positions DEF SyncQuiet
    <3>5. ~inited'
      BY <2>7, <3>2
    <3>4. apc' = "idle" /\ held' \subseteq BaseUndo
      BY <1>3, <2>11, <3>1
    <3> QED BY <2>5, <2>9, <2>10, <3>1, <3>3, <3>4, <3>5 DEF OwnInv
  <2>12. CASE astep # DisposeLen
    <3>1. apc' = "dispose" /\ astep' = astep + 1 /\ state' # "null"
      BY <1>1, <1>3, <2>12
    <3>2. /\ astep' > 2 => astep >= 2
          /\ astep' > 3 => astep >= 3
          /\ astep' - 1 = astep
      BY <1>1, <3>1, Positions
    <3> QED BY <1>1, <2>5, <2>6, <2>7, <2>8, <2>9, <2>10, <3>1, <3>2, SameElement DEF OwnInv
  <2> QED BY <2>11, <2>12
<1> QED BY <1>5, <1>6, <1>7, <1>8 DEF LifeInv, SeatsInv

-----------------------------------------------------------------------------
LEMMA LifeInit == Init => LifeInv
<1> SUFFICES ASSUME Init PROVE LifeInv
  OBVIOUS
<1>1. NewThread \in Threads /\ NewThread.workers = 0 /\ ~NewThread.started
  <2>1. FALSE \in BOOLEAN /\ 0 \in 0 .. MaxStreams
    BY BoundsAssumption
  <2>2. NewThread \in Threads
    BY <2>1, ThreadIn DEF NewThread
  <2> QED BY <2>2 DEF NewThread
<1>2. TypeOK
  <2>1. kind \in Kinds /\ hardware \in BOOLEAN /\ hevc \in BOOLEAN /\ AppType /\ HeldType
    <3>1. hevc \in BOOLEAN
      <4>1. CASE kind = "venc"
        BY <4>1 DEF Init
      <4>2. CASE kind # "venc"
        BY <4>2 DEF Init
      <4> QED BY <4>1, <4>2
    <3>2. kind \in Kinds /\ hardware \in BOOLEAN
      BY DEF Init
    <3>3. AppType
      BY DEF Init, AppType
    <3>4. HeldType
      BY DEF Init, HeldType
    <3> QED BY <3>1, <3>2, <3>3, <3>4
  <2>4. FlagsType
    BY DEF Init, FlagsType
  <2>2. ThreadsType /\ QueuesType /\ HistoryType
    BY <1>1, BoundsAssumption DEF Init, ThreadsType, QueuesType, HistoryType
  <2>3. InitsType
    BY DEF Init, InitsType
  <2> QED BY <2>1, <2>2, <2>3, <2>4, TypeParts
<1>3. Seats
  BY DEF Init, Seats, Callers
<1>4. WorkersInv
  <2>1. /\ task.workers = 0 /\ sync.workers = 0 /\ streams = 0 /\ state = "null"
        /\ ipc["stream"] = "no" /\ spc = "idle"
    BY <1>1 DEF Init, Callers
  <2> QED BY <2>1 DEF WorkersInv, DecoderWorkers, OtherWorkers
<1>5. OwnInv
  BY <1>1 DEF Init, OwnInv, TaskQuiet, SyncQuiet
<1> QED BY <1>2, <1>3, <1>4, <1>5 DEF LifeInv, SeatsInv

\* A step that changes nothing.
LEMMA LifeStutter == LifeInv /\ UNCHANGED vars => LifeInv'
<1> SUFFICES ASSUME LifeInv, UNCHANGED vars PROVE LifeInv'
  OBVIOUS
<1>1. UNCHANGED <<config, app, held, inited, threads, taskVars, syncVars, spc, initing,
                  events, signals, history>>
  BY DEF vars
<1>2. UNCHANGED <<kind, hardware, hevc, state, apc, astep, held, inited, task, sync, taskQ,
                  tpc, syncQ, ypc, spc, ipc, istep, begun, negotiated, eosSent, eosOut,
                  refused, lives, streams, caps, failures>>
  BY <1>1 DEF config, app, threads, taskVars, syncVars, initing, events, signals, history
<1>3. TypeOK' /\ Seats'
  BY <1>1, <1>2, SameElement DEF LifeInv, SeatsInv, TypeOK, Seats
<1>4. WorkersInv'
  BY <1>1, <1>2, SameElement DEF LifeInv, WorkersInv, DecoderWorkers, OtherWorkers
<1>5. ~Orphans' => OwnInv'
  BY <1>1, <1>2, SameElement DEF LifeInv, Orphans, OwnInv, TaskQuiet, SyncQuiet
<1> QED BY <1>3, <1>4, <1>5 DEF LifeInv, SeatsInv

LEMMA LifeInvHolds == Spec => []LifeInv
<1>1. LifeInv /\ [Next]_vars => LifeInv'
  <2> SUFFICES ASSUME LifeInv, [Next]_vars PROVE LifeInv'
    OBVIOUS
  <2>1. CASE NullToReady \/ BaseStep \/ BaseFail \/ BaseError \/ ReadyToPaused
    BY <2>1, LifeNullToReady, LifeBaseStep, LifeBaseFail, LifeBaseError, LifeReadyToPaused
  <2>2. CASE VdecStreamStart \/ VencCapsRefused \/ VppCapsRefused \/ VdecCapsRefused
             \/ VencCaps \/ VppCaps \/ VdecCaps
    BY <2>2, LifeVdecStreamStart, LifeVencCapsRefused, LifeVppCapsRefused,
       LifeVdecCapsRefused, LifeVencCaps, LifeVppCaps, LifeVdecCaps
  <2>3. CASE \/ StartTaskThread \/ StartSyncThread \/ OutCaps \/ Chain \/ Eos
    BY <2>3, LifeStartTaskThread, LifeStartSyncThread, LifeOutCaps, LifeChain, LifeEos
  <2>4. CASE TakeTask \/ FillVideoParams \/ Processed \/ Drained \/ SyncStep
    BY <2>4, LifeTakeTask, LifeFillVideoParams, LifeProcessed, LifeDrained, LifeTakeSync,
       LifeSynced DEF SyncStep
  <2>5. ASSUME NEW c \in Callers, InitStep(c) \/ InitFail(c) \/ InitUndo(c) PROVE LifeInv'
    BY <2>5, LifeInitStep, LifeInitFail, LifeInitUndo
  <2>6. CASE PausedToReady \/ Flushed \/ ReadyToNull \/ DisposeStep
    BY <2>6, LifePausedToReady, LifeFlushed, LifeReadyToNull, LifeDisposeStep
  <2>7. "stream" \in Callers /\ "task" \in Callers
    BY DEF Callers
  <2> QED BY <2>1, <2>2, <2>3, <2>4, <2>5, <2>6, <2>7, LifeStutter
          DEF Next, StreamStep, TaskStep
<1> QED BY <1>1, LifeInit, PTL DEF Spec

(***************************************************************************)
(* An element in NULL holds nothing and has no worker, however it came     *)
(* there, unless a decoder had a second stream.                            *)
(***************************************************************************)
THEOREM NullHoldsNothingCorrect == Spec => []NullHoldsNothing
<1>1. LifeInv => NullHoldsNothing
  BY DEF LifeInv, SeatsInv, OwnInv, TaskQuiet, SyncQuiet, NullHoldsNothing
<1> QED BY <1>1, LifeInvHolds, PTL

-----------------------------------------------------------------------------
(* The codec and what it works on: each step keeps UseInv.                 *)

\* What the properties say does not change with what a step leaves alone.
LEMMA ProgressKept ==
  ASSUME ProgressInv, UNCHANGED <<config, held, inited, initing>>,
         caps' = 0 => caps = 0, failures \subseteq failures'
  PROVE  ProgressInv'
<1>1. UNCHANGED <<ipc, istep>>
  BY DEF initing
<1>2. /\ caps' = 0 => ~inited' /\ "pool" \notin held' /\ "fc" \notin held'
      /\ NobodyInits' <=> NobodyInits
  BY <1>1 DEF ProgressInv, NobodyInits
<1>3. \A c \in Callers : (ipc'[c] = "do" => Doing(c)') /\ (ipc'[c] = "undo" => Undoing(c)')
  BY <1>1, SameElement DEF ProgressInv, Doing, Undoing
<1>4. failures \cap InitFaults # {} => failures' \cap InitFaults # {}
  OBVIOUS
<1>5. ipc'["stream"] = "undo" \/ ipc'["task"] = "undo" \/ ("codec" \in held' /\ "session" \notin held')
        => failures' \cap InitFaults # {}
  BY <1>1, <1>4 DEF ProgressInv
<1> QED BY <1>1, <1>2, <1>3, <1>5 DEF ProgressInv, InitFaults

LEMMA ReadyKept ==
  ASSUME ReadyInv, UNCHANGED <<config, inited, initing, threads, taskVars, syncVars>>,
         caps' = 0 => caps = 0,
         spc' = spc \/ spc' = "idle" \/ (spc' = "outCaps" /\ caps' # 0)
  PROVE  ReadyInv'
<1>1. UNCHANGED <<kind, ipc, task, sync, taskQ, tpc, syncQ, ypc>>
  BY DEF config, initing, threads, taskVars, syncVars
<1>2. NobodyInits' = NobodyInits /\ HasOp' = HasOp
  BY <1>1 DEF NobodyInits, HasOp
<1>3. DecoderReady => DecoderReady'
  BY <1>1, <1>2 DEF DecoderReady
<1>4. OthersReady => OthersReady'
  BY <1>1, <1>2 DEF OthersReady
<1> QED BY <1>1, <1>3, <1>4 DEF ReadyInv

LEMMA ObjectsKept ==
  ASSUME ObjectsInv, UNCHANGED <<config, app, held>>,
         CodecDeleted
           \/ ((taskQ' # <<>> => taskQ # <<>>) /\ (tpc' # "idle" => tpc # "idle" \/ taskQ # <<>>)
                /\ (spc' # "idle" => spc # "idle")
                /\ (state = "paused" /\ negotiated' => negotiated \/ spc # "idle"))
  PROVE  ObjectsInv'
<1>1. UNCHANGED <<kind, state, apc, astep, CodecAt, CodecDeleted>>
  BY SameElement DEF app, CodecDeleted
<1> QED BY <1>1 DEF ObjectsInv

\* An element with two streams stays one; and only a new life forgets CAPS events.
LEMMA StillCalm ==
  ASSUME UseInv, UNCHANGED config, streams' = streams \/ streams' = streams + 1,
         caps' = caps \/ caps' = caps + 1
  PROVE  /\ ~Orphans' => ~Orphans /\ OwnInv /\ ObjectsInv
         /\ Calm' => ~Orphans' /\ Calm /\ ProgressInv /\ ReadyInv
         /\ caps' = 0 => caps = 0
<1>1. streams \in Nat /\ caps \in Nat
  BY BoundsAssumption DEF UseInv, LifeInv, SeatsInv, TypeOK
<1>2. ~Orphans' => ~Orphans
  BY <1>1, SameElement DEF Orphans
<1>3. Calm' => Calm
  BY <1>1, <1>2 DEF Calm
<1>4. Calm' => ~Orphans'
  BY DEF Calm
<1>5. caps' = 0 => caps = 0
  BY <1>1
<1> QED BY <1>2, <1>3, <1>4, <1>5 DEF UseInv, LifeInv

\* The operations among the tasks of the sync thread.
LEMMA OpsInQueue ==
  ASSUME TypeOK
  PROVE  /\ syncQ' = Append(syncQ, "eos") /\ HasOp' => HasOp
         /\ syncQ' = syncQ /\ HasOp' => HasOp
         /\ syncQ' = <<>> => ~HasOp'
         /\ syncQ # <<>> /\ syncQ' = Tail(syncQ) /\ HasOp' => HasOp
         /\ syncQ # <<>> /\ Head(syncQ) = "op" => HasOp
<1>1. syncQ \in Seq({"op", "eos"}) /\ Len(syncQ) \in Nat /\ DOMAIN syncQ = 1 .. Len(syncQ)
  BY DEF TypeOK
<1>2. syncQ' = Append(syncQ, "eos") /\ HasOp' => HasOp
  <2> SUFFICES ASSUME syncQ' = Append(syncQ, "eos"), HasOp' PROVE HasOp
    OBVIOUS
  <2>1. PICK k \in DOMAIN syncQ' : syncQ'[k] = "op"
    BY DEF HasOp
  <2>2. k \in 1 .. Len(syncQ) + 1 /\ syncQ'[Len(syncQ) + 1] = "eos"
        /\ \A n \in 1 .. Len(syncQ) : syncQ'[n] = syncQ[n]
    BY <1>1
  <2>3. k \in 1 .. Len(syncQ) /\ syncQ[k] = "op"
    BY <1>1, <2>1, <2>2
  <2> QED BY <1>1, <2>3 DEF HasOp
<1>3. syncQ # <<>> /\ syncQ' = Tail(syncQ) /\ HasOp' => HasOp
  <2> SUFFICES ASSUME syncQ # <<>>, syncQ' = Tail(syncQ), HasOp' PROVE HasOp
    OBVIOUS
  <2>1. PICK k \in DOMAIN syncQ' : syncQ'[k] = "op"
    BY DEF HasOp
  <2>2. k + 1 \in 1 .. Len(syncQ) /\ syncQ[k + 1] = "op"
    BY <1>1, <2>1
  <2> QED BY <1>1, <2>2 DEF HasOp
<1>4. syncQ' = syncQ /\ HasOp' => HasOp
  BY DEF HasOp
<1>5. syncQ' = <<>> => ~HasOp'
  BY DEF HasOp
<1>6. syncQ # <<>> /\ Head(syncQ) = "op" => HasOp
  <2> SUFFICES ASSUME syncQ # <<>>, Head(syncQ) = "op" PROVE HasOp
    OBVIOUS
  <2>1. 1 \in DOMAIN syncQ /\ syncQ[1] = "op"
    BY <1>1
  <2> QED BY <2>1 DEF HasOp
<1> QED BY <1>2, <1>3, <1>4, <1>5, <1>6

LEMMA DecoderKept ==
  ASSUME ReadyInv, kind = "vdec", UNCHANGED <<config, inited, initing, taskVars, syncVars>>
  PROVE  ReadyInv'
<1>1. UNCHANGED <<kind, ipc, taskQ, tpc, syncQ, ypc>>
  BY DEF config, initing, taskVars, syncVars
<1>2. NobodyInits' = NobodyInits /\ HasOp' = HasOp
  BY <1>1 DEF NobodyInits, HasOp
<1> QED BY <1>1, <1>2 DEF ReadyInv, DecoderReady

LEMMA OthersKept ==
  ASSUME ReadyInv, kind # "vdec", UNCHANGED <<config, inited, initing, threads, spc>>,
         caps' = 0 => caps = 0
  PROVE  ReadyInv'
<1>1. UNCHANGED <<kind, ipc, task, sync>>
  BY DEF config, initing, threads
<1>2. NobodyInits' = NobodyInits
  BY <1>1 DEF NobodyInits
<1> QED BY <1>1, <1>2 DEF ReadyInv, OthersReady

LEMMA UseBaseStep == UseInv /\ ~EosBeforeCaps /\ BaseStep => UseInv'
<1> SUFFICES ASSUME UseInv, ~EosBeforeCaps, BaseStep PROVE UseInv'
  OBVIOUS
<1>0. LifeInv /\ TypeOK /\ Seats /\ (~Orphans => OwnInv) /\ UNCHANGED config
  BY
  DEF UseInv, LifeInv, SeatsInv, BaseStep
<1>1. LifeInv'
  BY <1>0, LifeBaseStep
<1>2. /\ ~Orphans' => ~Orphans /\ OwnInv /\ ObjectsInv
      /\ Calm' => ~Orphans' /\ Calm /\ ProgressInv /\ ReadyInv
      /\ caps' = 0 => caps = 0
  <2>1. /\ streams' = streams \/ streams' = streams + 1
        /\ caps' = caps \/ caps' = caps + 1
    BY
    DEF BaseStep, history
  <2> QED BY <1>0, <2>1, StillCalm
<1>6. /\ state = "null" /\ apc = "base" /\ astep \in 1 .. BaseLen
      /\ astep = 1 => BaseOrder[astep] = "session"
      /\ BaseOrder[astep] = "codec" <=> astep = CodecAt
      /\ BaseOrder[astep] # "pool"
      /\ held' = held \cup ({BaseOrder[astep]} \cap Resources)
      /\ astep = BaseLen => apc' = "idle" /\ state' = "ready"
      /\ astep # BaseLen => apc' = "base" /\ astep' = astep + 1 /\ state' = "null"
  <2>1. apc = "base" /\ state = "null" /\ astep \in 1 .. BaseLen /\ SeatsInv
    BY <1>0 DEF Seats, BaseStep, SeatsInv
  <2>2. /\ astep = 1 => BaseOrder[astep] = "session"
        /\ BaseOrder[astep] = "codec" <=> astep = CodecAt
        /\ BaseOrder[astep] # "pool" /\ Len(BaseOrder) = BaseLen
    BY <2>1, BaseOrderIs, Positions DEF BaseUndo
  <2> QED BY <2>1, <2>2 DEF BaseStep
<1>3. ASSUME ~Orphans' PROVE ObjectsInv'
  <2>1. TaskQuiet /\ spc = "idle" /\ UNCHANGED <<tpc, taskQ, spc>>
    BY <1>0, <1>2, <1>3, <1>6 DEF OwnInv, Seats, BaseStep, taskVars
  <2>2. ObjectsInv
    BY <1>2, <1>3
  <2>3. /\ astep > 1 => "session" \in held
        /\ astep > CodecAt => "codec" \in held
        /\ "codec" \in held => "session" \in held
    BY <1>6, <2>2 DEF ObjectsInv
  <2>4. "session" \in held' /\ (astep >= CodecAt => "codec" \in held')
    <3>1. "session" \in Resources /\ "codec" \in Resources
      BY DEF Resources
    <3>2. astep = 1 \/ astep > 1
      BY <1>6, Positions
    <3>3. "session" \in held'
      BY <1>6, <2>3, <3>1, <3>2
    <3>4. CASE astep = CodecAt
      BY <1>6, <3>1, <3>3, <3>4
    <3>5. CASE astep # CodecAt
      <4>1. astep >= CodecAt => astep > CodecAt
        BY <1>6, <3>5, Positions
      <4> QED BY <1>6, <2>3, <3>3, <4>1
    <3> QED BY <3>4, <3>5
  <2>5. CASE astep = BaseLen
    <3>1. "codec" \in held'
      BY <2>4, <2>5, Positions
    <3> QED BY <1>6, <2>1, <2>5, <3>1 DEF ObjectsInv, TaskQuiet
  <2>6. CASE astep # BaseLen
    <3>1. astep' > CodecAt => "codec" \in held'
      BY <1>6, <2>4, <2>6, Positions
    <3> QED BY <1>6, <2>4, <2>6, <3>1, SameElement, <1>0 DEF ObjectsInv, CodecDeleted
  <2> QED BY <2>5, <2>6
<1>4. ASSUME Calm' PROVE ProgressInv'
  <2>1. OwnInv /\ ObjectsInv'
    BY <1>2, <1>3, <1>4
  <2>2. /\ ~inited' /\ "pool" \notin held' /\ "fc" \notin held'
        /\ ipc'["stream"] = "no" /\ ipc'["task"] = "no" /\ Callers = {"stream", "task"}
    <3>1. ~inited' /\ held \subseteq BaseUndo
      BY <1>6, <2>1 DEF OwnInv, BaseStep
    <3>2. "pool" \notin held' /\ "fc" \notin held'
      <4>1. SeatsInv
        BY <1>0 DEF SeatsInv
      <4>2. BaseOrder[astep] \in BaseUndo \cup {"impl", "handle", "setAllocator"}
        BY <1>6, <4>1, BaseOrderIs
      <4> QED BY <1>6, <3>1, <4>2 DEF BaseUndo
    <3>3. ipc["stream"] = "no" /\ ipc["task"] = "no" /\ ipc' = ipc
      BY <1>0, <1>6, <2>1 DEF OwnInv, TaskQuiet, Seats, BaseStep, initing
    <3> QED BY <3>1, <3>2, <3>3 DEF Callers
  <2>3. "codec" \in held' => "session" \in held'
    BY <1>2, <1>3, <1>4, <1>6, Positions DEF ObjectsInv, Resources
  <2> QED BY <2>2, <2>3 DEF ProgressInv
<1>5. ASSUME Calm' PROVE ReadyInv'
  <2>1. UNCHANGED <<inited, initing, threads, taskVars, syncVars>>
        /\ (spc' = spc \/ spc' = "idle")
    BY
    DEF BaseStep, initing, threads, taskVars, syncVars
  <2> QED BY <1>0, <1>2, <1>5, <2>1, ReadyKept
<1> QED BY <1>1, <1>3, <1>4, <1>5 DEF UseInv, Calm

LEMMA UseBaseFail == UseInv /\ ~EosBeforeCaps /\ BaseFail => UseInv'
<1> SUFFICES ASSUME UseInv, ~EosBeforeCaps, BaseFail PROVE UseInv'
  OBVIOUS
<1>0. LifeInv /\ TypeOK /\ Seats /\ (~Orphans => OwnInv) /\ UNCHANGED config
  BY
  DEF UseInv, LifeInv, SeatsInv, BaseFail
<1>1. LifeInv'
  BY <1>0, LifeBaseFail
<1>2. /\ ~Orphans' => ~Orphans /\ OwnInv /\ ObjectsInv
      /\ Calm' => ~Orphans' /\ Calm /\ ProgressInv /\ ReadyInv
      /\ caps' = 0 => caps = 0
  <2>1. /\ streams' = streams \/ streams' = streams + 1
        /\ caps' = caps \/ caps' = caps + 1
    BY
    DEF BaseFail, history
  <2> QED BY <1>0, <2>1, StillCalm
<1>3. ASSUME ~Orphans' PROVE ObjectsInv'
  BY <1>0, <1>2, <1>3, SameElement, Positions
  DEF ObjectsInv, CodecDeleted, OwnInv, TaskQuiet, Seats, BaseFail, Failed, MayFail, config,
      app, threads, taskVars, syncVars, initing, events, signals, history
<1>4. ASSUME Calm' PROVE ProgressInv'
  BY <1>0, <1>2, <1>3, <1>4, SameElement, Positions
  DEF ProgressInv, NobodyInits, Doing, Undoing, InitFaults, ObjectsInv, CodecDeleted, OwnInv,
      TaskQuiet, Seats, Callers, BaseFail, Failed, MayFail, config, app, threads,
      taskVars, syncVars, initing, events, signals, history
<1>5. ASSUME Calm' PROVE ReadyInv'
  <2>1. UNCHANGED <<inited, initing, threads, taskVars, syncVars>>
        /\ (spc' = spc \/ spc' = "idle")
    BY
    DEF BaseFail, Failed, MayFail, initing, threads, taskVars, syncVars
  <2> QED BY <1>0, <1>2, <1>5, <2>1, ReadyKept
<1> QED BY <1>1, <1>3, <1>4, <1>5 DEF UseInv, Calm

LEMMA UseBaseError == UseInv /\ ~EosBeforeCaps /\ BaseError => UseInv'
<1> SUFFICES ASSUME UseInv, ~EosBeforeCaps, BaseError PROVE UseInv'
  OBVIOUS
<1>0. LifeInv /\ TypeOK /\ Seats /\ (~Orphans => OwnInv) /\ UNCHANGED config
  BY
  DEF UseInv, LifeInv, SeatsInv, BaseError
<1>1. LifeInv'
  BY <1>0, LifeBaseError
<1>2. /\ ~Orphans' => ~Orphans /\ OwnInv /\ ObjectsInv
      /\ Calm' => ~Orphans' /\ Calm /\ ProgressInv /\ ReadyInv
      /\ caps' = 0 => caps = 0
  <2>1. /\ streams' = streams \/ streams' = streams + 1
        /\ caps' = caps \/ caps' = caps + 1
    BY
    DEF BaseError, history
  <2> QED BY <1>0, <2>1, StillCalm
<1>3. ASSUME ~Orphans' PROVE ObjectsInv'
  BY <1>0, <1>2, <1>3, SameElement, Positions
  DEF ObjectsInv, CodecDeleted, OwnInv, TaskQuiet, Seats, BaseError, config, app, threads,
      taskVars, syncVars, initing, events, signals, history
<1>4. ASSUME Calm' PROVE ProgressInv'
  BY <1>0, <1>2, <1>3, <1>4, SameElement, Positions
  DEF ProgressInv, NobodyInits, Doing, Undoing, InitFaults, ObjectsInv, CodecDeleted, OwnInv,
      TaskQuiet, Seats, Callers, BaseError, config, app, threads, taskVars, syncVars,
      initing, events, signals, history
<1>5. ASSUME Calm' PROVE ReadyInv'
  <2>1. UNCHANGED <<inited, initing, threads, taskVars, syncVars>>
        /\ (spc' = spc \/ spc' = "idle")
    BY
    DEF BaseError, initing, threads, taskVars, syncVars
  <2> QED BY <1>0, <1>2, <1>5, <2>1, ReadyKept
<1> QED BY <1>1, <1>3, <1>4, <1>5 DEF UseInv, Calm

LEMMA UseReadyToPaused == UseInv /\ ~EosBeforeCaps /\ ReadyToPaused => UseInv'
<1> SUFFICES ASSUME UseInv, ~EosBeforeCaps, ReadyToPaused PROVE UseInv'
  OBVIOUS
<1>0. LifeInv /\ TypeOK /\ Seats /\ (~Orphans => OwnInv) /\ UNCHANGED config
  BY
  DEF UseInv, LifeInv, SeatsInv, ReadyToPaused
<1>1. LifeInv'
  BY <1>0, LifeReadyToPaused
<1>2. /\ ~Orphans' => ~Orphans /\ OwnInv /\ ObjectsInv
      /\ Calm' => ~Orphans' /\ Calm /\ ProgressInv /\ ReadyInv
      /\ caps' = 0 => caps = 0
  <2>1. /\ streams' = streams \/ streams' = streams + 1
        /\ caps' = caps \/ caps' = caps + 1
    BY
    DEF ReadyToPaused, history
  <2> QED BY <1>0, <2>1, StillCalm
<1>3. ASSUME ~Orphans' PROVE ObjectsInv'
  BY <1>0, <1>2, <1>3, SameElement, Positions
  DEF ObjectsInv, CodecDeleted, OwnInv, TaskQuiet, Seats, ReadyToPaused, config, app,
      threads, taskVars, syncVars, initing, events, signals, history
<1>4. ASSUME Calm' PROVE ProgressInv'
  <2>1. UNCHANGED <<held, inited, initing>> /\ failures \subseteq failures'
    BY
    DEF ReadyToPaused, initing, history
  <2> QED BY <1>0, <1>2, <1>4, <2>1, ProgressKept
<1>5. ASSUME Calm' PROVE ReadyInv'
  <2>1. UNCHANGED <<inited, initing, threads, taskVars, syncVars>>
        /\ (spc' = spc \/ spc' = "idle")
    BY
    DEF ReadyToPaused, initing, threads, taskVars, syncVars
  <2> QED BY <1>0, <1>2, <1>5, <2>1, ReadyKept
<1> QED BY <1>1, <1>3, <1>4, <1>5 DEF UseInv, Calm

LEMMA UseVdecStreamStart == UseInv /\ ~EosBeforeCaps /\ VdecStreamStart => UseInv'
<1> SUFFICES ASSUME UseInv, ~EosBeforeCaps, VdecStreamStart PROVE UseInv'
  OBVIOUS
<1>0. LifeInv /\ TypeOK /\ Seats /\ (~Orphans => OwnInv) /\ UNCHANGED config
  BY
  DEF UseInv, LifeInv, SeatsInv, VdecStreamStart
<1>1. LifeInv'
  BY <1>0, LifeVdecStreamStart
<1>2. /\ ~Orphans' => ~Orphans /\ OwnInv /\ ObjectsInv
      /\ Calm' => ~Orphans' /\ Calm /\ ProgressInv /\ ReadyInv
      /\ caps' = 0 => caps = 0
  <2>1. /\ streams' = streams \/ streams' = streams + 1
        /\ caps' = caps \/ caps' = caps + 1
    BY
    DEF VdecStreamStart, history
  <2> QED BY <1>0, <2>1, StillCalm
<1>3. ASSUME ~Orphans' PROVE ObjectsInv'
  <2>1. UNCHANGED <<app, held>>
    BY
    DEF VdecStreamStart, app
  <2>2. \/ CodecDeleted
        \/ /\ taskQ' # <<>> => taskQ # <<>>
           /\ tpc' # "idle" => tpc # "idle" \/ taskQ # <<>>
           /\ spc' # "idle" => spc # "idle"
           /\ state = "paused" /\ negotiated' => negotiated \/ spc # "idle"
    BY <1>0
    DEF TypeOK, VdecStreamStart, Streaming, Failed, MayFail, taskVars, syncVars, events,
        signals
  <2> QED BY <1>0, <1>2, <1>3, <2>1, <2>2, ObjectsKept
<1>4. ASSUME Calm' PROVE ProgressInv'
  <2>1. UNCHANGED <<held, inited, initing>> /\ failures \subseteq failures'
    BY
    DEF VdecStreamStart, Streaming, Failed, MayFail, initing, history
  <2> QED BY <1>0, <1>2, <1>4, <2>1, ProgressKept
<1>5. ASSUME Calm' PROVE ReadyInv'
  <2>1. kind = "vdec" /\ UNCHANGED <<inited, initing, taskVars, syncVars>>
    BY DEF VdecStreamStart
  <2> QED BY <1>0, <1>2, <1>5, <2>1, DecoderKept
<1> QED BY <1>1, <1>3, <1>4, <1>5 DEF UseInv, Calm

LEMMA UseVencCapsRefused == UseInv /\ ~EosBeforeCaps /\ VencCapsRefused => UseInv'
<1> SUFFICES ASSUME UseInv, ~EosBeforeCaps, VencCapsRefused PROVE UseInv'
  OBVIOUS
<1>0. LifeInv /\ TypeOK /\ Seats /\ (~Orphans => OwnInv) /\ UNCHANGED config
  BY
  DEF UseInv, LifeInv, SeatsInv, VencCapsRefused, Refuse, CapsComes
<1>1. LifeInv'
  BY <1>0, LifeVencCapsRefused
<1>2. /\ ~Orphans' => ~Orphans /\ OwnInv /\ ObjectsInv
      /\ Calm' => ~Orphans' /\ Calm /\ ProgressInv /\ ReadyInv
      /\ caps' = 0 => caps = 0
  <2>1. /\ streams' = streams \/ streams' = streams + 1
        /\ caps' = caps \/ caps' = caps + 1
    BY
    DEF VencCapsRefused, Refuse, CapsComes, history
  <2> QED BY <1>0, <2>1, StillCalm
<1>3. ASSUME ~Orphans' PROVE ObjectsInv'
  <2>1. UNCHANGED <<app, held>>
    BY
    DEF VencCapsRefused, Refuse, CapsComes, app
  <2>2. \/ CodecDeleted
        \/ /\ taskQ' # <<>> => taskQ # <<>>
           /\ tpc' # "idle" => tpc # "idle" \/ taskQ # <<>>
           /\ spc' # "idle" => spc # "idle"
           /\ state = "paused" /\ negotiated' => negotiated \/ spc # "idle"
    BY <1>0
    DEF TypeOK, VencCapsRefused, Refuse, CapsComes, Streaming, Failed, MayFail, taskVars,
        syncVars, events, signals
  <2> QED BY <1>0, <1>2, <1>3, <2>1, <2>2, ObjectsKept
<1>4. ASSUME Calm' PROVE ProgressInv'
  <2>1. UNCHANGED <<held, inited, initing>> /\ failures \subseteq failures'
    BY
    DEF VencCapsRefused, Refuse, CapsComes, Streaming, Failed, MayFail, initing, history
  <2> QED BY <1>0, <1>2, <1>4, <2>1, ProgressKept
<1>5. ASSUME Calm' PROVE ReadyInv'
  <2>1. UNCHANGED <<inited, initing, threads, taskVars, syncVars>>
        /\ (spc' = spc \/ spc' = "idle")
    BY
    DEF VencCapsRefused, Refuse, CapsComes, Streaming, Failed, MayFail, initing, threads,
        taskVars, syncVars
  <2> QED BY <1>0, <1>2, <1>5, <2>1, ReadyKept
<1> QED BY <1>1, <1>3, <1>4, <1>5 DEF UseInv, Calm

LEMMA UseVppCapsRefused == UseInv /\ ~EosBeforeCaps /\ VppCapsRefused => UseInv'
<1> SUFFICES ASSUME UseInv, ~EosBeforeCaps, VppCapsRefused PROVE UseInv'
  OBVIOUS
<1>0. LifeInv /\ TypeOK /\ Seats /\ (~Orphans => OwnInv) /\ UNCHANGED config
  BY
  DEF UseInv, LifeInv, SeatsInv, VppCapsRefused, Refuse, CapsComes
<1>1. LifeInv'
  BY <1>0, LifeVppCapsRefused
<1>2. /\ ~Orphans' => ~Orphans /\ OwnInv /\ ObjectsInv
      /\ Calm' => ~Orphans' /\ Calm /\ ProgressInv /\ ReadyInv
      /\ caps' = 0 => caps = 0
  <2>1. /\ streams' = streams \/ streams' = streams + 1
        /\ caps' = caps \/ caps' = caps + 1
    BY
    DEF VppCapsRefused, Refuse, CapsComes, history
  <2> QED BY <1>0, <2>1, StillCalm
<1>3. ASSUME ~Orphans' PROVE ObjectsInv'
  <2>1. UNCHANGED <<app, held>>
    BY
    DEF VppCapsRefused, Refuse, CapsComes, app
  <2>2. \/ CodecDeleted
        \/ /\ taskQ' # <<>> => taskQ # <<>>
           /\ tpc' # "idle" => tpc # "idle" \/ taskQ # <<>>
           /\ spc' # "idle" => spc # "idle"
           /\ state = "paused" /\ negotiated' => negotiated \/ spc # "idle"
    BY <1>0
    DEF TypeOK, VppCapsRefused, Refuse, CapsComes, Streaming, Failed, MayFail, taskVars,
        syncVars, events, signals
  <2> QED BY <1>0, <1>2, <1>3, <2>1, <2>2, ObjectsKept
<1>4. ASSUME Calm' PROVE ProgressInv'
  <2>1. UNCHANGED <<held, inited, initing>> /\ failures \subseteq failures'
    BY
    DEF VppCapsRefused, Refuse, CapsComes, Streaming, Failed, MayFail, initing, history
  <2> QED BY <1>0, <1>2, <1>4, <2>1, ProgressKept
<1>5. ASSUME Calm' PROVE ReadyInv'
  <2>1. UNCHANGED <<inited, initing, threads, taskVars, syncVars>>
        /\ (spc' = spc \/ spc' = "idle")
    BY
    DEF VppCapsRefused, Refuse, CapsComes, Streaming, Failed, MayFail, initing, threads,
        taskVars, syncVars
  <2> QED BY <1>0, <1>2, <1>5, <2>1, ReadyKept
<1> QED BY <1>1, <1>3, <1>4, <1>5 DEF UseInv, Calm

LEMMA UseVdecCapsRefused == UseInv /\ ~EosBeforeCaps /\ VdecCapsRefused => UseInv'
<1> SUFFICES ASSUME UseInv, ~EosBeforeCaps, VdecCapsRefused PROVE UseInv'
  OBVIOUS
<1>0. LifeInv /\ TypeOK /\ Seats /\ (~Orphans => OwnInv) /\ UNCHANGED config
  BY
  DEF UseInv, LifeInv, SeatsInv, VdecCapsRefused, Refuse, CapsComes
<1>1. LifeInv'
  BY <1>0, LifeVdecCapsRefused
<1>2. /\ ~Orphans' => ~Orphans /\ OwnInv /\ ObjectsInv
      /\ Calm' => ~Orphans' /\ Calm /\ ProgressInv /\ ReadyInv
      /\ caps' = 0 => caps = 0
  <2>1. /\ streams' = streams \/ streams' = streams + 1
        /\ caps' = caps \/ caps' = caps + 1
    BY
    DEF VdecCapsRefused, Refuse, CapsComes, history
  <2> QED BY <1>0, <2>1, StillCalm
<1>3. ASSUME ~Orphans' PROVE ObjectsInv'
  <2>1. UNCHANGED <<app, held>>
    BY
    DEF VdecCapsRefused, Refuse, CapsComes, app
  <2>2. \/ CodecDeleted
        \/ /\ taskQ' # <<>> => taskQ # <<>>
           /\ tpc' # "idle" => tpc # "idle" \/ taskQ # <<>>
           /\ spc' # "idle" => spc # "idle"
           /\ state = "paused" /\ negotiated' => negotiated \/ spc # "idle"
    BY <1>0
    DEF TypeOK, VdecCapsRefused, Refuse, CapsComes, Streaming, Failed, MayFail, taskVars,
        syncVars, events, signals
  <2> QED BY <1>0, <1>2, <1>3, <2>1, <2>2, ObjectsKept
<1>4. ASSUME Calm' PROVE ProgressInv'
  <2>1. UNCHANGED <<held, inited, initing>> /\ failures \subseteq failures'
    BY
    DEF VdecCapsRefused, Refuse, CapsComes, Streaming, Failed, MayFail, initing, history
  <2> QED BY <1>0, <1>2, <1>4, <2>1, ProgressKept
<1>5. ASSUME Calm' PROVE ReadyInv'
  <2>1. UNCHANGED <<inited, initing, threads, taskVars, syncVars>>
        /\ (spc' = spc \/ spc' = "idle")
    BY
    DEF VdecCapsRefused, Refuse, CapsComes, Streaming, Failed, MayFail, initing, threads,
        taskVars, syncVars
  <2> QED BY <1>0, <1>2, <1>5, <2>1, ReadyKept
<1> QED BY <1>1, <1>3, <1>4, <1>5 DEF UseInv, Calm

LEMMA UseVencCaps == UseInv /\ ~EosBeforeCaps /\ VencCaps => UseInv'
<1> SUFFICES ASSUME UseInv, ~EosBeforeCaps, VencCaps PROVE UseInv'
  OBVIOUS
<1>0. LifeInv /\ TypeOK /\ Seats /\ (~Orphans => OwnInv) /\ UNCHANGED config
  BY
  DEF UseInv, LifeInv, SeatsInv, VencCaps, CapsComes
<1>1. LifeInv'
  BY <1>0, LifeVencCaps
<1>2. /\ ~Orphans' => ~Orphans /\ OwnInv /\ ObjectsInv
      /\ Calm' => ~Orphans' /\ Calm /\ ProgressInv /\ ReadyInv
      /\ caps' = 0 => caps = 0
  <2>1. /\ streams' = streams \/ streams' = streams + 1
        /\ caps' = caps \/ caps' = caps + 1
    BY
    DEF VencCaps, CapsComes, history
  <2> QED BY <1>0, <2>1, StillCalm
<1>6. /\ kind = "venc" /\ spc' = "init" /\ caps \in Nat /\ caps' = caps + 1
      /\ ipc["stream"] = "no" /\ ipc["task"] = "no"
      /\ ipc'["stream"] = "do" /\ istep'["stream"] = 1 /\ ipc'["task"] = "no"
      /\ UNCHANGED <<held, inited, threads, failures>>
  <2>1. /\ kind = "venc" /\ spc' = "init" /\ spc = "idle" /\ caps' = caps + 1 /\ Enter("stream")
        /\ UNCHANGED <<held, inited, threads, failures>>
    BY DEF VencCaps, CapsComes, Streaming
  <2>2. /\ ipc["stream"] = "no" /\ ipc["task"] = "no" /\ caps \in Nat
    BY <1>0, <2>1, BoundsAssumption DEF Seats, TypeOK
  <2> QED BY <1>0, <2>1, <2>2, Entered DEF Callers
<1>3. ASSUME ~Orphans' PROVE ObjectsInv'
  BY <1>0, <1>2, <1>3, <1>6, SameElement, Positions
  DEF ObjectsInv, CodecDeleted, OwnInv, TaskQuiet, Seats, VencCaps, CapsComes, Streaming,
      config, app, threads, taskVars, syncVars, initing, events, signals, history
<1>4. ASSUME Calm' PROVE ProgressInv'
  <2>1. caps = 0 /\ ProgressInv /\ Callers = {"stream", "task"}
    BY <1>2, <1>4, <1>6 DEF Calm, Callers
  <2>2. ~inited' /\ "pool" \notin held' /\ "fc" \notin held'
    BY <1>6, <2>1 DEF ProgressInv
  <2>3. Doing("stream")'
    BY <1>0, <1>6, <2>2, SameElement, Positions DEF Doing
  <2>4. ("codec" \in held' /\ "session" \notin held') => failures' \cap InitFaults # {}
    BY <1>6, <2>1 DEF ProgressInv
  <2> QED BY <1>6, <2>1, <2>2, <2>3, <2>4 DEF ProgressInv, NobodyInits
<1>5. ASSUME Calm' PROVE ReadyInv'
  <2>1. caps = 0 /\ OthersReady
    BY <1>2, <1>5, <1>6 DEF Calm, ReadyInv
  <2>2. ~task'.started /\ ~sync'.started /\ caps' # 0 /\ kind' # "vdec"
    BY <1>0, <1>6, <2>1, SameElement DEF OthersReady, threads
  <2> QED BY <1>6, <2>2 DEF ReadyInv, OthersReady
<1> QED BY <1>1, <1>3, <1>4, <1>5 DEF UseInv, Calm

LEMMA UseVppCaps == UseInv /\ ~EosBeforeCaps /\ VppCaps => UseInv'
<1> SUFFICES ASSUME UseInv, ~EosBeforeCaps, VppCaps PROVE UseInv'
  OBVIOUS
<1>0. LifeInv /\ TypeOK /\ Seats /\ (~Orphans => OwnInv) /\ UNCHANGED config
  BY
  DEF UseInv, LifeInv, SeatsInv, VppCaps, CapsComes
<1>1. LifeInv'
  BY <1>0, LifeVppCaps
<1>2. /\ ~Orphans' => ~Orphans /\ OwnInv /\ ObjectsInv
      /\ Calm' => ~Orphans' /\ Calm /\ ProgressInv /\ ReadyInv
      /\ caps' = 0 => caps = 0
  <2>1. /\ streams' = streams \/ streams' = streams + 1
        /\ caps' = caps \/ caps' = caps + 1
    BY
    DEF VppCaps, CapsComes, history
  <2> QED BY <1>0, <2>1, StillCalm
<1>6. /\ kind = "vpp" /\ spc' = "init" /\ caps \in Nat /\ caps' = caps + 1
      /\ ipc["stream"] = "no" /\ ipc["task"] = "no"
      /\ ipc'["stream"] = "do" /\ istep'["stream"] = 1 /\ ipc'["task"] = "no"
      /\ UNCHANGED <<held, inited, threads, failures>>
  <2>1. /\ kind = "vpp" /\ spc' = "init" /\ spc = "idle" /\ caps' = caps + 1 /\ Enter("stream")
        /\ UNCHANGED <<held, inited, threads, failures>>
    BY DEF VppCaps, CapsComes, Streaming
  <2>2. /\ ipc["stream"] = "no" /\ ipc["task"] = "no" /\ caps \in Nat
    BY <1>0, <2>1, BoundsAssumption DEF Seats, TypeOK
  <2> QED BY <1>0, <2>1, <2>2, Entered DEF Callers
<1>3. ASSUME ~Orphans' PROVE ObjectsInv'
  BY <1>0, <1>2, <1>3, <1>6, SameElement, Positions
  DEF ObjectsInv, CodecDeleted, OwnInv, TaskQuiet, Seats, VppCaps, CapsComes, Streaming,
      config, app, threads, taskVars, syncVars, initing, events, signals, history
<1>4. ASSUME Calm' PROVE ProgressInv'
  <2>1. caps = 0 /\ ProgressInv /\ Callers = {"stream", "task"}
    BY <1>2, <1>4, <1>6 DEF Calm, Callers
  <2>2. ~inited' /\ "pool" \notin held' /\ "fc" \notin held'
    BY <1>6, <2>1 DEF ProgressInv
  <2>3. Doing("stream")'
    BY <1>0, <1>6, <2>2, SameElement, Positions DEF Doing
  <2>4. ("codec" \in held' /\ "session" \notin held') => failures' \cap InitFaults # {}
    BY <1>6, <2>1 DEF ProgressInv
  <2> QED BY <1>6, <2>1, <2>2, <2>3, <2>4 DEF ProgressInv, NobodyInits
<1>5. ASSUME Calm' PROVE ReadyInv'
  <2>1. caps = 0 /\ OthersReady
    BY <1>2, <1>5, <1>6 DEF Calm, ReadyInv
  <2>2. ~task'.started /\ ~sync'.started /\ caps' # 0 /\ kind' # "vdec"
    BY <1>0, <1>6, <2>1, SameElement DEF OthersReady, threads
  <2> QED BY <1>6, <2>2 DEF ReadyInv, OthersReady
<1> QED BY <1>1, <1>3, <1>4, <1>5 DEF UseInv, Calm

LEMMA UseVdecCaps == UseInv /\ ~EosBeforeCaps /\ VdecCaps => UseInv'
<1> SUFFICES ASSUME UseInv, ~EosBeforeCaps, VdecCaps PROVE UseInv'
  OBVIOUS
<1>0. LifeInv /\ TypeOK /\ Seats /\ (~Orphans => OwnInv) /\ UNCHANGED config
  BY
  DEF UseInv, LifeInv, SeatsInv, VdecCaps, CapsComes
<1>1. LifeInv'
  BY <1>0, LifeVdecCaps
<1>2. /\ ~Orphans' => ~Orphans /\ OwnInv /\ ObjectsInv
      /\ Calm' => ~Orphans' /\ Calm /\ ProgressInv /\ ReadyInv
      /\ caps' = 0 => caps = 0
  <2>1. /\ streams' = streams \/ streams' = streams + 1
        /\ caps' = caps \/ caps' = caps + 1
    BY
    DEF VdecCaps, CapsComes, history
  <2> QED BY <1>0, <2>1, StillCalm
<1>6. /\ kind = "vdec" /\ state = "paused" /\ apc = "idle" /\ spc = "idle"
      /\ caps \in Nat /\ caps' = caps + 1 /\ held' = held \cup {"fc"}
      /\ ipc["stream"] = "no" /\ UNCHANGED <<inited, taskVars, syncVars>>
      /\ failures \subseteq failures' /\ ipc'["task"] = ipc["task"]
      /\ istep'["task"] = istep["task"]
      /\ ipc'["stream"] = "no" \/ (ipc'["stream"] = "do" /\ istep'["stream"] = 1)
  <2>1. /\ kind = "vdec" /\ state = "paused" /\ apc = "idle" /\ spc = "idle"
        /\ caps' = caps + 1 /\ held' = held \cup {"fc"}
        /\ UNCHANGED <<inited, taskVars, syncVars>>
        /\ failures \subseteq failures'
        /\ UNCHANGED initing \/ Enter("stream")
    BY DEF VdecCaps, CapsComes, Streaming, Failed
  <2>2. ipc["stream"] = "no" /\ caps \in Nat
    BY <1>0, <2>1, BoundsAssumption DEF Seats, TypeOK
  <2>3. CASE UNCHANGED initing
    BY <2>1, <2>2, <2>3 DEF initing
  <2>4. CASE Enter("stream")
    BY <1>0, <2>1, <2>2, <2>4, Entered DEF Callers
  <2> QED BY <2>1, <2>3, <2>4
<1>3. ASSUME ~Orphans' PROVE ObjectsInv'
  BY <1>0, <1>2, <1>3, <1>6, SameElement, Positions
  DEF ObjectsInv, CodecDeleted, OwnInv, TaskQuiet, Seats, VdecCaps, CapsComes, Streaming,
      Failed, MayFail, config, app, threads, taskVars, syncVars, initing, events, signals,
      history
<1>4. ASSUME Calm' PROVE ProgressInv'
  <2>1. caps = 0 /\ caps' # 0 /\ ProgressInv /\ ObjectsInv /\ Callers = {"stream", "task"}
    BY <1>2, <1>4, <1>6 DEF Calm, Callers
  <2>2. ~inited /\ "pool" \notin held /\ "fc" \notin held /\ ~CodecDeleted
    BY <1>6, <2>1 DEF ProgressInv, CodecDeleted
  <2>3. tpc = "idle" /\ ipc["task"] = "no" /\ "codec" \in held
    BY <1>0, <1>6, <2>1, <2>2 DEF ObjectsInv, Seats
  <2>4. "session" \notin held => failures \cap InitFaults # {}
    BY <2>1, <2>3 DEF ProgressInv
  <2>5. ipc'["stream"] = "do" => Doing("stream")'
    BY <1>0, <1>6, <2>2, SameElement, Positions DEF Doing
  <2>6. ~inited' /\ "pool" \notin held' /\ ("session" \notin held' => failures' \cap InitFaults # {})
    BY <1>6, <2>2, <2>4
  <2> QED BY <1>6, <2>1, <2>3, <2>5, <2>6 DEF ProgressInv, NobodyInits
<1>5. ASSUME Calm' PROVE ReadyInv'
  <2>1. caps = 0 /\ ProgressInv /\ DecoderReady /\ ObjectsInv
    BY <1>2, <1>5, <1>6 DEF Calm, ReadyInv
  <2>2. ~inited /\ "fc" \notin held /\ ~CodecDeleted
    BY <1>6, <2>1 DEF ProgressInv, CodecDeleted
  <2>3. tpc = "idle" /\ taskQ = <<>> /\ ypc # "using" /\ ~HasOp
    BY <1>6, <2>1, <2>2 DEF ObjectsInv, DecoderReady
  <2>4. UNCHANGED <<tpc, taskQ, ypc, syncQ>>
    BY <1>6 DEF taskVars, syncVars
  <2>5. ~HasOp'
    BY <2>3, <2>4 DEF HasOp
  <2>6. DecoderReady'
    BY <2>3, <2>4, <2>5 DEF DecoderReady
  <2> QED BY <1>0, <1>6, <2>6, SameElement DEF ReadyInv
<1> QED BY <1>1, <1>3, <1>4, <1>5 DEF UseInv, Calm

LEMMA UseStartTaskThread == UseInv /\ ~EosBeforeCaps /\ StartTaskThread => UseInv'
<1> SUFFICES ASSUME UseInv, ~EosBeforeCaps, StartTaskThread PROVE UseInv'
  OBVIOUS
<1>0. LifeInv /\ TypeOK /\ Seats /\ (~Orphans => OwnInv) /\ UNCHANGED config
  BY
  DEF UseInv, LifeInv, SeatsInv, StartTaskThread
<1>1. LifeInv'
  BY <1>0, LifeStartTaskThread
<1>2. /\ ~Orphans' => ~Orphans /\ OwnInv /\ ObjectsInv
      /\ Calm' => ~Orphans' /\ Calm /\ ProgressInv /\ ReadyInv
      /\ caps' = 0 => caps = 0
  <2>1. /\ streams' = streams \/ streams' = streams + 1
        /\ caps' = caps \/ caps' = caps + 1
    BY
    DEF StartTaskThread, history
  <2> QED BY <1>0, <2>1, StillCalm
<1>3. ASSUME ~Orphans' PROVE ObjectsInv'
  <2>1. UNCHANGED <<app, held>>
    BY
    DEF StartTaskThread, app
  <2>2. \/ CodecDeleted
        \/ /\ taskQ' # <<>> => taskQ # <<>>
           /\ tpc' # "idle" => tpc # "idle" \/ taskQ # <<>>
           /\ spc' # "idle" => spc # "idle"
           /\ state = "paused" /\ negotiated' => negotiated \/ spc # "idle"
    BY <1>0
    DEF TypeOK, StartTaskThread, Failed, MayFail, taskVars, syncVars, events, signals
  <2> QED BY <1>0, <1>2, <1>3, <2>1, <2>2, ObjectsKept
<1>4. ASSUME Calm' PROVE ProgressInv'
  <2>1. UNCHANGED <<held, inited, initing>> /\ failures \subseteq failures'
    BY
    DEF StartTaskThread, Failed, MayFail, initing, history
  <2> QED BY <1>0, <1>2, <1>4, <2>1, ProgressKept
<1>5. ASSUME Calm' PROVE ReadyInv'
  BY <1>0, <1>2, <1>5, SameElement, Positions
  DEF ReadyInv, DecoderReady, OthersReady, NobodyInits, ObjectsInv, CodecDeleted, OwnInv,
      TaskQuiet, Seats, Callers, StartTaskThread, Failed, MayFail, config, app, threads,
      taskVars, syncVars, initing, events, signals, history
<1> QED BY <1>1, <1>3, <1>4, <1>5 DEF UseInv, Calm

LEMMA UseStartSyncThread == UseInv /\ ~EosBeforeCaps /\ StartSyncThread => UseInv'
<1> SUFFICES ASSUME UseInv, ~EosBeforeCaps, StartSyncThread PROVE UseInv'
  OBVIOUS
<1>0. LifeInv /\ TypeOK /\ Seats /\ (~Orphans => OwnInv) /\ UNCHANGED config
  BY
  DEF UseInv, LifeInv, SeatsInv, StartSyncThread
<1>1. LifeInv'
  BY <1>0, LifeStartSyncThread
<1>2. /\ ~Orphans' => ~Orphans /\ OwnInv /\ ObjectsInv
      /\ Calm' => ~Orphans' /\ Calm /\ ProgressInv /\ ReadyInv
      /\ caps' = 0 => caps = 0
  <2>1. /\ streams' = streams \/ streams' = streams + 1
        /\ caps' = caps \/ caps' = caps + 1
    BY
    DEF StartSyncThread, history
  <2> QED BY <1>0, <2>1, StillCalm
<1>3. ASSUME ~Orphans' PROVE ObjectsInv'
  <2>1. UNCHANGED <<app, held>>
    BY
    DEF StartSyncThread, app
  <2>2. \/ CodecDeleted
        \/ /\ taskQ' # <<>> => taskQ # <<>>
           /\ tpc' # "idle" => tpc # "idle" \/ taskQ # <<>>
           /\ spc' # "idle" => spc # "idle"
           /\ state = "paused" /\ negotiated' => negotiated \/ spc # "idle"
    BY <1>0
    DEF TypeOK, StartSyncThread, Failed, MayFail, taskVars, syncVars, events, signals
  <2> QED BY <1>0, <1>2, <1>3, <2>1, <2>2, ObjectsKept
<1>4. ASSUME Calm' PROVE ProgressInv'
  <2>1. UNCHANGED <<held, inited, initing>> /\ failures \subseteq failures'
    BY
    DEF StartSyncThread, Failed, MayFail, initing, history
  <2> QED BY <1>0, <1>2, <1>4, <2>1, ProgressKept
<1>5. ASSUME Calm' PROVE ReadyInv'
  BY <1>0, <1>2, <1>5, SameElement, Positions
  DEF ReadyInv, DecoderReady, OthersReady, NobodyInits, ObjectsInv, CodecDeleted, OwnInv,
      TaskQuiet, Seats, Callers, StartSyncThread, Failed, MayFail, config, app, threads,
      taskVars, syncVars, initing, events, signals, history
<1> QED BY <1>1, <1>3, <1>4, <1>5 DEF UseInv, Calm

LEMMA UseOutCaps == UseInv /\ ~EosBeforeCaps /\ OutCaps => UseInv'
<1> SUFFICES ASSUME UseInv, ~EosBeforeCaps, OutCaps PROVE UseInv'
  OBVIOUS
<1>0. LifeInv /\ TypeOK /\ Seats /\ (~Orphans => OwnInv) /\ UNCHANGED config
  BY
  DEF UseInv, LifeInv, SeatsInv, OutCaps
<1>1. LifeInv'
  BY <1>0, LifeOutCaps
<1>2. /\ ~Orphans' => ~Orphans /\ OwnInv /\ ObjectsInv
      /\ Calm' => ~Orphans' /\ Calm /\ ProgressInv /\ ReadyInv
      /\ caps' = 0 => caps = 0
  <2>1. /\ streams' = streams \/ streams' = streams + 1
        /\ caps' = caps \/ caps' = caps + 1
    BY
    DEF OutCaps, history
  <2> QED BY <1>0, <2>1, StillCalm
<1>3. ASSUME ~Orphans' PROVE ObjectsInv'
  <2>1. UNCHANGED <<app, held>>
    BY
    DEF OutCaps, app
  <2>2. \/ CodecDeleted
        \/ /\ taskQ' # <<>> => taskQ # <<>>
           /\ tpc' # "idle" => tpc # "idle" \/ taskQ # <<>>
           /\ spc' # "idle" => spc # "idle"
           /\ state = "paused" /\ negotiated' => negotiated \/ spc # "idle"
    BY <1>0
    DEF TypeOK, OutCaps, NoOutCaps, Failed, MayFail, taskVars, syncVars, events, signals
  <2> QED BY <1>0, <1>2, <1>3, <2>1, <2>2, ObjectsKept
<1>4. ASSUME Calm' PROVE ProgressInv'
  <2>1. UNCHANGED <<held, inited, initing>> /\ failures \subseteq failures'
    BY
    DEF OutCaps, NoOutCaps, Failed, MayFail, initing, history
  <2> QED BY <1>0, <1>2, <1>4, <2>1, ProgressKept
<1>5. ASSUME Calm' PROVE ReadyInv'
  <2>1. UNCHANGED <<inited, initing, threads, taskVars, syncVars>>
        /\ (spc' = spc \/ spc' = "idle")
    BY
    DEF OutCaps, NoOutCaps, Failed, MayFail, initing, threads, taskVars, syncVars
  <2> QED BY <1>0, <1>2, <1>5, <2>1, ReadyKept
<1> QED BY <1>1, <1>3, <1>4, <1>5 DEF UseInv, Calm

LEMMA UseChain == UseInv /\ ~EosBeforeCaps /\ Chain => UseInv'
<1> SUFFICES ASSUME UseInv, ~EosBeforeCaps, Chain PROVE UseInv'
  OBVIOUS
<1>0. LifeInv /\ TypeOK /\ Seats /\ (~Orphans => OwnInv) /\ UNCHANGED config
  BY
  DEF UseInv, LifeInv, SeatsInv, Chain
<1>1. LifeInv'
  BY <1>0, LifeChain
<1>2. /\ ~Orphans' => ~Orphans /\ OwnInv /\ ObjectsInv
      /\ Calm' => ~Orphans' /\ Calm /\ ProgressInv /\ ReadyInv
      /\ caps' = 0 => caps = 0
  <2>1. /\ streams' = streams \/ streams' = streams + 1
        /\ caps' = caps \/ caps' = caps + 1
    BY
    DEF Chain, history
  <2> QED BY <1>0, <2>1, StillCalm
<1>3. ASSUME ~Orphans' PROVE ObjectsInv'
  BY <1>0, <1>2, <1>3, SameElement, Positions
  DEF ObjectsInv, CodecDeleted, OwnInv, TaskQuiet, Seats, Chain, Streaming, config, app,
      threads, taskVars, syncVars, initing, events, signals, history
<1>4. ASSUME Calm' PROVE ProgressInv'
  <2>1. UNCHANGED <<held, inited, initing>> /\ failures \subseteq failures'
    BY
    DEF Chain, Streaming, initing, history
  <2> QED BY <1>0, <1>2, <1>4, <2>1, ProgressKept
<1>5. ASSUME Calm' PROVE ReadyInv'
  <2>1. CASE kind # "vdec"
    <3>1. UNCHANGED <<inited, initing, threads, spc>>
      BY DEF Chain
    <3> QED BY <1>0, <1>2, <1>5, <2>1, <3>1, OthersKept
  <2>2. CASE kind = "vdec"
    <3>1. spc = "idle" /\ UNCHANGED <<inited, initing, tpc, syncVars>>
      BY DEF Chain, Streaming
    <3>2. ipc["stream"] = "no" /\ UNCHANGED <<ipc, ypc, syncQ, kind>>
      BY <1>0, <3>1, SameElement DEF Seats, initing, syncVars
    <3>3. HasOp' = HasOp /\ NobodyInits' = NobodyInits
      BY <3>2 DEF HasOp, NobodyInits
    <3>4. DecoderReady'
      BY <1>2, <1>5, <2>2, <3>1, <3>2, <3>3 DEF ReadyInv, DecoderReady
    <3> QED BY <2>2, <3>2, <3>4 DEF ReadyInv
  <2> QED BY <2>1, <2>2
<1> QED BY <1>1, <1>3, <1>4, <1>5 DEF UseInv, Calm

LEMMA UseEos == UseInv /\ ~EosBeforeCaps /\ Eos => UseInv'
<1> SUFFICES ASSUME UseInv, ~EosBeforeCaps, Eos PROVE UseInv'
  OBVIOUS
<1>0. LifeInv /\ TypeOK /\ Seats /\ (~Orphans => OwnInv) /\ UNCHANGED config
  BY
  DEF UseInv, LifeInv, SeatsInv, Eos
<1>1. LifeInv'
  BY <1>0, LifeEos
<1>2. /\ ~Orphans' => ~Orphans /\ OwnInv /\ ObjectsInv
      /\ Calm' => ~Orphans' /\ Calm /\ ProgressInv /\ ReadyInv
      /\ caps' = 0 => caps = 0
  <2>1. /\ streams' = streams \/ streams' = streams + 1
        /\ caps' = caps \/ caps' = caps + 1
    BY
    DEF Eos, history
  <2> QED BY <1>0, <2>1, StillCalm
<1>3. ASSUME ~Orphans' PROVE ObjectsInv'
  BY <1>0, <1>2, <1>3, SameElement, Positions
  DEF ObjectsInv, CodecDeleted, OwnInv, TaskQuiet, Seats, Eos, Streaming, config, app,
      threads, taskVars, syncVars, initing, events, signals, history
<1>4. ASSUME Calm' PROVE ProgressInv'
  <2>1. UNCHANGED <<held, inited, initing>> /\ failures \subseteq failures'
    BY
    DEF Eos, Streaming, initing, history
  <2> QED BY <1>0, <1>2, <1>4, <2>1, ProgressKept
<1>5. ASSUME Calm' PROVE ReadyInv'
  <2>1. CASE kind # "vdec"
    <3>1. UNCHANGED <<inited, initing, threads, spc>>
      BY DEF Eos
    <3> QED BY <1>0, <1>2, <1>5, <2>1, <3>1, OthersKept
  <2>2. CASE kind = "vdec"
    <3>1. spc = "idle" /\ UNCHANGED <<inited, initing, tpc, syncVars>>
      BY DEF Eos, Streaming
    <3>2. ipc["stream"] = "no" /\ UNCHANGED <<ipc, ypc, syncQ, kind>>
      BY <1>0, <3>1, SameElement DEF Seats, initing, syncVars
    <3>3. HasOp' = HasOp /\ NobodyInits' = NobodyInits
      BY <3>2 DEF HasOp, NobodyInits
    <3>4. DecoderReady'
      BY <1>2, <1>5, <2>2, <3>1, <3>2, <3>3 DEF ReadyInv, DecoderReady
    <3> QED BY <2>2, <3>2, <3>4 DEF ReadyInv
  <2> QED BY <2>1, <2>2
<1> QED BY <1>1, <1>3, <1>4, <1>5 DEF UseInv, Calm

LEMMA UseTakeTask == UseInv /\ ~EosBeforeCaps /\ TakeTask => UseInv'
<1> SUFFICES ASSUME UseInv, ~EosBeforeCaps, TakeTask PROVE UseInv'
  OBVIOUS
<1>0. LifeInv /\ TypeOK /\ Seats /\ (~Orphans => OwnInv) /\ UNCHANGED config
  BY
  DEF UseInv, LifeInv, SeatsInv, TakeTask
<1>1. LifeInv'
  BY <1>0, LifeTakeTask
<1>2. /\ ~Orphans' => ~Orphans /\ OwnInv /\ ObjectsInv
      /\ Calm' => ~Orphans' /\ Calm /\ ProgressInv /\ ReadyInv
      /\ caps' = 0 => caps = 0
  <2>1. /\ streams' = streams \/ streams' = streams + 1
        /\ caps' = caps \/ caps' = caps + 1
    BY
    DEF TakeTask, history
  <2> QED BY <1>0, <2>1, StillCalm
<1>3. ASSUME ~Orphans' PROVE ObjectsInv'
  <2>1. UNCHANGED <<app, held>>
    BY
    DEF TakeTask, app
  <2>2. \/ CodecDeleted
        \/ /\ taskQ' # <<>> => taskQ # <<>>
           /\ tpc' # "idle" => tpc # "idle" \/ taskQ # <<>>
           /\ spc' # "idle" => spc # "idle"
           /\ state = "paused" /\ negotiated' => negotiated \/ spc # "idle"
    BY <1>0
    DEF TypeOK, TakeTask, taskVars, syncVars, events, signals
  <2> QED BY <1>0, <1>2, <1>3, <2>1, <2>2, ObjectsKept
<1>4. ASSUME Calm' PROVE ProgressInv'
  <2>1. UNCHANGED <<held, inited, initing>> /\ failures \subseteq failures'
    BY
    DEF TakeTask, initing, history
  <2> QED BY <1>0, <1>2, <1>4, <2>1, ProgressKept
<1>5. ASSUME Calm' PROVE ReadyInv'
  <2>1. CASE kind # "vdec"
    <3>1. UNCHANGED <<inited, initing, threads, spc>>
      BY DEF TakeTask
    <3> QED BY <1>0, <1>2, <1>5, <2>1, <3>1, OthersKept
  <2>2. CASE kind = "vdec"
    <3>1. /\ tpc = "idle" /\ taskQ # <<>> /\ UNCHANGED <<inited, initing, syncVars>>
          /\ tpc' \in {"drain", "fill", "using"}
          /\ tpc' = "fill" => ~inited
          /\ tpc' = "using" => inited
      BY <2>2 DEF TakeTask
    <3>2. UNCHANGED <<ipc, ypc, syncQ, kind>>
      BY <1>0, <3>1, SameElement DEF initing, syncVars
    <3>3. HasOp' = HasOp /\ NobodyInits' = NobodyInits
      BY <3>2 DEF HasOp, NobodyInits
    <3>4. DecoderReady
      BY <1>2, <1>5, <2>2 DEF ReadyInv
    <3>5. ipc["stream"] = "no" /\ NobodyInits
      BY <1>0, <3>1, <3>4 DEF DecoderReady, NobodyInits, Seats
    <3>6. DecoderReady'
      BY <3>1, <3>2, <3>3, <3>4, <3>5 DEF DecoderReady
    <3> QED BY <2>2, <3>2, <3>6 DEF ReadyInv
  <2> QED BY <2>1, <2>2
<1> QED BY <1>1, <1>3, <1>4, <1>5 DEF UseInv, Calm

LEMMA UseFillVideoParams == UseInv /\ ~EosBeforeCaps /\ FillVideoParams => UseInv'
<1> SUFFICES ASSUME UseInv, ~EosBeforeCaps, FillVideoParams PROVE UseInv'
  OBVIOUS
<1>0. LifeInv /\ TypeOK /\ Seats /\ (~Orphans => OwnInv) /\ UNCHANGED config
  BY
  DEF UseInv, LifeInv, SeatsInv, FillVideoParams
<1>1. LifeInv'
  BY <1>0, LifeFillVideoParams
<1>2. /\ ~Orphans' => ~Orphans /\ OwnInv /\ ObjectsInv
      /\ Calm' => ~Orphans' /\ Calm /\ ProgressInv /\ ReadyInv
      /\ caps' = 0 => caps = 0
  <2>1. /\ streams' = streams \/ streams' = streams + 1
        /\ caps' = caps \/ caps' = caps + 1
    BY
    DEF FillVideoParams, history
  <2> QED BY <1>0, <2>1, StillCalm
<1>6. /\ kind = "vdec" /\ tpc = "fill" /\ "session" \in held /\ ipc["task"] = "no"
      /\ UNCHANGED <<held, inited, taskQ, syncVars, spc>>
      /\ failures \subseteq failures' /\ ipc'["stream"] = ipc["stream"]
      /\ istep'["stream"] = istep["stream"]
      /\ tpc' \in {"init", "idle"}
      /\ ipc'["task"] = "no" \/ (ipc'["task"] = "do" /\ istep'["task"] = 1)
  <2>1. /\ tpc = "fill" /\ "session" \in held
        /\ UNCHANGED <<held, inited, taskQ, syncVars, spc>>
        /\ failures \subseteq failures'
        /\ tpc' \in {"init", "idle"}
        /\ UNCHANGED initing \/ Enter("task")
    BY DEF FillVideoParams, Failed
  <2>2. ipc["task"] = "no" /\ kind = "vdec"
    BY <1>0, <2>1 DEF Seats
  <2>3. CASE UNCHANGED initing
    BY <2>1, <2>2, <2>3 DEF initing
  <2>4. CASE Enter("task")
    BY <1>0, <2>1, <2>2, <2>4, Entered DEF Callers
  <2> QED BY <2>1, <2>3, <2>4
<1>3. ASSUME ~Orphans' PROVE ObjectsInv'
  <2>1. UNCHANGED <<app, held>>
    BY
    DEF FillVideoParams, app
  <2>2. \/ CodecDeleted
        \/ /\ taskQ' # <<>> => taskQ # <<>>
           /\ tpc' # "idle" => tpc # "idle" \/ taskQ # <<>>
           /\ spc' # "idle" => spc # "idle"
           /\ state = "paused" /\ negotiated' => negotiated \/ spc # "idle"
    BY <1>0
    DEF TypeOK, FillVideoParams, Failed, MayFail, taskVars, syncVars, events, signals
  <2> QED BY <1>0, <1>2, <1>3, <2>1, <2>2, ObjectsKept
<1>4. ASSUME Calm' PROVE ProgressInv'
  <2>1. ProgressInv /\ ObjectsInv /\ OwnInv /\ DecoderReady /\ Callers = {"stream", "task"}
    BY <1>2, <1>4, <1>6 DEF ReadyInv, Callers
  <2>2. ~inited /\ ipc["stream"] = "no" /\ ~CodecDeleted
    <3>1. state # "null" /\ ~(apc = "dispose" /\ astep > 1)
      BY <1>6, <2>1 DEF OwnInv, TaskQuiet
    <3>2. apc = "dispose" => astep \in Int
      BY <1>0 DEF TypeOK
    <3> QED BY <1>6, <2>1, <3>1, <3>2 DEF DecoderReady, CodecDeleted
  <2>3. "codec" \in held /\ "pool" \notin held
    BY <1>6, <2>1, <2>2 DEF ObjectsInv, ProgressInv, NobodyInits
  <2>4. ipc'["task"] = "do" => Doing("task")'
    BY <1>0, <1>6, <2>2, <2>3, SameElement, Positions DEF Doing
  <2>5. caps' = 0 => "fc" \notin held'
    BY <1>2, <1>6, <2>1 DEF ProgressInv
  <2> QED BY <1>6, <2>1, <2>2, <2>3, <2>4, <2>5 DEF ProgressInv, NobodyInits
<1>5. ASSUME Calm' PROVE ReadyInv'
  <2>1. DecoderReady
    BY <1>2, <1>5, <1>6 DEF ReadyInv
  <2>2. ypc # "using" /\ ~HasOp /\ ipc["stream"] = "no"
    BY <1>6, <2>1 DEF DecoderReady
  <2>3. ypc' = ypc /\ ~HasOp'
    BY <1>6, <2>2 DEF HasOp, syncVars
  <2>4. DecoderReady'
    BY <1>6, <2>2, <2>3 DEF DecoderReady
  <2> QED BY <1>0, <1>6, <2>4, SameElement DEF ReadyInv
<1> QED BY <1>1, <1>3, <1>4, <1>5 DEF UseInv, Calm

LEMMA UseProcessed == UseInv /\ ~EosBeforeCaps /\ Processed => UseInv'
<1> SUFFICES ASSUME UseInv, ~EosBeforeCaps, Processed PROVE UseInv'
  OBVIOUS
<1>0. LifeInv /\ TypeOK /\ Seats /\ (~Orphans => OwnInv) /\ UNCHANGED config
  BY
  DEF UseInv, LifeInv, SeatsInv, Processed
<1>1. LifeInv'
  BY <1>0, LifeProcessed
<1>2. /\ ~Orphans' => ~Orphans /\ OwnInv /\ ObjectsInv
      /\ Calm' => ~Orphans' /\ Calm /\ ProgressInv /\ ReadyInv
      /\ caps' = 0 => caps = 0
  <2>1. /\ streams' = streams \/ streams' = streams + 1
        /\ caps' = caps \/ caps' = caps + 1
    BY
    DEF Processed, history
  <2> QED BY <1>0, <2>1, StillCalm
<1>3. ASSUME ~Orphans' PROVE ObjectsInv'
  <2>1. UNCHANGED <<app, held>>
    BY
    DEF Processed, app
  <2>2. \/ CodecDeleted
        \/ /\ taskQ' # <<>> => taskQ # <<>>
           /\ tpc' # "idle" => tpc # "idle" \/ taskQ # <<>>
           /\ spc' # "idle" => spc # "idle"
           /\ state = "paused" /\ negotiated' => negotiated \/ spc # "idle"
    BY <1>0
    DEF TypeOK, Processed, PostSync, taskVars, syncVars, events, signals
  <2> QED BY <1>0, <1>2, <1>3, <2>1, <2>2, ObjectsKept
<1>4. ASSUME Calm' PROVE ProgressInv'
  <2>1. UNCHANGED <<held, inited, initing>> /\ failures \subseteq failures'
    BY
    DEF Processed, PostSync, initing, history
  <2> QED BY <1>0, <1>2, <1>4, <2>1, ProgressKept
<1>5. ASSUME Calm' PROVE ReadyInv'
  BY <1>0, <1>2, <1>5, SameElement, Positions
  DEF ReadyInv, DecoderReady, OthersReady, NobodyInits, ObjectsInv, CodecDeleted, OwnInv,
      TaskQuiet, Seats, Callers, Processed, PostSync, config, app, threads, taskVars,
      syncVars, initing, events, signals, history
<1> QED BY <1>1, <1>3, <1>4, <1>5 DEF UseInv, Calm

LEMMA UseDrained == UseInv /\ ~EosBeforeCaps /\ Drained => UseInv'
<1> SUFFICES ASSUME UseInv, ~EosBeforeCaps, Drained PROVE UseInv'
  OBVIOUS
<1>0. LifeInv /\ TypeOK /\ Seats /\ (~Orphans => OwnInv) /\ UNCHANGED config
  BY
  DEF UseInv, LifeInv, SeatsInv, Drained
<1>1. LifeInv'
  BY <1>0, LifeDrained
<1>2. /\ ~Orphans' => ~Orphans /\ OwnInv /\ ObjectsInv
      /\ Calm' => ~Orphans' /\ Calm /\ ProgressInv /\ ReadyInv
      /\ caps' = 0 => caps = 0
  <2>1. /\ streams' = streams \/ streams' = streams + 1
        /\ caps' = caps \/ caps' = caps + 1
    BY
    DEF Drained, history
  <2> QED BY <1>0, <2>1, StillCalm
<1>3. ASSUME ~Orphans' PROVE ObjectsInv'
  <2>1. UNCHANGED <<app, held>>
    BY
    DEF Drained, app
  <2>2. \/ CodecDeleted
        \/ /\ taskQ' # <<>> => taskQ # <<>>
           /\ tpc' # "idle" => tpc # "idle" \/ taskQ # <<>>
           /\ spc' # "idle" => spc # "idle"
           /\ state = "paused" /\ negotiated' => negotiated \/ spc # "idle"
    BY <1>0
    DEF TypeOK, Drained, PostSync, taskVars, syncVars, events, signals
  <2> QED BY <1>0, <1>2, <1>3, <2>1, <2>2, ObjectsKept
<1>4. ASSUME Calm' PROVE ProgressInv'
  <2>1. UNCHANGED <<held, inited, initing>> /\ failures \subseteq failures'
    BY
    DEF Drained, PostSync, initing, history
  <2> QED BY <1>0, <1>2, <1>4, <2>1, ProgressKept
<1>5. ASSUME Calm' PROVE ReadyInv'
  <2>1. CASE kind # "vdec"
    <3>1. UNCHANGED <<inited, initing, threads, spc>>
      BY DEF Drained
    <3> QED BY <1>0, <1>2, <1>5, <2>1, <3>1, OthersKept
  <2>2. CASE kind = "vdec"
    <3>1. /\ tpc' = "idle" /\ UNCHANGED <<inited, initing, taskQ, ypc>>
          /\ syncQ' = syncQ \/ syncQ' = Append(syncQ, "eos")
      BY DEF Drained, PostSync
    <3>2. UNCHANGED <<ipc, kind>> /\ (HasOp' => HasOp)
      BY <1>0, <3>1, SameElement, OpsInQueue DEF initing
    <3>3. NobodyInits' = NobodyInits
      BY <3>2 DEF NobodyInits
    <3>4. DecoderReady'
      BY <1>2, <1>5, <2>2, <3>1, <3>2, <3>3 DEF ReadyInv, DecoderReady
    <3> QED BY <2>2, <3>2, <3>4 DEF ReadyInv
  <2> QED BY <2>1, <2>2
<1> QED BY <1>1, <1>3, <1>4, <1>5 DEF UseInv, Calm

LEMMA UseTakeSync == UseInv /\ ~EosBeforeCaps /\ TakeSync => UseInv'
<1> SUFFICES ASSUME UseInv, ~EosBeforeCaps, TakeSync PROVE UseInv'
  OBVIOUS
<1>0. LifeInv /\ TypeOK /\ Seats /\ (~Orphans => OwnInv) /\ UNCHANGED config
  BY
  DEF UseInv, LifeInv, SeatsInv, TakeSync
<1>1. LifeInv'
  BY <1>0, LifeTakeSync
<1>2. /\ ~Orphans' => ~Orphans /\ OwnInv /\ ObjectsInv
      /\ Calm' => ~Orphans' /\ Calm /\ ProgressInv /\ ReadyInv
      /\ caps' = 0 => caps = 0
  <2>1. /\ streams' = streams \/ streams' = streams + 1
        /\ caps' = caps \/ caps' = caps + 1
    BY
    DEF TakeSync, history
  <2> QED BY <1>0, <2>1, StillCalm
<1>3. ASSUME ~Orphans' PROVE ObjectsInv'
  <2>1. UNCHANGED <<app, held>>
    BY
    DEF TakeSync, app
  <2>2. \/ CodecDeleted
        \/ /\ taskQ' # <<>> => taskQ # <<>>
           /\ tpc' # "idle" => tpc # "idle" \/ taskQ # <<>>
           /\ spc' # "idle" => spc # "idle"
           /\ state = "paused" /\ negotiated' => negotiated \/ spc # "idle"
    BY <1>0
    DEF TypeOK, TakeSync, taskVars, syncVars, events, signals
  <2> QED BY <1>0, <1>2, <1>3, <2>1, <2>2, ObjectsKept
<1>4. ASSUME Calm' PROVE ProgressInv'
  <2>1. UNCHANGED <<held, inited, initing>> /\ failures \subseteq failures'
    BY
    DEF TakeSync, initing, history
  <2> QED BY <1>0, <1>2, <1>4, <2>1, ProgressKept
<1>5. ASSUME Calm' PROVE ReadyInv'
  <2>1. CASE kind # "vdec"
    <3>1. UNCHANGED <<inited, initing, threads, spc>>
      BY DEF TakeSync
    <3> QED BY <1>0, <1>2, <1>5, <2>1, <3>1, OthersKept
  <2>2. CASE kind = "vdec"
    <3>1. /\ syncQ # <<>> /\ syncQ' = Tail(syncQ) /\ UNCHANGED <<inited, initing, taskQ, tpc>>
          /\ ypc' = "using" => Head(syncQ) = "op"
      BY DEF TakeSync, taskVars
    <3>2. UNCHANGED <<ipc, kind>> /\ (HasOp' => HasOp) /\ (ypc' = "using" => HasOp)
      BY <1>0, <3>1, SameElement, OpsInQueue DEF initing
    <3>3. NobodyInits' = NobodyInits
      BY <3>2 DEF NobodyInits
    <3>4. DecoderReady'
      BY <1>2, <1>5, <2>2, <3>1, <3>2, <3>3 DEF ReadyInv, DecoderReady
    <3> QED BY <2>2, <3>2, <3>4 DEF ReadyInv
  <2> QED BY <2>1, <2>2
<1> QED BY <1>1, <1>3, <1>4, <1>5 DEF UseInv, Calm

LEMMA UseSynced == UseInv /\ ~EosBeforeCaps /\ Synced => UseInv'
<1> SUFFICES ASSUME UseInv, ~EosBeforeCaps, Synced PROVE UseInv'
  OBVIOUS
<1>0. LifeInv /\ TypeOK /\ Seats /\ (~Orphans => OwnInv) /\ UNCHANGED config
  BY
  DEF UseInv, LifeInv, SeatsInv, Synced
<1>1. LifeInv'
  BY <1>0, LifeSynced
<1>2. /\ ~Orphans' => ~Orphans /\ OwnInv /\ ObjectsInv
      /\ Calm' => ~Orphans' /\ Calm /\ ProgressInv /\ ReadyInv
      /\ caps' = 0 => caps = 0
  <2>1. /\ streams' = streams \/ streams' = streams + 1
        /\ caps' = caps \/ caps' = caps + 1
    BY
    DEF Synced, history
  <2> QED BY <1>0, <2>1, StillCalm
<1>3. ASSUME ~Orphans' PROVE ObjectsInv'
  <2>1. UNCHANGED <<app, held>>
    BY
    DEF Synced, app
  <2>2. \/ CodecDeleted
        \/ /\ taskQ' # <<>> => taskQ # <<>>
           /\ tpc' # "idle" => tpc # "idle" \/ taskQ # <<>>
           /\ spc' # "idle" => spc # "idle"
           /\ state = "paused" /\ negotiated' => negotiated \/ spc # "idle"
    BY <1>0
    DEF TypeOK, Synced, taskVars, syncVars, events, signals
  <2> QED BY <1>0, <1>2, <1>3, <2>1, <2>2, ObjectsKept
<1>4. ASSUME Calm' PROVE ProgressInv'
  <2>1. UNCHANGED <<held, inited, initing>> /\ failures \subseteq failures'
    BY
    DEF Synced, initing, history
  <2> QED BY <1>0, <1>2, <1>4, <2>1, ProgressKept
<1>5. ASSUME Calm' PROVE ReadyInv'
  BY <1>0, <1>2, <1>5, SameElement, Positions
  DEF ReadyInv, DecoderReady, OthersReady, NobodyInits, ObjectsInv, CodecDeleted, OwnInv,
      TaskQuiet, Seats, Callers, Synced, config, app, threads, taskVars, syncVars,
      initing, events, signals, history
<1> QED BY <1>1, <1>3, <1>4, <1>5 DEF UseInv, Calm

LEMMA UsePausedToReady == UseInv /\ ~EosBeforeCaps /\ PausedToReady => UseInv'
<1> SUFFICES ASSUME UseInv, ~EosBeforeCaps, PausedToReady PROVE UseInv'
  OBVIOUS
<1>0. LifeInv /\ TypeOK /\ Seats /\ (~Orphans => OwnInv) /\ UNCHANGED config
  BY
  DEF UseInv, LifeInv, SeatsInv, PausedToReady
<1>1. LifeInv'
  BY <1>0, LifePausedToReady
<1>2. /\ ~Orphans' => ~Orphans /\ OwnInv /\ ObjectsInv
      /\ Calm' => ~Orphans' /\ Calm /\ ProgressInv /\ ReadyInv
      /\ caps' = 0 => caps = 0
  <2>1. /\ streams' = streams \/ streams' = streams + 1
        /\ caps' = caps \/ caps' = caps + 1
    BY
    DEF PausedToReady, history
  <2> QED BY <1>0, <2>1, StillCalm
<1>3. ASSUME ~Orphans' PROVE ObjectsInv'
  BY <1>0, <1>2, <1>3, SameElement, Positions
  DEF ObjectsInv, CodecDeleted, OwnInv, TaskQuiet, Seats, PausedToReady, config, app,
      threads, taskVars, syncVars, initing, events, signals, history
<1>4. ASSUME Calm' PROVE ProgressInv'
  <2>1. UNCHANGED <<held, inited, initing>> /\ failures \subseteq failures'
    BY
    DEF PausedToReady, initing, history
  <2> QED BY <1>0, <1>2, <1>4, <2>1, ProgressKept
<1>5. ASSUME Calm' PROVE ReadyInv'
  <2>1. UNCHANGED <<inited, initing, threads, taskVars, syncVars>>
        /\ (spc' = spc \/ spc' = "idle")
    BY
    DEF PausedToReady, initing, threads, taskVars, syncVars
  <2> QED BY <1>0, <1>2, <1>5, <2>1, ReadyKept
<1> QED BY <1>1, <1>3, <1>4, <1>5 DEF UseInv, Calm

LEMMA UseFlushed == UseInv /\ ~EosBeforeCaps /\ Flushed => UseInv'
<1> SUFFICES ASSUME UseInv, ~EosBeforeCaps, Flushed PROVE UseInv'
  OBVIOUS
<1>0. LifeInv /\ TypeOK /\ Seats /\ (~Orphans => OwnInv) /\ UNCHANGED config
  BY
  DEF UseInv, LifeInv, SeatsInv, Flushed
<1>1. LifeInv'
  BY <1>0, LifeFlushed
<1>2. /\ ~Orphans' => ~Orphans /\ OwnInv /\ ObjectsInv
      /\ Calm' => ~Orphans' /\ Calm /\ ProgressInv /\ ReadyInv
      /\ caps' = 0 => caps = 0
  <2>1. /\ streams' = streams \/ streams' = streams + 1
        /\ caps' = caps \/ caps' = caps + 1
    BY
    DEF Flushed, history
  <2> QED BY <1>0, <2>1, StillCalm
<1>3. ASSUME ~Orphans' PROVE ObjectsInv'
  BY <1>0, <1>2, <1>3, SameElement, Positions
  DEF ObjectsInv, CodecDeleted, OwnInv, TaskQuiet, Seats, Flushed, config, app, threads,
      taskVars, syncVars, initing, events, signals, history
<1>4. ASSUME Calm' PROVE ProgressInv'
  <2>1. UNCHANGED <<held, inited, initing>> /\ failures \subseteq failures'
    BY
    DEF Flushed, initing, history
  <2> QED BY <1>0, <1>2, <1>4, <2>1, ProgressKept
<1>5. ASSUME Calm' PROVE ReadyInv'
  <2>1. UNCHANGED <<inited, initing, threads, taskVars, syncVars>>
        /\ (spc' = spc \/ spc' = "idle")
    BY
    DEF Flushed, initing, threads, taskVars, syncVars
  <2> QED BY <1>0, <1>2, <1>5, <2>1, ReadyKept
<1> QED BY <1>1, <1>3, <1>4, <1>5 DEF UseInv, Calm

LEMMA UseReadyToNull == UseInv /\ ~EosBeforeCaps /\ ReadyToNull => UseInv'
<1> SUFFICES ASSUME UseInv, ~EosBeforeCaps, ReadyToNull PROVE UseInv'
  OBVIOUS
<1>0. LifeInv /\ TypeOK /\ Seats /\ (~Orphans => OwnInv) /\ UNCHANGED config
  BY
  DEF UseInv, LifeInv, SeatsInv, ReadyToNull
<1>1. LifeInv'
  BY <1>0, LifeReadyToNull
<1>2. /\ ~Orphans' => ~Orphans /\ OwnInv /\ ObjectsInv
      /\ Calm' => ~Orphans' /\ Calm /\ ProgressInv /\ ReadyInv
      /\ caps' = 0 => caps = 0
  <2>1. /\ streams' = streams \/ streams' = streams + 1
        /\ caps' = caps \/ caps' = caps + 1
    BY
    DEF ReadyToNull, history
  <2> QED BY <1>0, <2>1, StillCalm
<1>3. ASSUME ~Orphans' PROVE ObjectsInv'
  BY <1>0, <1>2, <1>3, SameElement, Positions
  DEF ObjectsInv, CodecDeleted, OwnInv, TaskQuiet, Seats, ReadyToNull, config, app, threads,
      taskVars, syncVars, initing, events, signals, history
<1>4. ASSUME Calm' PROVE ProgressInv'
  <2>1. UNCHANGED <<held, inited, initing>> /\ failures \subseteq failures'
    BY
    DEF ReadyToNull, initing, history
  <2> QED BY <1>0, <1>2, <1>4, <2>1, ProgressKept
<1>5. ASSUME Calm' PROVE ReadyInv'
  <2>1. UNCHANGED <<inited, initing, threads, taskVars, syncVars>>
        /\ (spc' = spc \/ spc' = "idle")
    BY
    DEF ReadyToNull, initing, threads, taskVars, syncVars
  <2> QED BY <1>0, <1>2, <1>5, <2>1, ReadyKept
<1> QED BY <1>1, <1>3, <1>4, <1>5 DEF UseInv, Calm

LEMMA UseNullToReady == UseInv /\ NullToReady => UseInv'
<1> SUFFICES ASSUME UseInv, NullToReady PROVE UseInv'
  OBVIOUS
<1>0. LifeInv /\ TypeOK /\ Seats /\ (~Orphans => OwnInv) /\ UNCHANGED config
  BY DEF UseInv, LifeInv, SeatsInv, NullToReady
<1>1. LifeInv'
  BY <1>0, LifeNullToReady
<1>2. /\ state = "null" /\ apc = "idle" /\ apc' = "base" /\ astep' = 1 /\ state' = "null"
      /\ UNCHANGED <<held, inited, taskQ, tpc, syncQ, ypc, spc, ipc, task, sync>>
  BY DEF NullToReady, threads, taskVars, syncVars, initing
<1>3. ~Orphans' => ~Orphans
  BY <1>0, SameElement, BoundsAssumption DEF Orphans, NullToReady, TypeOK
<1>4. ASSUME ~Orphans'
      PROVE  /\ held' = {} /\ ~inited' /\ tpc' = "idle" /\ ypc' = "idle" /\ syncQ' = <<>>
             /\ spc' = "idle" /\ ipc'["stream"] = "no" /\ ipc'["task"] = "no"
             /\ ~task'.started /\ ~sync'.started
  BY <1>0, <1>2, <1>3, <1>4 DEF OwnInv, TaskQuiet, SyncQuiet, Seats
<1>5. ASSUME ~Orphans' PROVE ObjectsInv'
  BY <1>2, <1>4, <1>5, Positions, SameElement, <1>0 DEF ObjectsInv, CodecDeleted
<1>6. ASSUME Calm' PROVE ProgressInv'
  <2>1. \A c \in Callers : ipc'[c] = "no"
    BY <1>4, <1>6 DEF Calm, Callers
  <2> QED BY <1>4, <1>6, <2>1 DEF Calm, ProgressInv
<1>7. ASSUME Calm' PROVE ReadyInv'
  <2>1. ~HasOp'
    BY <1>4, <1>7 DEF Calm, HasOp
  <2> QED BY <1>4, <1>7, <2>1 DEF Calm, ReadyInv, DecoderReady, OthersReady
<1> QED BY <1>1, <1>5, <1>6, <1>7 DEF UseInv

-----------------------------------------------------------------------------
(* While a thread is in Init() the element has its codec object and fc_, and, *)
(* in the first stream after the first CAPS event, nothing else uses them. *)

LEMMA InitsHold ==
  ASSUME UseInv, ~Orphans, NEW c \in Callers, ipc[c] # "no"
  PROVE  /\ state # "null" /\ ~(apc = "dispose" /\ astep > 1) /\ ~CodecDeleted
         /\ "codec" \in held
         /\ kind = "vdec" => "fc" \in held
<1>1. OwnInv /\ ObjectsInv /\ Seats /\ TypeOK
  BY DEF UseInv, LifeInv, SeatsInv
<1>2. c \in {"stream", "task"} /\ (spc = "init" \/ tpc = "init")
  BY <1>1 DEF Seats, Callers
<1>3. state # "null" /\ ~(apc = "dispose" /\ astep > 1)
  BY <1>1, <1>2 DEF OwnInv, TaskQuiet, Seats
<1>4. ~CodecDeleted
  <2>1. astep \in Int
    BY <1>1 DEF TypeOK
  <2> QED BY <1>3, <2>1 DEF CodecDeleted
<1> QED BY <1>1, <1>2, <1>3, <1>4 DEF ObjectsInv

LEMMA InitsAlone ==
  ASSUME UseInv, Calm, NEW c \in Callers, ipc[c] # "no"
  PROVE  /\ \A d \in Callers \ {c} : ipc[d] = "no"
         /\ caps # 0
         /\ kind = "vdec" => /\ ypc # "using" /\ ~HasOp
                             /\ c = "stream" => tpc = "idle" /\ taskQ = <<>>
         /\ kind # "vdec" => c = "stream" /\ ~task.started /\ ~sync.started
<1>1. ProgressInv /\ ReadyInv /\ Seats /\ ~NobodyInits /\ ~Orphans
  BY DEF UseInv, LifeInv, SeatsInv, Calm, NobodyInits, Callers
<1>2. c \in {"stream", "task"} /\ Callers = {"stream", "task"}
  BY DEF Callers
<1>3. CASE kind = "vdec"
  <2>1. "fc" \in held
    BY <1>1, <1>3, InitsHold
  <2>2. DecoderReady
    BY <1>1, <1>3 DEF ReadyInv
  <2>3. ipc["stream"] # "no" => ipc["task"] = "no"
    BY <1>1, <2>2 DEF DecoderReady, Seats
  <2>4. caps # 0
    BY <1>1, <2>1 DEF ProgressInv
  <2> QED BY <1>1, <1>2, <1>3, <2>2, <2>3, <2>4 DEF DecoderReady
<1>4. CASE kind # "vdec"
  <2>1. OthersReady /\ ipc["task"] = "no"
    BY <1>1, <1>4 DEF ReadyInv, Seats
  <2>2. c = "stream" /\ spc = "init"
    BY <1>1, <1>2, <2>1 DEF Seats
  <2> QED BY <1>1, <1>2, <1>4, <2>1, <2>2 DEF OthersReady
<1> QED BY <1>3, <1>4

LEMMA UseInitStep ==
  ASSUME UseInv, NEW c \in Callers, InitStep(c)
  PROVE  UseInv'
<1>0. LifeInv /\ SeatsInv /\ TypeOK /\ Seats
  BY DEF UseInv, LifeInv, SeatsInv
<1>1. LifeInv'
  BY <1>0, LifeInitStep
<1> DEFINE w == NextInit(c)
<1>2. /\ ipc[c] = "do" /\ istep[c] \in 1 .. InitLen /\ Possible(w)
      /\ w \in InitFaults
      /\ w = "init" <=> istep[c] = InitAt
      /\ w = "pool" <=> istep[c] = PoolAt
      /\ held' = held \cup ({w} \cap Resources) /\ inited' = (inited \/ w = "init")
      /\ OtherStays(c)
      /\ UNCHANGED <<config, app, threads, taskQ, syncVars, events, signals, history>>
  BY <1>0, InitStepIs
<1>3. /\ istep[c] = InitLen => ipc'[c] = "no"
      /\ istep[c] = InitLen /\ c = "stream" =>
           spc' = (IF kind = "vdec" THEN "outCaps" ELSE "start")
      /\ istep[c] = InitLen /\ c = "task" => tpc' = "using"
      /\ istep[c] # InitLen =>
           ipc'[c] = "do" /\ istep'[c] = istep[c] + 1 /\ UNCHANGED <<spc, tpc>>
      /\ c # "stream" => UNCHANGED spc
      /\ c # "task" => UNCHANGED tpc
  BY <1>0, InitStepIs
<1> HIDE DEF w
<1>4. /\ c \in {"stream", "task"} /\ Callers = {"stream", "task"}
      /\ c = "stream" => spc = "init"
      /\ c = "task" => tpc = "init"
  BY <1>0, <1>2 DEF Seats, Callers
<1>5. /\ UNCHANGED <<caps, streams, failures, state, apc, astep, negotiated, task, sync,
                     syncQ, ypc, kind>>
  BY <1>2, SameElement DEF history, app, events, threads, syncVars
<1>6. /\ ~Orphans' => ~Orphans /\ OwnInv /\ ObjectsInv
      /\ Calm' => ~Orphans' /\ Calm /\ ProgressInv /\ ReadyInv
  BY <1>2, <1>5, StillCalm
<1>7. ASSUME ~Orphans' PROVE ObjectsInv'
  <2>1. /\ state # "null" /\ ~(apc = "dispose" /\ astep > 1)
        /\ "codec" \in held /\ (kind = "vdec" => "fc" \in held)
    BY <1>2, <1>6, <1>7, InitsHold
  <2>2. apc # "base" /\ astep \in Int /\ held \subseteq held'
    BY <1>0, <1>2, <2>1 DEF Seats, TypeOK
  <2> QED BY <1>5, <2>1, <2>2 DEF ObjectsInv, CodecDeleted
<1>8. ASSUME Calm'
      PROVE  /\ ProgressInv /\ ReadyInv /\ Doing(c) /\ caps' # 0
             /\ "session" \in held /\ "session" \in held'
             /\ \A d \in Callers \ {c} : ipc'[d] = "no"
             /\ inited' <=> istep[c] >= InitAt
             /\ "pool" \in held' <=> istep[c] >= PoolAt
  <2>1. ProgressInv /\ ReadyInv /\ Doing(c) /\ caps' # 0
        /\ \A d \in Callers \ {c} : ipc'[d] = "no"
    BY <1>2, <1>5, <1>6, <1>8, InitsAlone DEF ProgressInv, OtherStays
  <2>2. "session" \in held
    <3>1. CASE w = "pool"
      BY <1>2, <2>1, <3>1, Positions DEF Doing
    <3>2. CASE w # "pool"
      BY <1>2, <3>2 DEF Possible, InitFaults
    <3> QED BY <3>1, <3>2
  <2>3. /\ inited <=> istep[c] > InitAt
        /\ "pool" \in held <=> istep[c] > PoolAt
    BY <2>1 DEF Doing
  <2>4. inited' <=> istep[c] >= InitAt
    <3>1. (w = "init") <=> istep[c] = InitAt
      BY <1>2
    <3>2. istep[c] >= InitAt <=> istep[c] > InitAt \/ istep[c] = InitAt
      BY <1>2, Positions
    <3> QED BY <1>2, <2>3, <3>1, <3>2
  <2>5. "pool" \in held' <=> istep[c] >= PoolAt
    <3>1. (w = "pool") <=> istep[c] = PoolAt
      BY <1>2
    <3>2. istep[c] >= PoolAt <=> istep[c] > PoolAt \/ istep[c] = PoolAt
      BY <1>2, Positions
    <3>3. "pool" \in held' <=> "pool" \in held \/ w = "pool"
      BY <1>2 DEF Resources
    <3> QED BY <2>3, <3>1, <3>2, <3>3
  <2> QED BY <1>2, <2>1, <2>2, <2>4, <2>5
<1>9. ASSUME Calm' PROVE ProgressInv'
  <2>1. CASE istep[c] = InitLen
    <3>1. inited' /\ "pool" \in held' /\ \A d \in Callers : ipc'[d] = "no"
      BY <1>2, <1>3, <1>8, <1>9, <2>1, Positions
    <3> QED BY <1>4, <1>8, <1>9, <3>1 DEF ProgressInv
  <2>2. CASE istep[c] # InitLen
    <3>1. /\ istep'[c] > InitAt <=> istep[c] >= InitAt
          /\ istep'[c] > PoolAt <=> istep[c] >= PoolAt
      BY <1>2, <1>3, <2>2, Positions
    <3>2. Doing(c)'
      BY <1>2, <1>8, <1>9, <3>1, SameElement DEF Doing
    <3>3. ipc'[c] = "do" /\ \A d \in Callers \ {c} : ipc'[d] = "no"
      BY <1>3, <1>8, <1>9, <2>2
    <3>4. ~NobodyInits' /\ ipc'["stream"] # "undo" /\ ipc'["task"] # "undo"
          /\ \A d \in Callers : (ipc'[d] = "do" => Doing(d)') /\ ipc'[d] # "undo"
      BY <1>4, <3>2, <3>3 DEF NobodyInits
    <3> QED BY <1>8, <1>9, <3>4 DEF ProgressInv
  <2> QED BY <2>1, <2>2
<1>10. ASSUME Calm' PROVE ReadyInv'
  <2>1. istep[c] = InitLen => NobodyInits' /\ inited'
    BY <1>2, <1>3, <1>4, <1>8, <1>10, Positions DEF NobodyInits
  <2>2. CASE kind = "vdec"
    <3>1. /\ ypc' # "using" /\ ~HasOp
          /\ c = "stream" => tpc' = "idle" /\ taskQ' = <<>>
          /\ c = "task" => ipc'["stream"] = "no"
      BY <1>2, <1>3, <1>4, <1>5, <1>6, <1>8, <1>10, <2>2, InitsAlone
    <3>2. ~HasOp'
      BY <1>5, <3>1 DEF HasOp
    <3>3. DecoderReady'
      BY <1>2, <1>3, <1>4, <2>1, <3>1, <3>2 DEF DecoderReady
    <3> QED BY <1>5, <2>2, <3>3 DEF ReadyInv
  <2>3. CASE kind # "vdec"
    <3>1. c = "stream" /\ ~task.started /\ ~sync.started
      BY <1>2, <1>6, <1>10, <2>3, InitsAlone
    <3>2. spc' = "init" \/ istep[c] = InitLen
      BY <1>3, <1>4, <3>1
    <3>3. OthersReady'
      BY <1>5, <1>8, <1>10, <2>1, <3>1, <3>2 DEF OthersReady
    <3> QED BY <1>5, <2>3, <3>3 DEF ReadyInv
  <2> QED BY <2>2, <2>3
<1> QED BY <1>1, <1>7, <1>9, <1>10 DEF UseInv

LEMMA UseInitFail ==
  ASSUME UseInv, NEW c \in Callers, InitFail(c)
  PROVE  UseInv'
<1>0. LifeInv /\ SeatsInv /\ TypeOK /\ Seats
  BY DEF UseInv, LifeInv, SeatsInv
<1>1. LifeInv'
  BY <1>0, LifeInitFail
<1> DEFINE w == NextInit(c)
<1>2. /\ ipc[c] = "do" /\ istep[c] \in 1 .. InitLen
      /\ w \in InitFaults
      /\ w = "init" <=> istep[c] = InitAt
      /\ w = "pool" <=> istep[c] = PoolAt
      /\ ipc'[c] = "undo" /\ istep'[c] = 1 /\ OtherStays(c)
      /\ failures \subseteq failures'
      /\ w \in failures' \/ (~Possible(w) /\ UNCHANGED failures)
      /\ UNCHANGED <<config, app, held, inited, threads, taskVars, syncVars, spc, events,
                     signals, lives, streams, caps>>
  BY <1>0, InitFailIs
<1> HIDE DEF w
<1>3. /\ c \in {"stream", "task"} /\ Callers = {"stream", "task"}
      /\ c = "stream" => spc = "init"
      /\ c = "task" => tpc = "init"
  BY <1>0, <1>2 DEF Seats, Callers
<1>4. UNCHANGED <<state, negotiated, task, sync, taskQ, tpc, syncQ, ypc, kind>>
  BY <1>2, SameElement DEF app, events, threads, taskVars, syncVars
<1>5. /\ ~Orphans' => ~Orphans /\ OwnInv /\ ObjectsInv
      /\ Calm' => ~Orphans' /\ Calm /\ ProgressInv /\ ReadyInv
  BY <1>2, StillCalm
<1>6. ASSUME ~Orphans' PROVE ObjectsInv'
  BY <1>2, <1>4, <1>5, <1>6, ObjectsKept
<1>7. ASSUME Calm'
      PROVE  /\ \A d \in Callers \ {c} : ipc'[d] = "no"
             /\ caps' # 0
             /\ kind = "vdec" => /\ ypc # "using" /\ ~HasOp
                                 /\ c = "stream" => tpc = "idle" /\ taskQ = <<>>
             /\ kind # "vdec" => c = "stream" /\ ~task.started /\ ~sync.started
  BY <1>2, <1>5, <1>7, InitsAlone DEF OtherStays
<1>8. ASSUME Calm' PROVE failures' \cap InitFaults # {}
  <2>1. CASE w \in failures'
    BY <1>2, <2>1
  <2>2. CASE ~Possible(w) /\ UNCHANGED failures
    <3>1. Doing(c) /\ ProgressInv
      BY <1>2, <1>5, <1>8 DEF ProgressInv
    <3>2. w = "init" => ~inited
      BY <1>2, <3>1, Positions DEF Doing
    <3>3. w = "pool" => "pool" \notin held
      BY <1>2, <3>1, Positions DEF Doing
    <3>4. "session" \notin held
      BY <2>2, <3>2, <3>3 DEF Possible
    <3>5. "codec" \in held
      BY <1>2, <1>5, <1>8, InitsHold
    <3> QED BY <2>2, <3>1, <3>4, <3>5 DEF ProgressInv
  <2> QED BY <1>2, <2>1, <2>2
<1>9. ASSUME Calm' PROVE ProgressInv'
  <2>1. ~NobodyInits'
    BY <1>2, <1>3 DEF NobodyInits
  <2>2. \A d \in Callers : ipc'[d] # "do" /\ (ipc'[d] = "undo" => d = c)
    BY <1>2, <1>7, <1>9
  <2>3. Undoing(c)'
    BY <1>2 DEF Undoing
  <2> QED BY <1>7, <1>8, <1>9, <2>1, <2>2, <2>3 DEF ProgressInv, InitFaults
<1>10. ASSUME Calm' PROVE ReadyInv'
  <2>1. CASE kind = "vdec"
    <3>1. ReadyInv /\ DecoderReady
      BY <1>5, <1>10, <2>1 DEF ReadyInv
    <3>2. ~HasOp'
      BY <1>4, <1>7, <1>10, <2>1 DEF HasOp
    <3>3. tpc' # "using" /\ ypc' # "using" /\ (tpc' = "fill" => ~inited')
          /\ (ipc'["stream"] # "no" => tpc' = "idle" /\ taskQ' = <<>>)
      BY <1>2, <1>3, <1>4, <1>7, <1>10, <2>1, <3>1 DEF DecoderReady
    <3> QED BY <1>4, <2>1, <3>2, <3>3 DEF ReadyInv, DecoderReady
  <2>2. CASE kind # "vdec"
    <3>1. spc' = "init" /\ ~task'.started /\ ~sync'.started /\ caps' # 0
      BY <1>2, <1>3, <1>4, <1>7, <1>10, <2>2
    <3> QED BY <1>4, <2>2, <3>1 DEF ReadyInv, OthersReady
  <2> QED BY <2>1, <2>2
<1> QED BY <1>1, <1>6, <1>9, <1>10 DEF UseInv

LEMMA UseInitUndo ==
  ASSUME UseInv, NEW c \in Callers, InitUndo(c)
  PROVE  UseInv'
<1>0. LifeInv /\ SeatsInv /\ TypeOK /\ Seats
  BY DEF UseInv, LifeInv, SeatsInv
<1>1. LifeInv'
  BY <1>0, LifeInitUndo
<1> DEFINE w == NextUndo(c)
<1>2. /\ ipc[c] = "undo" /\ istep[c] \in 1 .. UndoLen
      /\ held' = held \ {w} /\ inited' = (inited /\ istep[c] # 2)
      /\ istep[c] = 1 => w = "pool"
      /\ w \in {"pool", "close", "plugin", "session", "notify"}
      /\ OtherStays(c)
      /\ negotiated' => negotiated
      /\ UNCHANGED <<config, app, threads, taskQ, syncVars, begun, eosSent, eosOut, history>>
  BY <1>0, InitUndoIs
<1>3. /\ istep[c] = UndoLen => ipc'[c] = "no"
      /\ istep[c] = UndoLen /\ c = "stream" => spc' = "idle"
      /\ istep[c] = UndoLen /\ c = "task" => tpc' = "idle"
      /\ istep[c] # UndoLen =>
           ipc'[c] = "undo" /\ istep'[c] = istep[c] + 1 /\ UNCHANGED <<spc, tpc>>
      /\ c # "stream" => UNCHANGED spc
      /\ c # "task" => UNCHANGED tpc
  BY <1>0, InitUndoIs
<1> HIDE DEF w
<1>4. /\ c \in {"stream", "task"} /\ Callers = {"stream", "task"}
      /\ c = "stream" => spc = "init"
      /\ c = "task" => tpc = "init"
  BY <1>0, <1>2 DEF Seats, Callers
<1>5. UNCHANGED <<caps, streams, failures, state, apc, astep, task, sync, syncQ, ypc, kind>>
  BY <1>2, SameElement DEF history, app, threads, syncVars
<1>6. /\ ~Orphans' => ~Orphans /\ OwnInv /\ ObjectsInv
      /\ Calm' => ~Orphans' /\ Calm /\ ProgressInv /\ ReadyInv
  BY <1>2, <1>5, StillCalm
<1>7. ASSUME ~Orphans' PROVE ObjectsInv'
  <2>1. /\ state # "null" /\ ~(apc = "dispose" /\ astep > 1)
        /\ "codec" \in held /\ (kind = "vdec" => "fc" \in held)
    BY <1>2, <1>6, <1>7, InitsHold
  <2>2. apc # "base" /\ astep \in Int
        /\ "codec" \in held' /\ (kind = "vdec" => "fc" \in held')
    BY <1>0, <1>2, <2>1 DEF Seats, TypeOK
  <2> QED BY <1>5, <2>1, <2>2 DEF ObjectsInv, CodecDeleted
<1>8. ASSUME Calm'
      PROVE  /\ ProgressInv /\ ReadyInv /\ Undoing(c)
             /\ \A d \in Callers \ {c} : ipc'[d] = "no"
             /\ caps' # 0 /\ failures' \cap InitFaults # {}
             /\ kind = "vdec" => /\ ypc # "using" /\ ~HasOp
                                 /\ c = "stream" => tpc = "idle" /\ taskQ = <<>>
             /\ kind # "vdec" => c = "stream" /\ ~task.started /\ ~sync.started
  <2>1. ProgressInv /\ ReadyInv /\ ipc[c] # "no" /\ Calm
    BY <1>2, <1>6, <1>8
  <2>2. Undoing(c) /\ failures' \cap InitFaults # {}
    BY <1>2, <1>4, <1>5, <2>1 DEF ProgressInv
  <2>3. \A d \in Callers \ {c} : ipc'[d] = "no"
    BY <1>2, <2>1, InitsAlone DEF OtherStays
  <2> QED BY <1>5, <2>1, <2>2, <2>3, InitsAlone
<1>9. ASSUME Calm' PROVE ProgressInv'
  <2>1. "pool" \notin held'
    BY <1>2, <1>8, <1>9 DEF Undoing
  <2>2. istep[c] > 1 => ~inited'
    <3>1. CASE istep[c] = 2
      BY <1>2, <3>1
    <3>2. CASE istep[c] > 2
      BY <1>2, <1>8, <1>9, <3>2 DEF Undoing
    <3> QED BY <1>2, <3>1, <3>2, Positions
  <2>3. CASE istep[c] = UndoLen
    <3>1. ~inited' /\ \A d \in Callers : ipc'[d] = "no"
      BY <1>3, <1>8, <1>9, <2>2, <2>3, Positions
    <3> QED BY <1>8, <1>9, <2>1, <3>1 DEF ProgressInv, InitFaults
  <2>4. CASE istep[c] # UndoLen
    <3>1. ipc'[c] = "undo" /\ istep'[c] = istep[c] + 1 /\ (istep'[c] > 2 => istep[c] > 1)
      BY <1>2, <1>3, <2>4, Positions
    <3>2. Undoing(c)'
      BY <2>1, <2>2, <3>1 DEF Undoing
    <3>3. ~NobodyInits' /\ \A d \in Callers : ipc'[d] # "do" /\ (ipc'[d] = "undo" => d = c)
      BY <1>4, <1>8, <1>9, <3>1 DEF NobodyInits
    <3> QED BY <1>8, <1>9, <3>2, <3>3 DEF ProgressInv, InitFaults
  <2> QED BY <2>3, <2>4
<1>10. ASSUME Calm' PROVE ReadyInv'
  <2>1. CASE kind = "vdec"
    <3>1. ~HasOp' /\ ypc' # "using"
      BY <1>5, <1>8, <1>10, <2>1 DEF HasOp
    <3>2. c = "stream" => tpc' = "idle" /\ taskQ' = <<>>
      BY <1>2, <1>3, <1>4, <1>8, <1>10, <2>1
    <3>3. c = "task" => tpc' \in {"init", "idle"} /\ ipc'["stream"] = "no"
      BY <1>3, <1>4, <1>8, <1>10
    <3> QED BY <1>4, <1>5, <2>1, <3>1, <3>2, <3>3 DEF ReadyInv, DecoderReady
  <2>2. CASE kind # "vdec"
    <3>1. c = "stream" /\ ~task'.started /\ ~sync'.started /\ caps' # 0
      BY <1>5, <1>8, <1>10, <2>2
    <3>2. spc' \in {"init", "idle"}
      BY <1>3, <1>4, <3>1
    <3> QED BY <1>5, <2>2, <3>1, <3>2 DEF ReadyInv, OthersReady
  <2> QED BY <2>1, <2>2
<1> QED BY <1>1, <1>7, <1>9, <1>10 DEF UseInv

LEMMA UseDisposeStep == UseInv /\ DisposeStep => UseInv'
<1> SUFFICES ASSUME UseInv, DisposeStep PROVE UseInv'
  OBVIOUS
<1>0. LifeInv /\ SeatsInv /\ TypeOK /\ Seats
  BY DEF UseInv, LifeInv, SeatsInv
<1>1. LifeInv'
  BY <1>0, LifeDisposeStep
<1>2. /\ apc = "dispose" /\ astep \in 1 .. DisposeLen /\ state = "ready"
      /\ held' = held \ {NextDispose} /\ inited' = (inited /\ astep # 3)
      /\ astep = 3 => NextDispose = "codec"
      /\ astep < 3 => NextDispose \notin Resources
      /\ UNCHANGED <<config, tpc, ypc, spc, initing, events, signals, history>>
  BY <1>0, DisposeStepIs DEF Seats
<1>3. /\ astep = 1 => /\ task.workers = 1 => tpc = "idle"
                      /\ task' = Stopped(task) /\ taskQ' = <<>>
      /\ astep # 1 => UNCHANGED <<task, taskQ>>
      /\ astep = 2 => sync' = Stopped(sync) /\ syncQ' = <<>>
      /\ astep # 2 => UNCHANGED <<sync, syncQ>>
  BY <1>0, DisposeStepIs
<1>4. /\ astep = DisposeLen => apc' = "idle" /\ astep' = 0 /\ state' = "null"
      /\ astep # DisposeLen => apc' = "dispose" /\ astep' = astep + 1 /\ UNCHANGED state
  BY <1>0, DisposeStepIs
<1>5. UNCHANGED <<caps, streams, failures, ipc, ypc, tpc, spc, kind>>
  BY <1>2, SameElement DEF history, initing
<1>6. /\ ~Orphans' => ~Orphans /\ OwnInv /\ ObjectsInv
      /\ Calm' => ~Orphans' /\ Calm /\ ProgressInv /\ ReadyInv
  BY <1>2, <1>5, StillCalm
<1>7. ASSUME ~Orphans'
      PROVE  /\ tpc = "idle" /\ spc = "idle" /\ TaskQuiet'
             /\ \A d \in Callers : ipc'[d] = "no"
             /\ astep >= 3 => SyncQuiet'
  <2>1. OwnInv /\ OwnInv'
    BY <1>1, <1>6, <1>7 DEF LifeInv
  <2>2. tpc = "idle"
    <3>1. CASE astep = 1
      BY <1>3, <2>1, <3>1 DEF OwnInv
    <3>2. CASE astep > 1
      BY <1>2, <2>1, <3>2 DEF OwnInv, TaskQuiet
    <3> QED BY <1>2, <3>1, <3>2, Positions
  <2>3. spc = "idle" /\ ipc'["stream"] = "no" /\ ipc'["task"] = "no"
    BY <1>0, <1>2, <1>5, <2>2 DEF Seats
  <2>4. TaskQuiet' /\ (astep >= 3 => SyncQuiet')
    <3>1. CASE astep = DisposeLen
      BY <1>4, <2>1, <3>1 DEF OwnInv
    <3>2. CASE astep # DisposeLen
      <4>1. apc' = "dispose" /\ astep' > 1 /\ (astep >= 3 => astep' > 2)
        BY <1>2, <1>4, <3>2, Positions
      <4> QED BY <2>1, <4>1 DEF OwnInv
    <3> QED BY <3>1, <3>2
  <2> QED BY <2>2, <2>3, <2>4 DEF Callers
\* While the codec object is there nothing has been closed.
<1>8. ASSUME ~Orphans'
      PROVE  /\ astep >= 3 => "codec" \notin held'
             /\ astep < 3 => /\ inited' = inited
                             /\ \A r \in Resources : r \in held' <=> r \in held
  <2>1. CASE astep < 3
    <3>1. astep # 3 /\ ~(astep >= 3)
      BY <1>2, <2>1, Positions
    <3>2. inited \in BOOLEAN
      BY <1>0 DEF TypeOK
    <3> QED BY <1>2, <2>1, <3>1, <3>2
  <2>2. CASE astep = 3
    BY <1>2, <2>2
  <2>3. CASE astep > 3
    <3>1. "codec" \notin held
      BY <1>2, <1>6, <1>8, <2>3 DEF ObjectsInv
    <3>2. ~(astep < 3)
      BY <1>2, <2>3, Positions
    <3> QED BY <1>2, <3>1, <3>2
  <2> QED BY <1>2, <2>1, <2>2, <2>3, Positions
<1>9. ASSUME ~Orphans' PROVE ObjectsInv'
  <2>1. CASE astep = DisposeLen
    <3>1. held' = {}
      BY <1>1, <1>4, <1>9, <2>1 DEF LifeInv, OwnInv
    <3> QED BY <1>4, <2>1, <3>1 DEF ObjectsInv, CodecDeleted
  <2>2. CASE astep # DisposeLen
    <3>1. apc' = "dispose" /\ state' = "ready" /\ (astep' > 3 <=> astep >= 3)
          /\ (astep >= 3 \/ astep < 3) /\ ~(astep >= 3 /\ astep < 3)
      BY <1>2, <1>4, <2>2, Positions
    <3>2. tpc' = "idle" /\ spc' = "idle" /\ taskQ' = <<>>
      BY <1>5, <1>7, <1>9 DEF TaskQuiet
    <3>3. astep < 3 => "codec" \in held'
      <4>1. astep < 3 => ~CodecDeleted
        BY <1>2, Positions DEF CodecDeleted
      <4> QED BY <1>6, <1>8, <1>9, <4>1 DEF ObjectsInv, Resources
    <3> QED BY <1>8, <1>9, <3>1, <3>2, <3>3 DEF ObjectsInv, CodecDeleted
  <2> QED BY <2>1, <2>2
<1>10. ASSUME Calm' PROVE ProgressInv'
  <2>1. ProgressInv /\ ~Orphans' /\ \A d \in Callers : ipc'[d] = "no"
    BY <1>6, <1>7, <1>10
  <2>2. ipc'["stream"] = "no" /\ ipc'["task"] = "no" /\ NobodyInits
    BY <1>5, <2>1 DEF NobodyInits, Callers
  <2>3. caps' = 0 => ~inited' /\ "pool" \notin held' /\ "fc" \notin held'
    BY <1>2, <1>5, <2>1 DEF ProgressInv
  <2>4. "codec" \in held' => /\ inited' = inited /\ "codec" \in held
                             /\ "pool" \in held' <=> "pool" \in held
                             /\ "session" \in held' <=> "session" \in held
    <3>1. astep >= 3 \/ astep < 3
      BY <1>2, Positions
    <3> QED BY <1>8, <2>1, <3>1 DEF Resources
  <2>5. "codec" \in held' => /\ inited' <=> "pool" \in held'
                             /\ inited' => "session" \in held'
                             /\ "session" \notin held' => failures' \cap InitFaults # {}
    BY <1>5, <2>1, <2>2, <2>4 DEF ProgressInv
  <2> QED BY <2>1, <2>2, <2>3, <2>5 DEF ProgressInv, InitFaults
<1>11. ASSUME Calm' PROVE ReadyInv'
  <2>1. ReadyInv /\ ~Orphans' /\ tpc' = "idle" /\ spc' = "idle" /\ NobodyInits'
        /\ TaskQuiet' /\ (astep >= 3 => SyncQuiet') /\ (astep >= 3 \/ astep < 3)
    BY <1>2, <1>5, <1>6, <1>7, <1>11, Positions DEF NobodyInits, Callers
  <2>2. CASE kind = "vdec"
    <3>1. CASE astep >= 3
      <4>1. ypc' = "idle" /\ ~HasOp'
        BY <2>1, <3>1 DEF SyncQuiet, HasOp
      <4> QED BY <1>5, <2>1, <2>2, <4>1 DEF ReadyInv, DecoderReady, NobodyInits
    <3>2. CASE astep < 3
      <4>1. HasOp' => HasOp
        BY <1>0, <1>3, OpsInQueue
      <4>2. inited' = inited
        BY <1>8, <2>1, <3>2
      <4> QED BY <1>5, <2>1, <2>2, <4>1, <4>2 DEF ReadyInv, DecoderReady, NobodyInits
    <3> QED BY <2>1, <3>1, <3>2
  <2>3. CASE kind # "vdec"
    <3>1. ~task'.started
      BY <2>1 DEF TaskQuiet
    <3>2. CASE astep >= 3
      BY <1>5, <2>1, <2>3, <3>1, <3>2 DEF SyncQuiet, ReadyInv, OthersReady
    <3>3. CASE astep < 3
      <4>1. sync'.started => sync.started
        BY <1>3 DEF Stopped
      <4>2. inited' = inited
        BY <1>8, <2>1, <3>3
      <4> QED BY <1>5, <2>1, <2>3, <3>1, <4>1, <4>2 DEF ReadyInv, OthersReady
    <3> QED BY <2>1, <3>2, <3>3
  <2> QED BY <2>2, <2>3
<1> QED BY <1>1, <1>9, <1>10, <1>11 DEF UseInv

-----------------------------------------------------------------------------
LEMMA UseInit == Init => UseInv
<1> SUFFICES ASSUME Init PROVE UseInv
  OBVIOUS
<1>1. LifeInv
  BY LifeInit
<1>2. /\ state = "null" /\ apc = "idle" /\ held = {} /\ inited = FALSE
      /\ tpc = "idle" /\ ypc = "idle" /\ syncQ = <<>> /\ spc = "idle"
      /\ ~task.started /\ ~sync.started
      /\ \A c \in Callers : ipc[c] = "no"
  BY DEF Init, NewThread
<1>3. NobodyInits /\ ~HasOp
  BY <1>2 DEF NobodyInits, HasOp, Callers
<1>4. ObjectsInv
  BY <1>2 DEF ObjectsInv, CodecDeleted
<1>5. ProgressInv
  BY <1>2, <1>3 DEF ProgressInv, NobodyInits
<1>6. ReadyInv
  BY <1>2, <1>3 DEF ReadyInv, DecoderReady, OthersReady, NobodyInits
<1> QED BY <1>1, <1>4, <1>5, <1>6 DEF UseInv

LEMMA UseStutter == UseInv /\ UNCHANGED vars => UseInv'
<1> SUFFICES ASSUME UseInv, UNCHANGED vars PROVE UseInv'
  OBVIOUS
<1>1. UNCHANGED <<config, app, held, inited, threads, taskVars, syncVars, spc, initing,
                  events, signals, history>>
  BY DEF vars
<1>2. LifeInv'
  BY LifeStutter DEF UseInv
<1>3. UNCHANGED <<taskQ, tpc, spc, negotiated, streams, caps, failures>>
  BY <1>1 DEF taskVars, events, history
<1>4. /\ ~Orphans' => ObjectsInv
      /\ Calm' => ProgressInv /\ ReadyInv
  BY <1>1, <1>3, StillCalm
<1>5. ~Orphans' => ObjectsInv'
  BY <1>1, <1>3, <1>4, ObjectsKept
<1>6. Calm' => ProgressInv' /\ ReadyInv'
  BY <1>1, <1>3, <1>4, ProgressKept, ReadyKept
<1> QED BY <1>2, <1>5, <1>6 DEF UseInv

LEMMA UseInvHolds ==
  ASSUME ~EosBeforeCaps
  PROVE  Spec => []UseInv
<1>1. UseInv /\ [Next]_vars => UseInv'
  <2> SUFFICES ASSUME UseInv, [Next]_vars PROVE UseInv'
    OBVIOUS
  <2>1. CASE NullToReady \/ BaseStep \/ BaseFail \/ BaseError \/ ReadyToPaused
    BY <2>1, UseNullToReady, UseBaseStep, UseBaseFail, UseBaseError, UseReadyToPaused
  <2>2. CASE VdecStreamStart \/ VencCapsRefused \/ VppCapsRefused \/ VdecCapsRefused
             \/ VencCaps \/ VppCaps \/ VdecCaps
    BY <2>2, UseVdecStreamStart, UseVencCapsRefused, UseVppCapsRefused,
       UseVdecCapsRefused, UseVencCaps, UseVppCaps, UseVdecCaps
  <2>3. CASE \/ StartTaskThread \/ StartSyncThread \/ OutCaps \/ Chain \/ Eos
    BY <2>3, UseStartTaskThread, UseStartSyncThread, UseOutCaps, UseChain, UseEos
  <2>4. CASE TakeTask \/ FillVideoParams \/ Processed \/ Drained \/ SyncStep
    BY <2>4, UseTakeTask, UseFillVideoParams, UseProcessed, UseDrained, UseTakeSync,
       UseSynced DEF SyncStep
  <2>5. ASSUME NEW c \in Callers, InitStep(c) \/ InitFail(c) \/ InitUndo(c) PROVE UseInv'
    BY <2>5, UseInitStep, UseInitFail, UseInitUndo
  <2>6. CASE PausedToReady \/ Flushed \/ ReadyToNull \/ DisposeStep
    BY <2>6, UsePausedToReady, UseFlushed, UseReadyToNull, UseDisposeStep
  <2>7. "stream" \in Callers /\ "task" \in Callers
    BY DEF Callers
  <2> QED BY <2>1, <2>2, <2>3, <2>4, <2>5, <2>6, <2>7, UseStutter
          DEF Next, StreamStep, TaskStep
<1> QED BY <1>1, UseInit, PTL DEF Spec

\* Where a thread is at work, the codec object is there and no one is in Init().
LEMMA AtWork ==
  ASSUME UseInv, ~Orphans, tpc # "idle" \/ ypc # "idle"
  PROVE  ~CodecDeleted /\ "codec" \in held
<1>1. OwnInv /\ ObjectsInv /\ TypeOK
  BY DEF UseInv, LifeInv, SeatsInv
<1>2. state # "null"
  BY <1>1 DEF OwnInv, TaskQuiet, SyncQuiet
<1>3. ~(apc = "dispose" /\ astep > 3)
  <2>1. astep > 3 => astep > 1 /\ astep > 2
    BY <1>1 DEF TypeOK
  <2> QED BY <1>1, <2>1 DEF OwnInv, TaskQuiet, SyncQuiet
<1> QED BY <1>1, <1>2, <1>3 DEF ObjectsInv, CodecDeleted

(***************************************************************************)
(* The task and sync threads find the codec initialised in an open         *)
(* session, the pool and fc_ there, in the first stream after the first    *)
(* CAPS event; and the codec object goes before its session does.          *)
(***************************************************************************)
THEOREM UseIsSafeCorrect ==
  ASSUME ~EosBeforeCaps
  PROVE  Spec => []UseIsSafe
<1>1. UseInv => UseIsSafe
  <2> SUFFICES ASSUME UseInv PROVE UseIsSafe
    OBVIOUS
  <2>1. TypeOK /\ Seats /\ streams \in Nat /\ caps \in Nat
    BY BoundsAssumption DEF UseInv, LifeInv, SeatsInv, TypeOK
  <2>2. streams <= 1 => ~Orphans
    BY <2>1 DEF Orphans
  <2>3. FirstStream => Calm
    BY <2>2 DEF FirstStream, Calm
  <2>4. ASSUME FirstStream, CodecInUse \/ tpc = "using"
        PROVE  {"session", "codec"} \subseteq held /\ inited /\ "pool" \in held
    <3>1. /\ ~Orphans /\ OwnInv /\ ProgressInv /\ ReadyInv
          /\ tpc # "idle" \/ ypc # "idle"
      BY <2>3, <2>4 DEF Calm, UseInv, LifeInv, CodecInUse
    <3>2. NobodyInits /\ inited
      <4>1. CASE kind = "vdec"
        BY <2>1, <2>4, <3>1, <4>1 DEF CodecInUse, ReadyInv, DecoderReady, NobodyInits, Seats
      <4>2. CASE kind # "vdec"
        <5>1. task.started \/ sync.started
          BY <3>1 DEF OwnInv
        <5> QED BY <3>1, <4>2, <5>1 DEF ReadyInv, OthersReady
      <4> QED BY <4>1, <4>2
    <3>3. "codec" \in held
      BY <3>1, AtWork
    <3> QED BY <3>1, <3>2, <3>3 DEF ProgressInv
  <2>5. tpc = "drain" /\ kind = "vdec" /\ streams <= 1 => "fc" \in held
    BY <2>2, AtWork DEF UseInv, ObjectsInv
  <2>6. CodecBeforeSession
    BY DEF CodecBeforeSession, UseInv, Calm, ProgressInv, InitFaults
  <2> QED BY <2>4, <2>5, <2>6 DEF UseIsSafe
<1> QED BY <1>1, UseInvHolds, PTL
=============================================================================
