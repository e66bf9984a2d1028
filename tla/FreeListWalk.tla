---------------------------- MODULE FreeListWalk ----------------------------
(***************************************************************************)
(* What a push, a pop, a dump and a reload do to the blocks a walk of the  *)
(* list finds free.  FreeListChain says it of any chain a list is linked   *)
(* by; here it is said of the walk itself, which takes the least one.      *)
(***************************************************************************)
EXTENDS FreeListProof

\* The walk of a well-formed list finds exactly what its chain lists.
LEMMA WalkExact ==
  ASSUME NEW d \in Disks, NEW s \in Seg, NEW C \in SUBSET Block, Linked(d, s, C)
  PROVE  /\ Chain(d, s) \in SUBSET Block /\ Linked(d, s, Chain(d, s))
         /\ FreeSet(d, s) = ListedUnder(d, s, Chain(d, s))
         /\ Chain(d, s) \subseteq FreeSet(d, s)
<1>1. Chain(d, s) \in SUBSET Block /\ Linked(d, s, Chain(d, s))
  BY ChainLinked DEF Chain
<1>2. \A c \in Chain(d, s) : d[c] # Data
  BY <1>1, DataAssumption DEF Linked
<1>3. FreeSet(d, s) = ListedUnder(d, s, Chain(d, s))
  BY <1>2 DEF FreeSet, ListedUnder
<1> QED
  BY <1>1, <1>3, ChainIsListed

\* The chain hangs from the bottom cell of the cache alone.
LEMMA SameBottom ==
  ASSUME NEW d, NEW s, NEW t, Bottom(t) = Bottom(s)
  PROVE  Chain(d, t) = Chain(d, s)
  BY DEF Chain, ChainClosed

\* A list with nothing below its cache has no chain.
LEMMA NoChain ==
  ASSUME NEW d, NEW s, Bottom(s) = 0
  PROVE  Chain(d, s) = {}
<1>1. ChainClosed(d, s, {})
  BY DEF ChainClosed
<1> QED
  BY <1>1 DEF Chain

\* Every set a walk cannot leave holds the chain.
LEMMA ChainLeast ==
  ASSUME NEW d, NEW s, NEW C \in SUBSET Block, ChainClosed(d, s, C)
  PROVE  Chain(d, s) \subseteq C
  BY DEF Chain

\* A walk cannot leave the chain a list is linked by.
LEMMA LinkedClosed ==
  ASSUME NEW d, NEW s, NEW C, Linked(d, s, C)
  PROVE  ChainClosed(d, s, C)
  BY DEF Linked, ChainClosed

\* Blocks off the chain may change.
LEMMA WalkFrame ==
  ASSUME NEW d \in Disks, NEW e \in Disks, NEW s \in Seg, NEW C \in SUBSET Block,
         Linked(d, s, C), \A c \in Chain(d, s) : e[c] = d[c]
  PROVE  FreeSet(e, s) = FreeSet(d, s)
<1> DEFINE W == Chain(d, s)
<1>1. W \in SUBSET Block /\ Linked(d, s, W) /\ Linked(e, s, W)
  BY WalkExact, Frame
<1>2. Chain(e, s) \subseteq W
  BY <1>1, LinkedClosed, ChainLeast
<1>3. ChainClosed(d, s, Chain(e, s))
  <2>1. Linked(e, s, Chain(e, s)) /\ Chain(e, s) \in SUBSET Block
    BY <1>1, WalkExact
  <2>2. \A c \in Chain(e, s) : e[c] = d[c]
    BY <1>2
  <2> QED
    BY <2>1, <2>2 DEF Linked, ChainClosed
<1>4. Chain(e, s) = W
  BY <1>1, <1>2, <1>3, ChainLeast
<1> QED
  BY <1>4 DEF FreeSet

\* balloc takes an entry above the bottom one.
LEMMA WalkPop ==
  ASSUME NEW d \in Disks, NEW s \in Seg, NEW C \in SUBSET Block, Linked(d, s, C),
         s.n > 1,
         NEW t, t = [n |-> s.n - 1, a |-> [s.a EXCEPT ![s.n - 1] = 0]]
  PROVE  /\ s.a[s.n - 1] \in FreeSet(d, s)
         /\ FreeSet(d, t) = FreeSet(d, s) \ {s.a[s.n - 1]}
<1> DEFINE W == Chain(d, s)
<1>1. W \in SUBSET Block /\ Linked(d, s, W) /\ FreeSet(d, s) = ListedUnder(d, s, W)
  BY WalkExact
<1>2. /\ t \in Seg /\ Linked(d, t, W) /\ s.a[s.n - 1] \in Listed(s)
      /\ ListedUnder(d, t, W) = ListedUnder(d, s, W) \ {s.a[s.n - 1]}
  BY <1>1, PopEntry
<1>3. Bottom(t) = Bottom(s)
  BY FreeListAssumption DEF Bottom, Seg, Cell
<1>4. Chain(d, t) = W
  BY <1>3, SameBottom
<1>5. FreeSet(d, t) = ListedUnder(d, t, W)
  BY <1>1, <1>2, <1>4, WalkExact
<1> QED
  BY <1>1, <1>2, <1>5 DEF ListedUnder

\* balloc takes the bottom entry: the walk goes on with its dump.
LEMMA WalkReload ==
  ASSUME NEW d \in Disks, NEW s \in Seg, NEW C \in SUBSET Block, Linked(d, s, C),
         s.n = 1, s.a[0] # 0
  PROVE  /\ s.a[0] \in FreeSet(d, s)
         /\ FreeSet(d, d[s.a[0]]) = FreeSet(d, s) \ {s.a[0]}
<1> DEFINE W == Chain(d, s)
           b == s.a[0]
           V == Chain(d, d[b])
<1>1. W \in SUBSET Block /\ Linked(d, s, W) /\ FreeSet(d, s) = ListedUnder(d, s, W)
  BY WalkExact
<1>2. /\ b \in W /\ d[b] \in Seg /\ Linked(d, d[b], W \ {b})
      /\ ListedUnder(d, d[b], W \ {b}) = ListedUnder(d, s, W) \ {b}
  BY <1>1, PopChain
<1>3. V \in SUBSET Block /\ Linked(d, d[b], V) /\ FreeSet(d, d[b]) = ListedUnder(d, d[b], V)
  BY <1>1, <1>2, WalkExact
<1>4. V \subseteq W \ {b}
  BY <1>1, <1>2, LinkedClosed, ChainLeast
<1>5. ChainClosed(d, s, V \cup {b})
  BY <1>3 DEF ChainClosed, Linked, Bottom
<1>6. V = W \ {b}
  BY <1>1, <1>2, <1>3, <1>4, <1>5, ChainLeast
<1>7. b \in FreeSet(d, s)
  BY <1>1, <1>2, WalkExact
<1> QED
  BY <1>1, <1>2, <1>3, <1>6, <1>7

\* An empty cache, or one whose only entry is the sentinel, lists nothing.
LEMMA WalkNothing ==
  ASSUME NEW d \in Disks, NEW s \in Seg, Proper(s), s.n = 0 \/ s.a[s.n - 1] = 0
  PROVE  FreeSet(d, s) = {}
<1>1. s.n \in {0, 1} /\ Bottom(s) = 0
  BY DEF Proper, Bottom, Seg
<1>2. Listed(s) = {}
  BY <1>1 DEF Listed, Bottom
<1> QED
  BY <1>1, <1>2, NoChain DEF FreeSet

\* bfree's sentinel changes nothing.
LEMMA WalkBase ==
  ASSUME NEW d \in Disks, NEW s \in Seg, NEW C \in SUBSET Block, Linked(d, s, C),
         NEW t, t = IF s.n = 0 THEN [n |-> 1, a |-> NoSeg.a] ELSE s
  PROVE  FreeSet(d, t) = FreeSet(d, s)
<1>1. CASE s.n # 0
  BY <1>1
<1>2. CASE s.n = 0
  <2>1. t \in Seg /\ t.n = 1 /\ t.a[0] = 0
    BY <1>2, FreeListAssumption DEF Seg, NoSeg, Cell
  <2>2. Proper(s) /\ Proper(t)
    BY <1>2, <2>1 DEF Proper
  <2>3. FreeSet(d, s) = {}
    BY <1>2, <2>2, WalkNothing
  <2>4. t.a[t.n - 1] = 0
    BY <2>1
  <2>5. FreeSet(d, t) = {}
    BY <2>1, <2>2, <2>4, WalkNothing
  <2> QED
    BY <2>3, <2>5
<1> QED
  BY <1>1, <1>2

\* bfree pushes a block.
LEMMA WalkPush ==
  ASSUME NEW d \in Disks, NEW s \in Seg, NEW C \in SUBSET Block, Linked(d, s, C),
         NEW b \in Block, b \notin FreeSet(d, s), s.n >= 1, s.n < NICFREE,
         NEW t, t = [n |-> s.n + 1, a |-> [s.a EXCEPT ![s.n] = b]]
  PROVE  FreeSet(d, t) = FreeSet(d, s) \cup {b}
<1> DEFINE W == Chain(d, s)
<1>1. W \in SUBSET Block /\ Linked(d, s, W) /\ FreeSet(d, s) = ListedUnder(d, s, W)
  BY WalkExact
<1>2. /\ t \in Seg /\ Linked(d, t, W)
      /\ ListedUnder(d, t, W) = ListedUnder(d, s, W) \cup {b}
  BY <1>1, Push
<1>3. Bottom(t) = Bottom(s)
  BY FreeListAssumption DEF Bottom, Seg, Cell
<1>4. Chain(d, t) = W
  BY <1>3, SameBottom
<1> QED
  BY <1>1, <1>2, <1>4, WalkExact

\* bfree dumps a full cache into the block it frees.
LEMMA WalkDump ==
  ASSUME NEW d \in Disks, NEW s \in Seg, NEW C \in SUBSET Block, Linked(d, s, C),
         NEW b \in Block, b \notin FreeSet(d, s),
         NEW e \in Disks, e[b] = s, \A c \in Block \ {b} : e[c] = d[c],
         NEW t \in Seg, t.n = 1, t.a[0] = b
  PROVE  FreeSet(e, t) = FreeSet(d, s) \cup {b}
<1> DEFINE W == Chain(d, s)
<1>1. /\ W \in SUBSET Block /\ Linked(d, s, W) /\ FreeSet(d, s) = ListedUnder(d, s, W)
      /\ W \subseteq FreeSet(d, s)
  BY WalkExact
<1>2. Linked(e, t, W \cup {b})
  <2>1. b \notin ListedUnder(d, s, W)
    BY <1>1
  <2> HIDE DEF W
  <2> QED
    BY <1>1, <2>1, Dump
<1>3. t.a[0] # 0
  BY FreeListAssumption
<1>4. /\ t.a[0] \in FreeSet(e, t)
      /\ FreeSet(e, e[t.a[0]]) = FreeSet(e, t) \ {t.a[0]}
  <2>1. W \cup {b} \in SUBSET Block
    BY <1>1
  <2> QED
    BY <2>1, <1>2, <1>3, WalkReload
<1>5. \A c \in W : e[c] = d[c]
  BY <1>1
<1>6. FreeSet(e, s) = FreeSet(d, s)
  BY <1>1, <1>5, WalkFrame
<1> QED
  BY <1>4, <1>6
=============================================================================
