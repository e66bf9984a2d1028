--------------------------- MODULE FreeListChain ---------------------------
(***************************************************************************)
(* What a push, a pop, a dump and a reload do to a well-formed chain of dump *)
(* blocks: the lemmas about lists that the proofs about FreeList rest on.  *)
(***************************************************************************)
EXTENDS FreeList, TLAPS

Disks == [Block -> Seg \cup {Data}]

\* The chain blocks of a list are themselves listed.
LEMMA ChainIsListed ==
  ASSUME NEW d \in Disks, NEW s \in Seg, NEW C \in SUBSET Block, Linked(d, s, C)
  PROVE  C \subseteq ListedUnder(d, s, C)
<1> SUFFICES ASSUME NEW c \in C PROVE c \in ListedUnder(d, s, C)
  OBVIOUS
<1>1. c # 0
  BY FreeListAssumption
<1>2. ASSUME NEW t \in Seg, Bottom(t) = c PROVE c \in Listed(t)
  BY <1>1, <1>2 DEF Bottom, Listed, Seg
<1>3. CASE Bottom(s) = c
  BY <1>2, <1>3 DEF ListedUnder
<1>4. CASE \E e \in C : Bottom(d[e]) = c
  BY <1>2, <1>4 DEF ListedUnder, Linked
<1> QED
  BY <1>3, <1>4 DEF Linked

\* Only the chain blocks' contents matter to a list.
LEMMA Frame ==
  ASSUME NEW d \in Disks, NEW e \in Disks, NEW s \in Seg, NEW C \in SUBSET Block,
         \A c \in C : e[c] = d[c], Linked(d, s, C)
  PROVE  Linked(e, s, C) /\ ListedUnder(e, s, C) = ListedUnder(d, s, C)
<1>1. Linked(e, s, C)
  BY DEF Linked
<1>2. ListedUnder(e, s, C) = ListedUnder(d, s, C)
  BY DEF ListedUnder
<1> QED
  BY <1>1, <1>2

\* A walk from the cache stays inside the chain of a well-formed list.
LEMMA WalkIsListed ==
  ASSUME NEW d \in Disks, NEW s \in Seg, NEW C \in SUBSET Block, Linked(d, s, C)
  PROVE  Chain(d, s) \subseteq C /\ FreeSet(d, s) \subseteq ListedUnder(d, s, C)
<1>1. ChainClosed(d, s, C)
  BY DEF ChainClosed, Linked
<1>2. Chain(d, s) \subseteq C
  BY <1>1 DEF Chain
<1> QED
  BY <1>2 DEF FreeSet, ListedUnder

\* Popping an entry that is not the bottom one.
LEMMA PopEntry ==
  ASSUME NEW d \in Disks, NEW s \in Seg, NEW C \in SUBSET Block, Linked(d, s, C),
         s.n > 1,
         NEW t, t = [n |-> s.n - 1, a |-> [s.a EXCEPT ![s.n - 1] = 0]]
  PROVE  /\ t \in Seg /\ Linked(d, t, C)
         /\ s.a[s.n - 1] \in Listed(s) /\ s.a[s.n - 1] \notin C
         /\ ListedUnder(d, t, C) = ListedUnder(d, s, C) \ {s.a[s.n - 1]}
<1> DEFINE b == s.a[s.n - 1]
<1>1. /\ t \in Seg /\ t.n = s.n - 1
      /\ \A k \in 0..(t.n - 1) : t.a[k] = s.a[k] /\ k # s.n - 1 /\ k \in 0..(s.n - 1)
  BY FreeListAssumption DEF Seg, Cell
<1>2. b # 0 /\ b \in Listed(s)
  BY DEF Linked, Proper, Listed, Seg
<1>3. Listed(t) = Listed(s) \ {b}
  <2>1. ASSUME NEW x \in Listed(t) PROVE x \in Listed(s) \ {b}
    <3>1. PICK k \in 0..(t.n - 1) : x = t.a[k] /\ x # 0
      BY DEF Listed
    <3>2. x = s.a[k] /\ k \in 0..(s.n - 1) /\ k # s.n - 1 /\ s.n - 1 \in 0..(s.n - 1)
      BY <1>1, <3>1 DEF Seg
    <3>3. x # b
      BY <3>2 DEF Linked, Proper
    <3> QED
      BY <3>1, <3>2, <3>3 DEF Listed
  <2>2. ASSUME NEW x \in Listed(s) \ {b} PROVE x \in Listed(t)
    <3>1. PICK k \in 0..(s.n - 1) : x = s.a[k] /\ x # 0
      BY DEF Listed
    <3>2. k \in 0..(t.n - 1)
      BY <1>1, <3>1 DEF Seg
    <3> QED
      BY <1>1, <3>1, <3>2 DEF Listed
  <2> QED
    BY <2>1, <2>2
<1>4. Bottom(t) = Bottom(s)
  BY <1>1 DEF Bottom, Seg
<1>5. Proper(t)
  BY <1>1 DEF Linked, Proper, Seg
<1>6. Linked(d, t, C)
  BY <1>3, <1>4, <1>5 DEF Linked
<1>7. \A c \in C : b \notin Listed(d[c])
  BY <1>2 DEF Linked
<1>8. b # Bottom(s)
  BY DEF Bottom, Linked, Proper, Seg
<1>9. b \notin C
  <2>1. SUFFICES ASSUME b \in C PROVE FALSE
    OBVIOUS
  <2>2. PICK e \in C : Bottom(d[e]) = b
    BY <2>1, <1>8 DEF Linked
  <2>3. b \in Listed(d[e])
    BY <2>2, <1>2 DEF Bottom, Listed, Linked, Seg
  <2> QED
    BY <2>3, <1>7
<1>10. ListedUnder(d, t, C) = ListedUnder(d, s, C) \ {b}
  BY <1>3, <1>7 DEF ListedUnder
<1> QED
  BY <1>1, <1>2, <1>6, <1>9, <1>10

\* Popping the sentinel, or finding the cache empty, takes nothing away.
LEMMA PopNothing ==
  ASSUME NEW d \in Disks, NEW s \in Seg, NEW C \in SUBSET Block, Linked(d, s, C),
         s.n = 0 \/ s.a[s.n - 1] = 0,
         NEW t \in Seg, t.n = 0
  PROVE  Linked(d, t, C) /\ ListedUnder(d, t, C) = ListedUnder(d, s, C)
<1>1. s.n \in {0, 1} /\ Bottom(s) = 0
  BY DEF Linked, Proper, Bottom, Seg
<1>2. Listed(s) = {}
  BY <1>1 DEF Listed, Bottom
<1>3. Bottom(t) = 0 /\ Listed(t) = {} /\ Proper(t)
  BY DEF Bottom, Listed, Proper
<1>4. Linked(d, t, C)
  BY <1>1, <1>2, <1>3 DEF Linked
<1> QED
  BY <1>2, <1>3, <1>4 DEF ListedUnder

\* Popping the bottom entry: the list goes on with that block's dump.
LEMMA PopChain ==
  ASSUME NEW d \in Disks, NEW s \in Seg, NEW C \in SUBSET Block, Linked(d, s, C),
         s.n = 1, s.a[0] # 0
  PROVE  /\ s.a[0] \in C /\ d[s.a[0]] \in Seg
         /\ Linked(d, d[s.a[0]], C \ {s.a[0]})
         /\ ListedUnder(d, d[s.a[0]], C \ {s.a[0]}) = ListedUnder(d, s, C) \ {s.a[0]}
<1> DEFINE b == s.a[0]
           B == C \ {b}
<1>1. Bottom(s) = b /\ Listed(s) = {b} /\ b \in C
  BY DEF Bottom, Listed, Linked
<1>2. d[b] \in Seg /\ Proper(d[b])
  BY <1>1 DEF Linked
<1>3. \A c \in C : b \notin Listed(d[c])
  BY <1>1 DEF Linked
<1>4. \A c \in C : Bottom(d[c]) # b
  <2>1. \A t \in Seg : Bottom(t) # 0 => Bottom(t) \in Listed(t)
    BY DEF Bottom, Listed, Seg
  <2> QED
    BY <2>1, <1>3 DEF Linked
<1>5. \A c \in C : Bottom(d[c]) \in B \cup {0}
  BY <1>4 DEF Linked
<1>6. \A c \in B : Listed(d[b]) \cap Listed(d[c]) = {}
  BY <1>1 DEF Linked
<1>7. \A c \in B : Bottom(d[b]) = c \/ \E e \in B : Bottom(d[e]) = c
  BY <1>1 DEF Linked
<1>8. Linked(d, d[b], B)
  BY <1>1, <1>2, <1>5, <1>6, <1>7 DEF Linked
<1>9. ListedUnder(d, d[b], B) = ListedUnder(d, s, C) \ {b}
  BY <1>1, <1>3 DEF ListedUnder
<1> QED
  BY <1>1, <1>2, <1>8, <1>9

\* bfree gives an empty cache its sentinel first.
LEMMA BaseSame ==
  ASSUME NEW d \in Disks, NEW s \in Seg, NEW C \in SUBSET Block, Linked(d, s, C),
         NEW t, t = IF s.n = 0 THEN [n |-> 1, a |-> NoSeg.a] ELSE s
  PROVE  /\ t \in Seg /\ t.n >= 1
         /\ Linked(d, t, C) /\ ListedUnder(d, t, C) = ListedUnder(d, s, C)
<1>1. CASE s.n # 0
  BY <1>1 DEF Seg
<1>2. CASE s.n = 0
  <2>1. t \in Seg /\ t.n = 1 /\ t.a[0] = 0
    BY <1>2, FreeListAssumption DEF Seg, NoSeg, Cell
  <2>2. Bottom(t) = 0 /\ Listed(t) = {} /\ Proper(t)
    BY <2>1 DEF Bottom, Listed, Proper
  <2>3. Bottom(s) = 0 /\ Listed(s) = {}
    BY <1>2 DEF Bottom, Listed
  <2>4. Linked(d, t, C)
    BY <2>2, <2>3 DEF Linked
  <2> QED
    BY <2>1, <2>2, <2>3, <2>4 DEF ListedUnder
<1> QED
  BY <1>1, <1>2

\* Pushing a block the list does not have yet.
LEMMA Push ==
  ASSUME NEW d \in Disks, NEW s \in Seg, NEW C \in SUBSET Block, Linked(d, s, C),
         NEW b \in Block, b \notin ListedUnder(d, s, C), s.n >= 1, s.n < NICFREE,
         NEW t, t = [n |-> s.n + 1, a |-> [s.a EXCEPT ![s.n] = b]]
  PROVE  /\ t \in Seg /\ Linked(d, t, C)
         /\ ListedUnder(d, t, C) = ListedUnder(d, s, C) \cup {b}
<1>1. /\ t \in Seg /\ t.n = s.n + 1 /\ t.a[s.n] = b
      /\ \A k \in 0..(s.n - 1) : t.a[k] = s.a[k]
  BY FreeListAssumption DEF Seg, Cell
<1>2. b # 0 /\ b \notin Listed(s)
  BY FreeListAssumption DEF ListedUnder
<1>3. Listed(t) = Listed(s) \cup {b}
  <2>1. \A k \in 0..(t.n - 1) : k \in 0..(s.n - 1) \/ k = s.n
    BY <1>1 DEF Seg
  <2>2. \A k \in 0..(s.n - 1) : k \in 0..(t.n - 1)
    BY <1>1 DEF Seg
  <2>3. s.n \in 0..(t.n - 1)
    BY <1>1 DEF Seg
  <2> QED
    BY <1>1, <1>2, <2>1, <2>2, <2>3 DEF Listed
<1>4. Bottom(t) = Bottom(s)
  BY <1>1 DEF Bottom, Seg
<1>5. Proper(t)
  <2>1. \A k \in 0..(s.n - 1) : s.a[k] # b
    BY <1>2 DEF Listed
  <2>2. \A k \in 1..(t.n - 1) : t.a[k] # 0
    BY <1>1, <1>2 DEF Linked, Proper, Seg
  <2>3. \A j, k \in 0..(t.n - 1) : j # k => t.a[j] # t.a[k]
    BY <1>1, <2>1 DEF Linked, Proper, Seg
  <2> QED
    BY <2>2, <2>3 DEF Proper
<1>6. \A c \in C : b \notin Listed(d[c])
  BY DEF ListedUnder
<1>7. Linked(d, t, C)
  BY <1>3, <1>4, <1>5, <1>6 DEF Linked
<1> QED
  BY <1>1, <1>3, <1>7 DEF ListedUnder

\* Dumping the cache into the block being freed, which then heads the list.
LEMMA Dump ==
  ASSUME NEW d \in Disks, NEW s \in Seg, NEW C \in SUBSET Block, Linked(d, s, C),
         NEW b \in Block, b \notin ListedUnder(d, s, C),
         NEW e \in Disks, e[b] = s, \A c \in Block \ {b} : e[c] = d[c],
         NEW t \in Seg, t.n = 1, t.a[0] = b
  PROVE  /\ Linked(e, t, C \cup {b})
         /\ ListedUnder(e, t, C \cup {b}) = ListedUnder(d, s, C) \cup {b}
<1>1. t \in Seg /\ t.n = 1 /\ t.a[0] = b
  OBVIOUS
<1>2. b \notin C
  BY ChainIsListed
<1>3. e \in Disks /\ e[b] = s /\ \A c \in C : e[c] = d[c]
  BY <1>2
<1>4. b # 0 /\ Bottom(t) = b /\ Listed(t) = {b} /\ Proper(t)
  BY <1>1, FreeListAssumption DEF Bottom, Listed, Proper
<1>5. b \notin Listed(s) /\ \A c \in C : b \notin Listed(d[c])
  BY DEF ListedUnder
<1>6. \A c \in C \cup {b} : e[c] \in Seg /\ Proper(e[c]) /\ Bottom(e[c]) \in (C \cup {b}) \cup {0}
  BY <1>3 DEF Linked
<1>7. \A c \in C \cup {b} : Listed(t) \cap Listed(e[c]) = {}
  BY <1>3, <1>4, <1>5
<1>8. \A c \in C \cup {b} : Bottom(t) = c \/ \E f \in C \cup {b} : Bottom(e[f]) = c
  BY <1>3, <1>4 DEF Linked
<1>9. \A c, f \in C \cup {b} : c # f => Listed(e[c]) \cap Listed(e[f]) = {}
  BY <1>3 DEF Linked
<1>10. Linked(e, t, C \cup {b})
  BY <1>4, <1>6, <1>7, <1>8, <1>9 DEF Linked
<1>11. ListedUnder(e, t, C \cup {b}) = ListedUnder(d, s, C) \cup {b}
  BY <1>3, <1>4 DEF ListedUnder
<1> QED
  BY <1>10, <1>11

\* A cache with nothing in it, as a failed reload leaves, is well formed.
LEMMA NothingLinked ==
  ASSUME NEW d \in Disks, NEW s \in Seg, s.n = 0
  PROVE  Linked(d, s, {}) /\ ListedUnder(d, s, {}) = {}
<1>1. Bottom(s) = 0 /\ Listed(s) = {} /\ Proper(s)
  BY DEF Bottom, Listed, Proper
<1> QED
  BY <1>1 DEF Linked, ListedUnder
-----------------------------------------------------------------------------
(* Blank and Refs.                                                         *)

LEMMA BlankFacts == Blank \in Dinode /\ Refs(Blank) = {} /\ NoSeg \in Seg
  BY FreeListAssumption DEF Blank, Dinode, Refs, NoSeg, Seg, Slot, Cell

LEMMA RefsInBlock ==
  ASSUME NEW i \in Dinode
  PROVE  Refs(i) \subseteq Block
  BY DEF Refs, Dinode
=============================================================================
