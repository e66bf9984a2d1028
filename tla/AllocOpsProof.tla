--------------------------- MODULE AllocOpsProof ---------------------------
(* What follows from the allocator contract alone, for any set of blocks.   *)
EXTENDS AllocOps, TLAPS

\* Each step of the contract keeps the places of a block apart.
LEMMA StepExclusive == Exclusive /\ [Next]_vars => Exclusive'
<1> SUFFICES ASSUME Exclusive, [Next]_vars PROVE Exclusive'
  OBVIOUS
<1> USE DEF Exclusive
<1>1. ASSUME NEW b \in Block, Balloc(b) PROVE Exclusive'
  BY <1>1 DEF Balloc
<1>2. ASSUME NEW b \in Block, Bfree(b) PROVE Exclusive'
  BY <1>2 DEF Bfree
<1>3. ASSUME NEW add \in SUBSET Block, NEW drop \in SUBSET Block, Publish(add, drop)
      PROVE Exclusive'
  BY <1>3 DEF Publish
<1>4. CASE Flush
  BY <1>4 DEF Flush
<1>5. ASSUME NEW m \in SUBSET Block, NEW h \in SUBSET Block, Leak(m, h) PROVE Exclusive'
  BY <1>5 DEF Leak
<1>6. CASE Remount
  BY <1>6 DEF Remount
<1>7. CASE UNCHANGED vars
  BY <1>7 DEF vars
<1> QED
  BY <1>1, <1>2, <1>3, <1>4, <1>5, <1>6, <1>7 DEF Next

\* An allocator and callers that keep the contract never have a block in two
\* places: none that balloc can hand out, or that a remount would find free, is
\* in use, and the running request holds neither.
THEOREM ContractExclusive == Spec => []Exclusive
<1>1. Init => Exclusive
  BY DEF Init, Exclusive
<1> QED
  BY <1>1, StepExclusive, PTL DEF Spec
=============================================================================
