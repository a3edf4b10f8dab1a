---------------------------- MODULE FastallocProofs ----------------------------
(***************************************************************************)
(* Safety of the bump allocator for every set of callers, request sizes and *)
(* chunk size.                                                              *)
(***************************************************************************)
EXTENDS Fastalloc, SequenceTheorems, TLAPS

LEMMA InitIInv == Init => IInv
  BY DEF Init, IInv, TypeOK, Accounting, BlocksInChunk, BlocksUsed, BlocksDisjoint,
         Pointer, Null, Block, NoBlock

\* The fields of the blocks and of the current pointer are natural numbers.
LEMMA FieldsNat ==
  ASSUME TypeOK
  PROVE  /\ chunk.id \in Nat /\ chunk.off \in Nat
         /\ \A g \in Handles : /\ block[g] \in Block
                               /\ block[g].id \in Nat
                               /\ block[g].off \in Nat
                               /\ block[g].size \in Nat
  BY DEF TypeOK, Pointer, Block

\* Taking free bytes of the current chunk, for a new block at its end or to
\* lengthen the block that ends there.
LEMMA BumpIInv ==
  ASSUME IInv,
         NEW h \in Handles, NEW bytes \in Nat, NEW start \in Nat, NEW size \in Nat,
         bytes <= chunk_left, chunk.id # 0,
         start + size = chunk.off + bytes,
         start = chunk.off \/ (EndsAtChunk(block[h]) /\ start = block[h].off),
         Bump(h, bytes, start, size), UNCHANGED <<freed, phase>>
  PROVE  IInv'
<1> DEFINE new == [id |-> chunk.id, off |-> start, size |-> size]
<1> USE DEF Pointer, Block
<1>1. TypeOK /\ Accounting /\ BlocksInChunk /\ BlocksUsed /\ BlocksDisjoint
  BY DEF IInv
<1>0. /\ chunk.id \in Nat /\ chunk.off \in Nat
      /\ \A g \in Handles : /\ block[g].id \in Nat
                            /\ block[g].off \in Nat
                            /\ block[g].size \in Nat
  BY <1>1, FieldsNat
<1>2. /\ chunk' \in Pointer /\ chunk'.id = chunk.id /\ chunk'.off = chunk.off + bytes
      /\ chunk_left' \in Nat /\ chunk_left' = chunk_left - bytes
      /\ UNCHANGED <<capacity, chunks, freed, phase>>
  BY <1>1 DEF TypeOK, Bump
<1>3. /\ new \in Block
      /\ block' = [block EXCEPT ![h] = new]
  BY <1>1 DEF TypeOK, Bump
<1>4. block' \in [Handles -> Block]
  BY <1>1, <1>3 DEF TypeOK
<1>5. block'[h] = new /\ \A g \in Handles \ {h} : block'[g] = block[g]
  BY <1>1, <1>3 DEF TypeOK
<1>6. TypeOK'
  BY <1>1, <1>2, <1>4 DEF TypeOK
<1>7. Accounting'
  BY <1>1, <1>2 DEF TypeOK, Accounting
<1>8. BlocksInChunk'
  <2> SUFFICES ASSUME NEW g \in Handles, block'[g].id # 0
               PROVE  /\ block'[g].id <= Len(capacity')
                      /\ block'[g].off + block'[g].size <= capacity'[block'[g].id]
    BY DEF BlocksInChunk
  <2>1. CASE g = h
    BY <2>1, <1>1, <1>2, <1>5 DEF TypeOK, Accounting
  <2>2. CASE g # h
    BY <2>2, <1>1, <1>2, <1>5 DEF BlocksInChunk
  <2>3. QED
    BY <2>1, <2>2
<1>9. BlocksUsed'
  <2> SUFFICES ASSUME NEW g \in Handles
               PROVE  /\ block'[g].id = 0 => block'[g].off = 0 /\ block'[g].size = 0
                      /\ block'[g].id = chunk'.id =>
                           block'[g].off + block'[g].size <= chunk'.off
    BY DEF BlocksUsed
  <2>1. CASE g = h
    BY <2>1, <1>0, <1>2, <1>5
  <2>2. CASE g # h
    <3>1. block'[g] = block[g]
      BY <2>2, <1>5
    <3>2. /\ block[g].id = 0 => block[g].off = 0 /\ block[g].size = 0
          /\ block[g].id = chunk.id => block[g].off + block[g].size <= chunk.off
      BY <1>1 DEF BlocksUsed
    <3>3. QED
      BY <3>1, <3>2, <1>0, <1>2
  <2>3. QED
    BY <2>1, <2>2
<1>10. BlocksDisjoint'
  <2>1. ASSUME NEW g \in Handles \ {h}, block[g].id = chunk.id, block[g].size > 0, size > 0
        PROVE  block[g].off + block[g].size <= start
    <3>1. block[g].off + block[g].size <= chunk.off
      BY <2>1, <1>1 DEF BlocksUsed
    <3>2. CASE start = chunk.off
      BY <3>1, <3>2
    <3>3. CASE EndsAtChunk(block[h]) /\ start = block[h].off /\ block[h].size = 0
      BY <3>1, <3>3, <1>0 DEF EndsAtChunk
    <3>4. CASE EndsAtChunk(block[h]) /\ start = block[h].off /\ block[h].size > 0
      <4>1. \/ block[g].off + block[g].size <= block[h].off
            \/ block[h].off + block[h].size <= block[g].off
        BY <2>1, <3>4, <1>1 DEF BlocksDisjoint, EndsAtChunk
      <4>2. QED
        BY <4>1, <3>1, <3>4, <2>1, <1>0 DEF EndsAtChunk
    <3>5. QED
      BY <3>2, <3>3, <3>4, <1>0
  <2>2. \A f, g \in Handles \ {h} :
          f # g /\ block'[f].id = block'[g].id /\ block'[f].size > 0 /\ block'[g].size > 0
            => \/ block'[f].off + block'[f].size <= block'[g].off
               \/ block'[g].off + block'[g].size <= block'[f].off
    BY <1>1, <1>5 DEF BlocksDisjoint
  <2>3. \A g \in Handles \ {h} :
          new.id = block'[g].id /\ new.size > 0 /\ block'[g].size > 0
            => block'[g].off + block'[g].size <= new.off
    BY <2>1, <1>5
  <2>4. QED
    BY <2>2, <2>3, <1>5 DEF BlocksDisjoint
<1>11. QED
  BY <1>6, <1>7, <1>8, <1>9, <1>10 DEF IInv

\* Starting a new chunk: its first bytes are nobody's yet.
LEMMA NewChunkIInv ==
  ASSUME IInv, NEW h \in Handles, NEW bytes \in Sizes,
         NewChunk(h, bytes), UNCHANGED <<freed, phase>>
  PROVE  IInv'
<1> DEFINE n == Len(capacity) + 1
<1> DEFINE new == [id |-> n, off |-> 0, size |-> bytes]
<1> USE DEF Pointer, Block
<1>1. TypeOK /\ Accounting /\ BlocksInChunk /\ BlocksUsed /\ BlocksDisjoint
  BY DEF IInv
<1>2. bytes \in Nat /\ NewCapacity(bytes) \in Nat /\ bytes <= NewCapacity(bytes)
  BY FastallocAssumption DEF NewCapacity
<1>3. /\ n \in Nat \ {0}
      /\ capacity' \in Seq(Nat) /\ Len(capacity') = n
      /\ capacity'[n] = NewCapacity(bytes)
      /\ \A i \in 1..Len(capacity) : capacity'[i] = capacity[i]
  BY <1>1, <1>2 DEF TypeOK, NewChunk
<1>4. /\ chunk' \in Pointer /\ chunk'.id = n /\ chunk'.off = bytes
      /\ chunk_left' \in Nat /\ chunk_left' = NewCapacity(bytes) - bytes
      /\ UNCHANGED <<freed, phase>>
  BY <1>1, <1>2, <1>3 DEF TypeOK, NewChunk
<1>5. chunks' \in Seq(Pointer)
  <2>1. chunks' = chunks \/ chunks' = Append(chunks, chunk)
    BY DEF NewChunk, Recorded
  <2>2. chunks \in Seq(Pointer) /\ chunk \in Pointer
    BY <1>1 DEF TypeOK
  <2>3. Append(chunks, chunk) \in Seq(Pointer)
    BY <2>2, AppendProperties
  <2>4. QED
    BY <2>1, <2>2, <2>3
<1>6. /\ new \in Block
      /\ block' = [block EXCEPT ![h] = new]
  BY <1>1, <1>2 DEF TypeOK, NewChunk
<1>7. /\ block' \in [Handles -> Block]
      /\ block'[h] = new
      /\ \A g \in Handles \ {h} : block'[g] = block[g]
  BY <1>1, <1>6 DEF TypeOK
<1>0. \A g \in Handles : /\ block[g].id \in Nat
                         /\ block[g].off \in Nat
                         /\ block[g].size \in Nat
  BY <1>1, FieldsNat
<1>8. \A g \in Handles : block[g].id < n
  <2> SUFFICES ASSUME NEW g \in Handles
               PROVE  block[g].id < n
    OBVIOUS
  <2>1. Len(capacity) \in Nat
    BY <1>1 DEF TypeOK
  <2>2. block[g].id # 0 => block[g].id <= Len(capacity)
    BY <1>1 DEF BlocksInChunk
  <2>3. QED
    BY <2>1, <2>2, <1>0
<1>9. TypeOK'
  BY <1>1, <1>3, <1>4, <1>5, <1>7 DEF TypeOK
<1>10. Accounting'
  BY <1>2, <1>3, <1>4 DEF Accounting
<1>11. BlocksInChunk'
  <2> SUFFICES ASSUME NEW g \in Handles, block'[g].id # 0
               PROVE  /\ block'[g].id <= Len(capacity')
                      /\ block'[g].off + block'[g].size <= capacity'[block'[g].id]
    BY DEF BlocksInChunk
  <2>1. CASE g = h
    BY <2>1, <1>2, <1>3, <1>7
  <2>2. CASE g # h
    <3>1. block'[g] = block[g] /\ block[g].id \in 1..Len(capacity)
      BY <2>2, <1>0, <1>1, <1>7 DEF TypeOK, BlocksInChunk
    <3>2. capacity'[block[g].id] = capacity[block[g].id] /\ Len(capacity) < n
      BY <3>1, <1>1, <1>3 DEF TypeOK
    <3>3. block[g].off + block[g].size <= capacity[block[g].id]
      BY <3>1, <1>1 DEF BlocksInChunk
    <3>4. QED
      BY <3>1, <3>2, <3>3, <1>3
  <2>3. QED
    BY <2>1, <2>2
<1>12. BlocksUsed'
  <2> SUFFICES ASSUME NEW g \in Handles
               PROVE  /\ block'[g].id = 0 => block'[g].off = 0 /\ block'[g].size = 0
                      /\ block'[g].id = chunk'.id =>
                           block'[g].off + block'[g].size <= chunk'.off
    BY DEF BlocksUsed
  <2>1. CASE g = h
    BY <2>1, <1>2, <1>3, <1>4, <1>7
  <2>2. CASE g # h
    <3>1. block'[g] = block[g] /\ block[g].id # chunk'.id
      BY <2>2, <1>0, <1>3, <1>4, <1>7, <1>8
    <3>2. QED
      BY <3>1, <1>1 DEF BlocksUsed
  <2>3. QED
    BY <2>1, <2>2
<1>13. BlocksDisjoint'
  <2>1. \A f, g \in Handles \ {h} :
          f # g /\ block'[f].id = block'[g].id /\ block'[f].size > 0 /\ block'[g].size > 0
            => \/ block'[f].off + block'[f].size <= block'[g].off
               \/ block'[g].off + block'[g].size <= block'[f].off
    BY <1>1, <1>7 DEF BlocksDisjoint
  <2>2. \A g \in Handles \ {h} : block'[g].id # new.id
    BY <1>0, <1>3, <1>7, <1>8
  <2>3. QED
    BY <2>1, <2>2, <1>7 DEF BlocksDisjoint
<1>14. QED
  BY <1>9, <1>10, <1>11, <1>12, <1>13 DEF IInv

\* A failed call changes nothing but the list of recorded chunks.
LEMMA OutOfMemoryIInv ==
  ASSUME IInv, OutOfMemory, freed' = freed, phase' \in {phase, "aborted"}
  PROVE  IInv'
<1>1. chunks' \in Seq(Pointer)
  BY DEF IInv, TypeOK, OutOfMemory, Recorded
<1>2. QED
  BY <1>1 DEF IInv, TypeOK, Accounting, BlocksInChunk, BlocksUsed, BlocksDisjoint, OutOfMemory

\* fastalloc as its callers see it: the request fits or a new chunk is made.
LEMMA FitsIInv ==
  ASSUME IInv, NEW h \in Handles, NEW bytes \in Sizes,
         Fits(bytes), Bump(h, bytes, chunk.off, bytes), UNCHANGED <<freed, phase>>
  PROVE  IInv'
<1>1. bytes \in Nat /\ chunk.off \in Nat /\ bytes <= chunk_left
  BY FastallocAssumption DEF IInv, TypeOK, Pointer, Fits
<1>2. chunk.id # 0
  BY DEF IInv, TypeOK, Pointer, Accounting, Fits, Null
<1>3. QED
  BY <1>1, <1>2, BumpIInv

LEMMA ReallocateIInv ==
  ASSUME IInv, NEW h \in Handles, NEW bytes \in Sizes, Reallocate(h, bytes)
  PROVE  IInv'
<1> USE DEF Pointer, Block
<1>1. TypeOK /\ Accounting /\ BlocksInChunk /\ BlocksUsed /\ BlocksDisjoint
  BY DEF IInv
<1>2. /\ bytes \in Nat
      /\ block[h] \in Block
      /\ UNCHANGED <<freed, phase>>
  BY <1>1, FastallocAssumption DEF TypeOK, Reallocate
<1>3. CASE Keep(h, bytes)
  <2>1. /\ block' \in [Handles -> Block]
        /\ block'[h].id = block[h].id /\ block'[h].off = block[h].off
        /\ block'[h].size = bytes /\ bytes <= block[h].size
        /\ \A g \in Handles \ {h} : block'[g] = block[g]
    BY <1>1, <1>2, <1>3 DEF TypeOK, Keep
  <2>2. UNCHANGED <<capacity, chunk, chunk_left, chunks>>
    BY <1>3 DEF Keep
  <2>3. TypeOK' /\ Accounting'
    BY <1>1, <1>2, <2>1, <2>2 DEF TypeOK, Accounting
  <2>0. \A g \in Handles : block[g].size \in Nat
    BY <1>1, FieldsNat
  <2>4. \A g \in Handles : /\ block'[g].id = block[g].id
                           /\ block'[g].off = block[g].off
                           /\ block'[g].size <= block[g].size
    <3> SUFFICES ASSUME NEW g \in Handles
                 PROVE  /\ block'[g].id = block[g].id
                        /\ block'[g].off = block[g].off
                        /\ block'[g].size <= block[g].size
      OBVIOUS
    <3>1. CASE g = h
      BY <3>1, <2>1
    <3>2. CASE g # h
      BY <3>2, <2>0, <2>1
    <3>3. QED
      BY <3>1, <3>2
  <2>5. BlocksInChunk'
    <3> SUFFICES ASSUME NEW g \in Handles, block'[g].id # 0
                 PROVE  /\ block'[g].id <= Len(capacity')
                        /\ block'[g].off + block'[g].size <= capacity'[block'[g].id]
      BY DEF BlocksInChunk
    <3>1. /\ block[g].id \in 1..Len(capacity)
          /\ block[g].off + block[g].size <= capacity[block[g].id]
      BY <1>1, <2>4 DEF TypeOK, BlocksInChunk
    <3>2. /\ capacity[block[g].id] \in Nat
          /\ block[g].off \in Nat /\ block[g].size \in Nat
      BY <3>1, <1>1, FieldsNat, ElementOfSeq DEF TypeOK
    <3>3. block'[g].size \in Nat
      BY <2>1
    <3>4. /\ block'[g].id = block[g].id /\ block'[g].off = block[g].off
          /\ block'[g].size <= block[g].size
      BY <2>4
    <3>5. capacity' = capacity
      BY <2>2
    <3>6. block'[g].id <= Len(capacity') /\ capacity'[block'[g].id] = capacity[block[g].id]
      BY <3>1, <3>4, <3>5
    <3>7. QED
      BY <3>1, <3>2, <3>3, <3>4, <3>6
  <2>6. BlocksUsed'
    BY <1>1, <2>1, <2>2, <2>4 DEF TypeOK, BlocksUsed
  <2>7. BlocksDisjoint'
    <3> SUFFICES ASSUME NEW f \in Handles, NEW g \in Handles, f # g,
                        block'[f].id = block'[g].id,
                        block'[f].size > 0, block'[g].size > 0
                 PROVE  \/ block'[f].off + block'[f].size <= block'[g].off
                        \/ block'[g].off + block'[g].size <= block'[f].off
      BY DEF BlocksDisjoint
    <3>1. block[f] \in Block /\ block[g] \in Block /\ block'[f] \in Block /\ block'[g] \in Block
      BY <1>1, <2>1 DEF TypeOK
    <3>2. \/ block[f].off + block[f].size <= block[g].off
          \/ block[g].off + block[g].size <= block[f].off
      BY <1>1, <2>4, <3>1 DEF BlocksDisjoint
    <3>3. QED
      BY <3>1, <3>2, <2>4
  <2>8. QED
    BY <2>3, <2>5, <2>6, <2>7 DEF IInv
<1>4. CASE Grow(h, bytes)
  <2>1. /\ bytes - block[h].size \in Nat /\ bytes - block[h].size <= chunk_left
        /\ EndsAtChunk(block[h])
        /\ Bump(h, bytes - block[h].size, block[h].off, bytes)
    BY <1>2, <1>4 DEF Grow, GrowsInPlace
  <2>2. block[h].off + bytes = chunk.off + (bytes - block[h].size)
    BY <1>2, <2>1 DEF EndsAtChunk
  <2>3. chunk.id # 0
    BY <1>1, <1>2, <1>4, <2>1 DEF Grow, Accounting
  <2>4. QED
    BY <1>2, <2>1, <2>2, <2>3, BumpIInv
<1>5. CASE Move(h, bytes)
  BY <1>2, <1>5, FitsIInv, NewChunkIInv, OutOfMemoryIInv DEF Move
<1>6. QED
  BY <1>3, <1>4, <1>5 DEF Reallocate

LEMMA NextIInv == IInv /\ [Next]_vars => IInv'
<1> SUFFICES ASSUME IInv, [Next]_vars
             PROVE  IInv'
  OBVIOUS
<1>1. ASSUME NEW h \in Handles, NEW bytes \in Sizes, Allocate(h, bytes)
      PROVE  IInv'
  BY <1>1, FitsIInv, NewChunkIInv, OutOfMemoryIInv DEF Allocate
<1>2. ASSUME NEW h \in Handles, NEW bytes \in Sizes, Strdup(h, bytes)
      PROVE  IInv'
  BY <1>2, FitsIInv, NewChunkIInv, OutOfMemoryIInv DEF Strdup
<1>3. ASSUME NEW h \in Handles, NEW bytes \in Sizes, Reallocate(h, bytes)
      PROVE  IInv'
  BY <1>3, ReallocateIInv
<1>4. CASE FreeAll
  <2>1. chunks' \in Seq(Pointer) /\ freed' \subseteq Pointer
    BY <1>4 DEF FreeAll, IInv, TypeOK
  <2>2. QED
    BY <1>4, <2>1 DEF FreeAll, IInv, TypeOK, Accounting, BlocksInChunk, BlocksUsed,
                      BlocksDisjoint
<1>5. CASE UNCHANGED vars
  BY <1>5 DEF vars, IInv, TypeOK, Accounting, BlocksInChunk, BlocksUsed, BlocksDisjoint
<1>6. QED
  BY <1>1, <1>2, <1>3, <1>4, <1>5 DEF Next

LEMMA InductiveInvariant == Spec => []IInv
<1>1. QED
  BY InitIInv, NextIInv, PTL DEF Spec

\* The allocator's state always has its type: in particular chunk_left, a
\* size_t in the code, never goes below zero (fastalloc.c:32).
THEOREM TypeCorrect == Spec => []TypeOK
<1>1. IInv => TypeOK
  BY DEF IInv
<1>2. QED
  BY <1>1, InductiveInvariant, PTL

\* Whatever fastalloc and fastrealloc are asked, no two owners share a byte.
THEOREM Disjoint == Spec => []BlocksDisjoint
<1>1. IInv => BlocksDisjoint
  BY DEF IInv
<1>2. QED
  BY <1>1, InductiveInvariant, PTL

\* No owner's bytes run over the end of what malloc returned.
THEOREM InChunk == Spec => []BlocksInChunk
<1>1. IInv => BlocksInChunk
  BY DEF IInv
<1>2. QED
  BY <1>1, InductiveInvariant, PTL

(***************************************************************************)
(* The current chunk and the list of retired ones.                          *)
(***************************************************************************)

\* A step of the compiler bumps the current chunk, leaves it alone, or makes a
\* new one, whatever call it is.
LEMMA ChunkStep ==
  ASSUME IInv, Next
  PROVE  \/ /\ capacity' = capacity /\ chunk'.id = chunk.id /\ chunk'.off >= chunk.off
            /\ chunks' = chunks \/ chunks' = Recorded
         \/ /\ \E h \in Handles, bytes \in Sizes : NewChunk(h, bytes)
            /\ chunk'.id > chunk.id
         \/ FreeAll
<1>1. /\ chunk.id \in Nat /\ chunk.off \in Nat /\ chunk_left \in Nat
      /\ \A h \in Handles : block[h].size \in Nat
      /\ Sizes \subseteq Nat /\ Len(capacity) = chunk.id
  BY FieldsNat, FastallocAssumption DEF IInv, TypeOK, Accounting
<1>2. ASSUME NEW h \in Handles, NEW bytes \in Nat, NEW start, NEW size,
             Bump(h, bytes, start, size)
      PROVE  /\ capacity' = capacity /\ chunks' = chunks
             /\ chunk'.id = chunk.id /\ chunk'.off >= chunk.off
  BY <1>1, <1>2 DEF Bump
<1>3. ASSUME NEW h \in Handles, NEW bytes \in Sizes, NewChunk(h, bytes)
      PROVE  chunk'.id > chunk.id
  BY <1>1, <1>3 DEF NewChunk
<1>4. ASSUME OutOfMemory
      PROVE  /\ capacity' = capacity /\ chunk' = chunk
             /\ chunks' = chunks \/ chunks' = Recorded
  BY <1>4 DEF OutOfMemory
<1>5. ASSUME NEW h \in Handles, NEW bytes \in Sizes,
             Keep(h, bytes) \/ Grow(h, bytes) \/ Move(h, bytes)
      PROVE  \/ /\ capacity' = capacity /\ chunk'.id = chunk.id /\ chunk'.off >= chunk.off
                /\ chunks' = chunks \/ chunks' = Recorded
             \/ NewChunk(h, bytes)
  <2>1. CASE Keep(h, bytes)
    BY <1>1, <2>1 DEF Keep
  <2>2. CASE Grow(h, bytes)
    <3>1. bytes - block[h].size \in Nat
      BY <1>1, <2>2 DEF Grow
    <3>2. QED
      BY <1>2, <2>2, <3>1 DEF Grow
  <2>3. CASE Move(h, bytes)
    BY <1>1, <1>2, <1>4, <2>3 DEF Move
  <2>4. QED
    BY <1>5, <2>1, <2>2, <2>3
<1>6. ASSUME NEW h \in Handles, NEW bytes \in Sizes,
             Allocate(h, bytes) \/ Strdup(h, bytes) \/ Reallocate(h, bytes)
      PROVE  \/ /\ capacity' = capacity /\ chunk'.id = chunk.id /\ chunk'.off >= chunk.off
                /\ chunks' = chunks \/ chunks' = Recorded
             \/ NewChunk(h, bytes)
  <2>1. CASE Allocate(h, bytes)
    BY <1>1, <1>2, <1>4, <2>1 DEF Allocate
  <2>2. CASE Strdup(h, bytes)
    BY <1>1, <1>2, <1>4, <2>2 DEF Strdup
  <2>3. CASE Reallocate(h, bytes)
    BY <1>5, <2>3 DEF Reallocate
  <2>4. QED
    BY <1>6, <2>1, <2>2, <2>3
<1>7. QED
  BY <1>3, <1>6 DEF Next

\* Recording the current pointer loses no chunk that was recorded.
LEMMA RecordedKeeps ==
  ASSUME TypeOK
  PROVE  /\ \A j \in DOMAIN chunks : j \in DOMAIN Recorded /\ Recorded[j] = chunks[j]
         /\ chunk.id # 0 => \E j \in DOMAIN Recorded : Recorded[j] = chunk
<1>1. chunks \in Seq(Pointer) /\ chunk \in Pointer
  BY DEF TypeOK
<1>2. CASE chunk = Null
  BY <1>2 DEF Recorded, Null
<1>3. CASE chunk # Null
  <2>1. /\ Recorded = Append(chunks, chunk)
        /\ DOMAIN Recorded = 1..Len(chunks) + 1
        /\ Recorded[Len(chunks) + 1] = chunk
        /\ \A j \in 1..Len(chunks) : Recorded[j] = chunks[j]
    BY <1>1, <1>3, AppendProperties DEF Recorded
  <2>2. Len(chunks) \in Nat /\ DOMAIN chunks = 1..Len(chunks)
    BY <1>1
  <2>3. QED
    BY <2>1, <2>2
<1>4. QED
  BY <1>2, <1>3

LEMMA NextReachable == IInv /\ ChunksReachable /\ [Next]_vars => ChunksReachable'
<1> SUFFICES ASSUME IInv, ChunksReachable, [Next]_vars, phase' = "compiling",
                    NEW i \in 1..Len(capacity')
             PROVE  i = chunk'.id \/ \E j \in DOMAIN chunks' : chunks'[j].id = i
  BY DEF ChunksReachable
<1>1. TypeOK /\ chunk.id \in Nat /\ Len(capacity) = chunk.id /\ capacity \in Seq(Nat)
  BY FieldsNat DEF IInv, TypeOK, Accounting
<1>2. CASE UNCHANGED vars
  BY <1>2 DEF vars, ChunksReachable
<1>3. CASE Next
  <2>1. phase = "compiling"
    BY <1>3 DEF Next, Allocate, Strdup, Reallocate, FreeAll
  <2>2. CASE capacity' = capacity /\ chunk'.id = chunk.id /\ (chunks' = chunks \/ chunks' = Recorded)
    <3>1. i = chunk.id \/ \E j \in DOMAIN chunks : chunks[j].id = i
      BY <2>1, <2>2 DEF ChunksReachable
    <3>2. QED
      BY <2>2, <3>1, <1>1, RecordedKeeps
  <2>3. ASSUME NEW h \in Handles, NEW bytes \in Sizes, NewChunk(h, bytes)
        PROVE  i = chunk'.id \/ \E j \in DOMAIN chunks' : chunks'[j].id = i
    <3>1. /\ chunks' = Recorded /\ chunk'.id = Len(capacity) + 1
          /\ capacity' = Append(capacity, NewCapacity(bytes))
      BY <2>3 DEF NewChunk
    <3>2. Len(capacity') = Len(capacity) + 1
      BY <3>1, <1>1
    <3>3. CASE i = Len(capacity) + 1
      BY <3>1, <3>3
    <3>4. CASE i = chunk.id
      BY <3>1, <3>4, <3>2, <1>1, RecordedKeeps
    <3>5. CASE i \in 1..Len(capacity) /\ i # chunk.id
      <4>1. \E j \in DOMAIN chunks : chunks[j].id = i
        BY <2>1, <3>5 DEF ChunksReachable
      <4>2. QED
        BY <4>1, <3>1, <1>1, RecordedKeeps
    <3>6. QED
      BY <3>2, <3>3, <3>4, <3>5, <1>1
  <2>4. CASE FreeAll
    BY <2>4 DEF FreeAll
  <2>5. QED
    BY <1>3, <2>2, <2>3, <2>4, ChunkStep
<1>4. QED
  BY <1>2, <1>3

\* fastfreeall finds every chunk that was ever obtained, also after calls in
\* which malloc or realloc failed between recording and replacing the chunk.
THEOREM Reachable == Spec => []ChunksReachable
<1>1. Init => ChunksReachable
  BY DEF Init, ChunksReachable
<1>2. QED
  BY <1>1, NextReachable, InductiveInvariant, PTL DEF Spec

\* The next free byte never goes back, so memory handed out is never handed
\* out again, not even when its owner gives up part of it (fastalloc.c:40-42).
THEOREM Advances == Spec => ChunkAdvances
<1>1. IInv /\ [Next]_vars =>
        [\/ chunk'.id > chunk.id
         \/ chunk'.id = chunk.id /\ chunk'.off >= chunk.off]_vars
  <2> SUFFICES ASSUME IInv, Next
               PROVE  \/ chunk'.id > chunk.id
                      \/ chunk'.id = chunk.id /\ chunk'.off >= chunk.off
    OBVIOUS
  <2>1. chunk.id \in Nat /\ chunk.off \in Nat
    BY FieldsNat DEF IInv
  <2>2. CASE FreeAll
    BY <2>1, <2>2 DEF FreeAll
  <2>3. QED
    BY <2>1, <2>2, ChunkStep
<1>2. QED
  BY <1>1, InductiveInvariant, PTL DEF Spec, ChunkAdvances
================================================================================
