------------------------------- MODULE Fastalloc -------------------------------
(***************************************************************************)
(* The bump allocator every IR object of the compiler lives in              *)
(* (src/ir/fastalloc.c).  One chunk obtained from malloc is current; a      *)
(* request that does not fit retires it and starts a new one.  A block can  *)
(* be grown by fastrealloc, in place when it is the last one handed out.    *)
(*                                                                          *)
(* A pointer is [id, off]: the malloc'ed chunk it points into and the       *)
(* offset there; id 0 is NULL.  Handles are the pointer variables of the    *)
(* compiler: block[h] is what h points to and the number of bytes its owner *)
(* believes it owns.                                                        *)
(***************************************************************************)
EXTENDS Integers, Sequences

CONSTANTS
  Handles,      \* pointer variables held by the callers
  Sizes,        \* byte counts the callers ask for
  ChunkSize,    \* fastalloc.c:21, 1024 in the code
  MaxChunks     \* bound: how many chunks malloc will hand out

ASSUME FastallocAssumption ==
  /\ Sizes \subseteq Nat
  /\ ChunkSize \in Nat
  /\ MaxChunks \in Nat

VARIABLES
  capacity,     \* capacity[i]: bytes malloc gave for chunk i
  chunk,        \* the next free byte of the current chunk
  chunk_left,   \* bytes left in the current chunk
  chunks,       \* pointers recorded when a chunk is retired
  block,        \* what each handle points to
  freed,        \* pointers given to free by fastfreeall
  phase         \* "compiling", "freed" or "aborted"

vars == <<capacity, chunk, chunk_left, chunks, block, freed, phase>>

Pointer == [id : Nat, off : Nat]
Null == [id |-> 0, off |-> 0]
Block == [id : Nat, off : Nat, size : Nat]
NoBlock == [id |-> 0, off |-> 0, size |-> 0]

Init ==
  /\ capacity = <<>>
  /\ chunk = Null
  /\ chunk_left = 0
  /\ chunks = <<>>
  /\ block = [h \in Handles |-> NoBlock]
  /\ freed = {}
  /\ phase = "compiling"

(***************************************************************************)
(* fastalloc.  The request fits the current chunk, or a new chunk is        *)
(* needed: then the current pointer is recorded first, and either call to   *)
(* the C library may return NULL.                                           *)
(***************************************************************************)
Fits_ExactlyFull(bytes) == chunk # Null /\ bytes <= chunk_left + 1
Fits(bytes) == chunk # Null /\ bytes <= chunk_left

NewCapacity(bytes) == IF bytes > ChunkSize THEN bytes * 2 ELSE ChunkSize

Recorded_Never == chunks
Recorded == IF chunk = Null THEN chunks ELSE Append(chunks, chunk)

\* Take bytes from the current chunk and give them to h, whose block then
\* starts at start and has size bytes.
Bump(h, bytes, start, size) ==
  /\ chunk_left' = chunk_left - bytes
  /\ chunk' = [id |-> chunk.id, off |-> chunk.off + bytes]
  /\ block' = [block EXCEPT ![h] = [id |-> chunk.id, off |-> start, size |-> size]]
  /\ UNCHANGED <<capacity, chunks>>

\* Start a new chunk and give its first bytes to h.
NewChunk(h, bytes) ==
  LET n == Len(capacity) + 1 IN
  /\ Len(capacity) < MaxChunks
  /\ chunks' = Recorded
  /\ capacity' = Append(capacity, NewCapacity(bytes))
  /\ chunk' = [id |-> n, off |-> bytes]
  /\ chunk_left' = NewCapacity(bytes) - bytes
  /\ block' = [block EXCEPT ![h] = [id |-> n, off |-> 0, size |-> bytes]]

\* realloc of the chunk list failed, or malloc failed after the current chunk
\* was recorded: NULL is returned, and the current chunk stays current.
OutOfMemory_ForgetsChunk ==
  /\ chunks' = Recorded
  /\ chunk' = Null
  /\ UNCHANGED <<capacity, chunk_left, block>>

OutOfMemory ==
  /\ \/ chunk # Null /\ chunks' = chunks
     \/ chunks' = Recorded
  /\ UNCHANGED <<capacity, chunk, chunk_left, block>>

\* A caller without a block asks for one.
Allocate(h, bytes) ==
  /\ block[h].id = 0
  /\ \/ Fits(bytes) /\ Bump(h, bytes, chunk.off, bytes)
     \/ ~Fits(bytes) /\ NewChunk(h, bytes)
     \/ ~Fits(bytes) /\ Len(chunks) < MaxChunks /\ OutOfMemory
  /\ phase = "compiling"
  /\ UNCHANGED <<freed, phase>>

\* faststrdup: the same, but a NULL result trips the assertion at line 72.
Strdup(h, bytes) ==
  /\ block[h].id = 0
  /\ bytes > 0
  /\ phase = "compiling"
  /\ \/ Fits(bytes) /\ Bump(h, bytes, chunk.off, bytes) /\ UNCHANGED phase
     \/ ~Fits(bytes) /\ NewChunk(h, bytes) /\ UNCHANGED phase
     \/ ~Fits(bytes) /\ OutOfMemory /\ phase' = "aborted"
  /\ UNCHANGED freed

(***************************************************************************)
(* fastrealloc(old, oldBytes, newBytes).  oldBytes is the size the owner    *)
(* believes in, block[h].size; old may be NULL with oldBytes 0.             *)
(***************************************************************************)
EndsAtChunk_AnyBlock(b) == b.id = chunk.id
EndsAtChunk(b) == b.id = chunk.id /\ b.off + b.size = chunk.off

GrowsInPlace_Unbounded(b, bytes) == EndsAtChunk(b)
GrowsInPlace(b, bytes) == EndsAtChunk(b) /\ bytes - b.size <= chunk_left

\* Not growing: the old pointer is returned, its tail is given up.
Keep(h, bytes) ==
  /\ bytes <= block[h].size
  /\ block' = [block EXCEPT ![h] = [id |-> @.id, off |-> @.off, size |-> bytes]]
  /\ UNCHANGED <<capacity, chunk, chunk_left, chunks>>

Grow(h, bytes) ==
  /\ bytes > block[h].size
  /\ GrowsInPlace(block[h], bytes)
  /\ Bump(h, bytes - block[h].size, block[h].off, bytes)

\* A new block is allocated and the old bytes are copied; the old block is
\* never given back.
Move(h, bytes) ==
  /\ bytes > block[h].size
  /\ ~GrowsInPlace(block[h], bytes)
  /\ \/ Fits(bytes) /\ Bump(h, bytes, chunk.off, bytes)
     \/ ~Fits(bytes) /\ NewChunk(h, bytes)
     \/ ~Fits(bytes) /\ Len(chunks) < MaxChunks /\ OutOfMemory

Reallocate(h, bytes) ==
  /\ phase = "compiling"
  /\ Keep(h, bytes) \/ Grow(h, bytes) \/ Move(h, bytes)
  /\ UNCHANGED <<freed, phase>>

(***************************************************************************)
(* fastfreeall, at the end of compilation: every recorded pointer and the   *)
(* current one is given to free.  chunk and chunk_left are left as they are.*)
(***************************************************************************)
FreeAll ==
  /\ phase = "compiling"
  /\ freed' = {chunks[i] : i \in DOMAIN chunks} \cup ({chunk} \ {Null})
  /\ chunks' = <<>>
  /\ phase' = "freed"
  /\ UNCHANGED <<capacity, chunk, chunk_left, block>>

Next ==
  \/ \E h \in Handles, bytes \in Sizes :
       Allocate(h, bytes) \/ Strdup(h, bytes) \/ Reallocate(h, bytes)
  \/ FreeAll

Spec == Init /\ [][Next]_vars

--------------------------------------------------------------------------------
(***************************************************************************)
(* Properties.                                                              *)
(***************************************************************************)

\* Every variable has its type (state of fastalloc.c:3-7).
TypeOK ==
  /\ capacity \in Seq(Nat)
  /\ chunk \in Pointer
  /\ chunk_left \in Nat
  /\ chunks \in Seq(Pointer)
  /\ block \in [Handles -> Block]
  /\ freed \subseteq Pointer
  /\ phase \in {"compiling", "freed", "aborted"}

\* No two pointers the compiler holds own a common byte, whatever the sequence
\* of fastalloc and fastrealloc calls that produced them, failed ones included.
BlocksDisjoint ==
  \A g, h \in Handles :
    g # h /\ block[g].id = block[h].id /\ block[g].size > 0 /\ block[h].size > 0
      => \/ block[g].off + block[g].size <= block[h].off
         \/ block[h].off + block[h].size <= block[g].off

\* Every byte a caller owns lies inside memory malloc returned: neither the
\* bump nor the growth in place may run over the end of a chunk.
BlocksInChunk ==
  \A h \in Handles :
    block[h].id # 0 =>
      /\ block[h].id <= Len(capacity)
      /\ block[h].off + block[h].size <= capacity[block[h].id]

\* While compiling, fastfreeall can still reach every chunk: it is the current
\* one or it was recorded when it was retired.
ChunksReachable ==
  phase = "compiling" =>
    \A i \in 1..Len(capacity) :
      i = chunk.id \/ \E j \in DOMAIN chunks : chunks[j].id = i

\* The next free byte never moves backwards in a chunk and never returns to an
\* older chunk, so memory once handed out is never handed out again.
ChunkAdvances ==
  [][\/ chunk'.id > chunk.id
     \/ chunk'.id = chunk.id /\ chunk'.off >= chunk.off]_vars

--------------------------------------------------------------------------------
(***************************************************************************)
(* The inductive invariant: the current chunk is the youngest, its used and *)
(* free parts add up, and no block reaches beyond the used part.            *)
(***************************************************************************)
Accounting ==
  /\ chunk.id = Len(capacity)
  /\ chunk.id = 0 => chunk.off = 0 /\ chunk_left = 0
  /\ chunk.id # 0 => chunk.off + chunk_left = capacity[chunk.id]

BlocksUsed ==
  \A h \in Handles :
    /\ block[h].id = 0 => block[h].off = 0 /\ block[h].size = 0
    /\ block[h].id = chunk.id => block[h].off + block[h].size <= chunk.off

IInv == TypeOK /\ Accounting /\ BlocksInChunk /\ BlocksUsed /\ BlocksDisjoint

================================================================================
