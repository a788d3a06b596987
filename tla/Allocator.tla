----------------------------- MODULE Allocator -----------------------------
(***************************************************************************)
(* malloclab: the allocator of mm.c on the memory of memlib.c, driven by a *)
(* client that stores into what it is given.                               *)
(*                                                                         *)
(* Memory is a sequence of 8-byte words and a pointer is the index of a    *)
(* word; the heap begins at word 0, whose address is a multiple of 16, and *)
(* 0 also serves as NULL, because no block begins there.  A word is a      *)
(* number: a header is the size of the block in bytes plus its flags, and  *)
(* headers, links, footers and the client's data share the memory as in C. *)
(***************************************************************************)
EXTENDS Integers, FiniteSets

CONSTANTS InitialSize,   \* 4096: bytes of the first free block
          MaxHeap,       \* MAX_HEAP_SIZE, in bytes
          SizeRange,     \* 2^64: size_t is counted modulo this
          Requests,      \* bound: the sizes that the client asks for
          Values,        \* the words that the client stores
          MaxLive        \* bound: blocks that the client holds

ASSUME AllocatorAssumption ==
  /\ InitialSize \in Nat /\ InitialSize >= 32 /\ InitialSize % 16 = 0
  /\ MaxHeap \in Nat /\ MaxHeap >= InitialSize + 16 /\ MaxHeap % 8 = 0
  /\ SizeRange \in Nat /\ SizeRange > 2 * MaxHeap /\ SizeRange % 16 = 0
  /\ Requests \subseteq 0 .. (SizeRange - 1)
  /\ Values \subseteq Nat
  /\ MaxLive \in Nat

VARIABLES
  heap,   \* the words of memory, mem_brk as a number of words, and
          \* free_block_pointer
  live    \* the client's blocks: pointer, size asked for, value stored

vars == <<heap, live>>

NULL == 0

Address == 0 .. (MaxHeap \div 8 - 1)

-----------------------------------------------------------------------------
(* Words and headers.                                                      *)

\* The number of words that n bytes touch.
WordsOf(n) == (n + 7) \div 8

Bit0(w) == w % 2 = 1              \* allocated block flag
Bit1(w) == (w \div 2) % 2 = 1     \* previous block allocated flag
SizeIn(w) == w - (w % 4)          \* w & ~3

Toggle1(w) == IF Bit1(w) THEN w - 2 ELSE w + 2     \* w ^= 2
Clear1(w)  == IF Bit1(w) THEN w - 2 ELSE w         \* w &= ~2
Clear0(w)  == IF Bit0(w) THEN w - 1 ELSE w         \* w &= ~1

\* A header of the given size that keeps the previous flag of w.
Keeping(w, header) == IF Bit1(w) THEN header + 2 ELSE header

Store(h, a, w) == [h EXCEPT !.mem = [@ EXCEPT ![a] = w]]

\* Block: header, next_node, prev_node.
Header(h, b)    == h.mem[b]
Size(h, b)      == SizeIn(h.mem[b])
NextBlock(h, b) == b + Size(h, b) \div 8
next_node(h, b) == h.mem[b + 1]
prev_node(h, b) == h.mem[b + 2]

\* size_t arithmetic
align(x) == 16 * (((x + 15) % SizeRange) \div 16)

\* Mutant: no room for the header.
RequiredPayload(size) ==
  LET n == align(size) IN IF n < 32 THEN 32 ELSE n

\* The size of the block that holds size bytes.
Required(size) ==
  LET n == align((size + 8) % SizeRange) IN IF n < 32 THEN 32 ELSE n

-----------------------------------------------------------------------------
(* memlib.c                                                                *)

\* mm_sbrk takes a signed number.
CanExtend(h, incr) == incr < SizeRange \div 2 /\ 8 * h.brk + incr <= MaxHeap

mm_sbrk(h, incr) == [h EXCEPT !.brk = @ + incr \div 8]

\* The bounds of coalesce: "(size_t* ) mm_heap_hi() - 7" is 57 bytes before the
\* end of the heap.
InBounds(h, a) == a >= 1 /\ 8 * a < 8 * h.brk - 57

-----------------------------------------------------------------------------
(* The free list.                                                          *)

\* Mutant: the back link of the next block is left alone.
remove_one_way(h, b) ==
  IF prev_node(h, b) # NULL
  THEN Store(h, prev_node(h, b) + 1, next_node(h, b))
  ELSE [h EXCEPT !.free_block_pointer = next_node(h, b)]

remove_from_free_list(h, b) ==
  LET p  == prev_node(h, b)
      n  == next_node(h, b)
      h1 == IF p # NULL THEN Store(h, p + 1, n)
                        ELSE [h EXCEPT !.free_block_pointer = n]
  IN  IF next_node(h1, b) # NULL
      THEN Store(h1, next_node(h1, b) + 2, prev_node(h1, b))
      ELSE h1

add_to_free_list(h, b) ==
  LET f  == h.free_block_pointer
      h1 == Store(Store(h, b + 2, NULL), b + 1, f)
      h2 == IF f # NULL THEN Store(h1, f + 2, b) ELSE h1
  IN  [h2 EXCEPT !.free_block_pointer = b]

\* The n-th block of the free list, NULL after the last one.
FreeBlock(h) ==
  LET l[n \in Nat] ==
        IF n = 0 THEN h.free_block_pointer
        ELSE LET b == l[n - 1] IN IF b = NULL THEN NULL ELSE next_node(h, b)
  IN  l

\* The first block of the list that is large enough, or NULL.
search(h, size) ==
  LET l       == FreeBlock(h)
      Stop(n) == l[n] = NULL \/ Size(h, l[n]) >= size
  IN  l[CHOOSE n \in 0 .. h.brk : Stop(n) /\ \A m \in 0 .. (n - 1) : ~ Stop(m)]

-----------------------------------------------------------------------------
(* mm_init, malloc, free, realloc, calloc.  Each returns the heap that it  *)
(* leaves; malloc and realloc also a pointer.                              *)

Empty == [mem |-> [a \in Address |-> 0], brk |-> 0, free_block_pointer |-> NULL]

mm_init ==
  LET h == mm_sbrk(Empty, InitialSize + 16)
  IN  [h EXCEPT
         !.mem = [@ EXCEPT ![0] = 1,
                           ![1] = Toggle1(InitialSize),
                           ![h.brk - 2] = InitialSize,
                           ![h.brk - 1] = 1],
         !.free_block_pointer = 1]

\* malloc takes all of free block b ...
TakeWhole(h, b) ==
  LET h1 == Store(h, b, Keeping(Header(h, b), Size(h, b) + 1))
      h2 == Store(h1, NextBlock(h, b), Toggle1(Header(h1, NextBlock(h, b))))
  IN  remove_from_free_list(h2, b)

\* Mutant: the rest gets no footer.
SplitWithoutFooter(h, b, required) ==
  LET extra == Size(h, b) - required
      new   == b + extra \div 8
      h1    == Store(h, b, Keeping(Header(h, b), extra))
      h2    == Store(h1, new, required + 1)
  IN  Store(h2, NextBlock(h, b), Toggle1(Header(h2, NextBlock(h, b))))

\* ... or its end; the rest stays in the list.
Split(h, b, required) ==
  LET extra == Size(h, b) - required
      new   == b + extra \div 8
      h1    == Store(h, b, Keeping(Header(h, b), extra))
      h2    == Store(h1, new - 1, extra)
      h3    == Store(h2, new, required + 1)
  IN  Store(h3, NextBlock(h, b), Toggle1(Header(h3, NextBlock(h, b))))

\* The new block begins at the old epilogue.
Extend(h, required) ==
  LET b  == h.brk - 1
      h1 == mm_sbrk(h, required)
      h2 == Store(h1, b, Keeping(Header(h, b), required + 1))
  IN  Store(h2, h1.brk - 1, 3)

malloc(h, size) ==
  LET required == Required(size)
      b        == search(h, required)
      rest     == Size(h, b) - required
  IN  CASE size = 0 -> [heap |-> h, ptr |-> NULL]
        [] size # 0 /\ b # NULL /\ rest <= 32 ->
             [heap |-> TakeWhole(h, b), ptr |-> b + 1]
        [] size # 0 /\ b # NULL /\ rest > 32 ->
             [heap |-> Split(h, b, required), ptr |-> b + rest \div 8 + 1]
        [] size # 0 /\ b = NULL /\ CanExtend(h, required) ->
             [heap |-> Extend(h, required), ptr |-> h.brk]
        [] OTHER -> [heap |-> h, ptr |-> NULL]

\* Mutant: a free block is not joined with the one after it.
coalesce_backwards(h, b) ==
  LET prev == b - SizeIn(Header(h, b - 1)) \div 8
  IN  IF Bit1(Header(h, b)) \/ ~ InBounds(h, prev) THEN h
      ELSE LET size == Size(h, b) + Size(h, prev)
               h1   == remove_from_free_list(remove_from_free_list(h, prev), b)
               h2   == Store(h1, prev, Toggle1(size))
           IN  add_to_free_list(Store(h2, prev + size \div 8 - 1, size), prev)

coalesce(h, b) ==
  LET prev == b - SizeIn(Header(h, b - 1)) \div 8
      next == NextBlock(h, b)
      p    == ~ Bit1(Header(h, b)) /\ InBounds(h, prev)
      h1   == IF p THEN remove_from_free_list(h, prev) ELSE h
      n    == InBounds(h, next) /\ ~ Bit0(Header(h1, next))
      h2   == IF n THEN remove_from_free_list(h1, next) ELSE h1
      size == Size(h, b) + (IF p THEN Size(h1, prev) ELSE 0)
                         + (IF n THEN Size(h2, next) ELSE 0)
      all  == IF p THEN prev ELSE b
      h3   == remove_from_free_list(h2, b)
      h4   == Store(Store(h3, all, Toggle1(size)), all + size \div 8 - 1, size)
  IN  IF size = Size(h, b) THEN h2 ELSE add_to_free_list(h4, all)

free(h, ptr) ==
  LET b  == ptr - 1
      h1 == Store(h, b, Clear0(Header(h, b)))
      h2 == Store(h1, NextBlock(h, b) - 1, Size(h, b))
      h3 == Store(h2, NextBlock(h, b), Clear1(Header(h2, NextBlock(h, b))))
  IN  IF ptr = NULL THEN h ELSE coalesce(add_to_free_list(h3, b), b)

\* memcpy and memset, by words: a word that the request covers in part is
\* copied or set whole, which nobody can see.
Copy(h, to, from, bytes) ==
  [h EXCEPT !.mem = [a \in Address |-> IF a \in to .. (to + WordsOf(bytes) - 1)
                                       THEN @[from + a - to] ELSE @[a]]]

Set(h, from, n, value) ==
  [h EXCEPT !.mem = [a \in Address |-> IF a \in from .. (from + n - 1)
                                       THEN value ELSE @[a]]]

\* Mutant: the old block is freed first.
realloc_early(h, old, size) ==
  IF old = NULL THEN malloc(h, size)
  ELSE IF size = 0 THEN [heap |-> free(h, old), ptr |-> NULL]
  ELSE LET bytes == IF size > Size(h, old - 1) THEN Size(h, old - 1) ELSE size
           r     == malloc(free(h, old), size)
       IN  IF r.ptr = NULL THEN r
           ELSE [r EXCEPT !.heap = Copy(@, r.ptr, old, bytes)]

\* The old block is freed in any case.
realloc(h, old, size) ==
  IF old = NULL THEN malloc(h, size)
  ELSE IF size = 0 THEN [heap |-> free(h, old), ptr |-> NULL]
  ELSE LET r     == malloc(h, size)
           bytes == LET n == Size(r.heap, old - 1) IN IF size > n THEN n ELSE size
           h1    == IF r.ptr = NULL THEN r.heap
                    ELSE Copy(r.heap, r.ptr, old, bytes)
       IN  [heap |-> free(h1, old), ptr |-> r.ptr]

calloc(h, nmemb, size) ==
  LET bytes == (size * nmemb) % SizeRange
      r     == malloc(h, bytes)
  IN  IF r.ptr = NULL THEN r
      ELSE [r EXCEPT !.heap = Set(@, r.ptr, WordsOf(bytes), 0)]

-----------------------------------------------------------------------------
(* The client stores one value into all of a block it gets, and after      *)
(* realloc into what the block is larger than before.                      *)

Init == heap = mm_init /\ live = {}

Block(ptr, size, value) ==
  IF ptr = NULL THEN {} ELSE {[ptr |-> ptr, size |-> size, value |-> value]}

\* The client stores into the words of a block from word n on.
Fill(r, n, size, value) ==
  IF r.ptr = NULL \/ n >= WordsOf(size) THEN r.heap
  ELSE Set(r.heap, r.ptr + n, WordsOf(size) - n, value)

Malloc ==
  \E size \in Requests, value \in Values :
    LET r == malloc(heap, size)
    IN  /\ Cardinality(live) < MaxLive
        /\ heap' = Fill(r, 0, size, value)
        /\ live' = live \cup Block(r.ptr, size, value)

Calloc ==
  \E nmemb \in {1, 2}, size \in Requests :
    LET r == calloc(heap, nmemb, size)
    IN  /\ Cardinality(live) < MaxLive
        /\ nmemb * size \in Requests
        /\ heap' = r.heap
        /\ live' = live \cup Block(r.ptr, nmemb * size, 0)

Free ==
  \E old \in live :
    /\ heap' = free(heap, old.ptr)
    /\ live' = live \ {old}

Realloc ==
  \E old \in live \cup {[ptr |-> NULL, size |-> 0, value |-> 0]},
     size \in Requests :
    LET r == realloc(heap, old.ptr, size)
    IN  /\ old \in live \/ Cardinality(live) < MaxLive
        /\ heap' = Fill(r, WordsOf(old.size), size, old.value)
        /\ live' = (live \ {old}) \cup Block(r.ptr, size, old.value)

Next == Malloc \/ Calloc \/ Free \/ Realloc

Spec == Init /\ [][Next]_vars

-----------------------------------------------------------------------------
(* Correctness.                                                            *)

\* The blocks from the prologue on, by their headers.
Walk ==
  LET w[n \in Nat] ==
        IF n = 0 THEN 1
        ELSE LET b == w[n - 1]
             IN  IF b >= heap.brk - 1 \/ Size(heap, b) = 0 THEN b
                 ELSE NextBlock(heap, b)
  IN  w

MaxBlocks == heap.brk \div 4

Epilogue == heap.brk - 1

Blocks == {Walk[n] : n \in 0 .. MaxBlocks} \ {Epilogue}

IsFree(b) == ~ Bit0(Header(heap, b))

\* The headers lead from the prologue to the epilogue through blocks of legal
\* sizes, and the allocated ones are the client's, each large enough: nothing
\* is leaked or handed out twice.
BlocksTile ==
  /\ Walk[MaxBlocks] = Epilogue
  /\ \A b \in Blocks : Size(heap, b) >= 32 /\ Size(heap, b) % 16 = 0
  /\ {b + 1 : b \in {c \in Blocks : ~ IsFree(c)}} = {l.ptr : l \in live}
  /\ \A l \in live : l.size + 8 <= Size(heap, l.ptr - 1)

\* malloclab/README.md: an allocated block lies within the heap, does not
\* overlap any other one and is aligned to 16 bytes.
Words(l) == l.ptr .. (l.ptr + WordsOf(l.size) - 1)

NoOverlap ==
  \A l \in live :
    /\ Words(l) \subseteq 1 .. (Epilogue - 1)
    /\ l.ptr % 2 = 0
    /\ \A m \in live \ {l} : Words(l) \cap Words(m) = {}

\* The boundary tags that free relies on: bit 1 of a header, the epilogue's
\* too, is set exactly if the block before it is allocated, and the last word
\* of a free block is its size.
TagsRight ==
  \A b \in Blocks :
    /\ Bit1(Header(heap, NextBlock(heap, b))) <=> ~ IsFree(b)
    /\ IsFree(b) => Header(heap, NextBlock(heap, b) - 1) = Size(heap, b)
    /\ b = 1 => Bit1(Header(heap, b))

\* What mm_checkheap scans for and more: the list holds every free block, only
\* free blocks, each once, and its links agree in both directions.
FreeListExact ==
  LET l     == FreeBlock(heap)
      Nodes == {n \in 0 .. MaxBlocks : l[n] # NULL}
  IN  /\ l[MaxBlocks] = NULL
      /\ {l[n] : n \in Nodes} = {b \in Blocks : IsFree(b)}
      /\ \A n \in Nodes : prev_node(heap, l[n]) = IF n = 0 THEN NULL ELSE l[n - 1]

\* Two free blocks are never neighbours.
Coalesced ==
  \A b \in Blocks : IsFree(b) /\ NextBlock(heap, b) # Epilogue
                     => ~ IsFree(NextBlock(heap, b))

\* The client's data survive whatever the allocator does with other blocks;
\* realloc takes them along, calloc clears.
ContentsKept ==
  \A l \in live : \A a \in Words(l) : heap.mem[a] = l.value

=============================================================================
