-------------------------- MODULE AllocatorProofs --------------------------
(***************************************************************************)
(* The allocator, for every size of the heap and of its first block and    *)
(* for every client whose requests need blocks of at least 64 bytes: the   *)
(* blocks tile the heap, the tags and the free list are right, free blocks *)
(* are coalesced and the client's data survive.                            *)
(***************************************************************************)
EXTENDS Allocator, Sequences, TLAPS, NaturalsInduction, WellFoundedInduction,
        FiniteSetTheorems

\* Requests of more than 40 bytes, whose rounded sizes fit into a size_t.
LargeRequests ==
  \A size \in Requests : size = 0 \/ (size > 40 /\ size + 23 < SizeRange)

-----------------------------------------------------------------------------
(* Words.                                                                  *)

Even(n) == n % 2 = 0

LEMMA WordParts ==
  ASSUME NEW x \in Nat
  PROVE  \E q \in Nat, r \in 0 .. 3 : x = 4 * q + r
<1>1. x \div 4 \in Nat /\ x % 4 \in 0 .. 3 /\ x = 4 * (x \div 4) + (x % 4)
  OBVIOUS
<1> QED BY <1>1

\* What the flags of a word are, from its last two bits.
LEMMA WordOf ==
  ASSUME NEW q \in Nat
  PROVE  /\ SizeIn(4 * q) = 4 * q /\ ~ Bit0(4 * q) /\ ~ Bit1(4 * q)
         /\ SizeIn(4 * q + 1) = 4 * q /\ Bit0(4 * q + 1) /\ ~ Bit1(4 * q + 1)
         /\ SizeIn(4 * q + 2) = 4 * q /\ ~ Bit0(4 * q + 2) /\ Bit1(4 * q + 2)
         /\ SizeIn(4 * q + 3) = 4 * q /\ Bit0(4 * q + 3) /\ Bit1(4 * q + 3)
<1>1. /\ (4 * q) % 4 = 0 /\ (4 * q + 1) % 4 = 1 /\ (4 * q + 2) % 4 = 2 /\ (4 * q + 3) % 4 = 3
  OBVIOUS
<1>2. /\ (4 * q) % 2 = 0 /\ (4 * q + 1) % 2 = 1 /\ (4 * q + 2) % 2 = 0 /\ (4 * q + 3) % 2 = 1
  OBVIOUS
<1>3. /\ ((4 * q) \div 2) % 2 = 0 /\ ((4 * q + 1) \div 2) % 2 = 0
      /\ ((4 * q + 2) \div 2) % 2 = 1 /\ ((4 * q + 3) \div 2) % 2 = 1
  OBVIOUS
<1> QED BY <1>1, <1>2, <1>3 DEF SizeIn, Bit0, Bit1

\* Changing a flag leaves the size and the other flag alone.
LEMMA FlagChanges ==
  ASSUME NEW x \in Nat
  PROVE  /\ SizeIn(x) \in Nat
         /\ Toggle1(x) \in Nat /\ SizeIn(Toggle1(x)) = SizeIn(x)
         /\ Bit0(Toggle1(x)) <=> Bit0(x)
         /\ Bit1(Toggle1(x)) <=> ~ Bit1(x)
         /\ Clear1(x) \in Nat /\ SizeIn(Clear1(x)) = SizeIn(x)
         /\ Bit0(Clear1(x)) <=> Bit0(x)
         /\ ~ Bit1(Clear1(x))
         /\ Clear0(x) \in Nat /\ SizeIn(Clear0(x)) = SizeIn(x)
         /\ ~ Bit0(Clear0(x))
         /\ Bit1(Clear0(x)) <=> Bit1(x)
<1>1. PICK q \in Nat, r \in 0 .. 3 : x = 4 * q + r
  BY WordParts
<1>2. CASE r = 0
  BY <1>1, <1>2, WordOf DEF Toggle1, Clear1, Clear0
<1>3. CASE r = 1
  BY <1>1, <1>3, WordOf DEF Toggle1, Clear1, Clear0
<1>4. CASE r = 2
  BY <1>1, <1>4, WordOf DEF Toggle1, Clear1, Clear0
<1>5. CASE r = 3
  BY <1>1, <1>5, WordOf DEF Toggle1, Clear1, Clear0
<1> QED BY <1>1, <1>2, <1>3, <1>4, <1>5

\* The words that are made from the size of a block of n words.
LEMMA NewWords ==
  ASSUME NEW n \in Nat
  PROVE  /\ SizeIn(8 * n) = 8 * n /\ ~ Bit0(8 * n) /\ ~ Bit1(8 * n)
         /\ SizeIn(8 * n + 1) = 8 * n /\ Bit0(8 * n + 1) /\ ~ Bit1(8 * n + 1)
         /\ Toggle1(8 * n) = 8 * n + 2
         /\ SizeIn(8 * n + 2) = 8 * n /\ ~ Bit0(8 * n + 2) /\ Bit1(8 * n + 2)
         /\ SizeIn(3) = 0 /\ Bit0(3) /\ Bit1(3)
         /\ (8 * n) \div 8 = n
         /\ \A x \in Nat : /\ Keeping(x, 8 * n) \in Nat /\ SizeIn(Keeping(x, 8 * n)) = 8 * n
                           /\ ~ Bit0(Keeping(x, 8 * n))
                           /\ Bit1(Keeping(x, 8 * n)) <=> Bit1(x)
                           /\ Keeping(x, 8 * n + 1) \in Nat
                           /\ SizeIn(Keeping(x, 8 * n + 1)) = 8 * n
                           /\ Bit0(Keeping(x, 8 * n + 1))
                           /\ Bit1(Keeping(x, 8 * n + 1)) <=> Bit1(x)
<1>1. PICK q \in Nat : q = 2 * n
  OBVIOUS
<1>2. 8 * n = 4 * q
  BY <1>1
<1>3. /\ SizeIn(8 * n) = 8 * n /\ ~ Bit0(8 * n) /\ ~ Bit1(8 * n)
      /\ SizeIn(8 * n + 1) = 8 * n /\ Bit0(8 * n + 1) /\ ~ Bit1(8 * n + 1)
      /\ SizeIn(8 * n + 2) = 8 * n /\ ~ Bit0(8 * n + 2) /\ Bit1(8 * n + 2)
      /\ SizeIn(8 * n + 3) = 8 * n /\ Bit0(8 * n + 3) /\ Bit1(8 * n + 3)
  BY <1>2, WordOf
<1>4. SizeIn(3) = 0 /\ Bit0(3) /\ Bit1(3)
  BY WordOf
<1>5. (8 * n) \div 8 = n
  OBVIOUS
<1>6. Toggle1(8 * n) = 8 * n + 2
  BY <1>3 DEF Toggle1
<1>7. 8 * n + 1 + 2 = 8 * n + 3
  OBVIOUS
<1> QED BY <1>3, <1>4, <1>5, <1>6, <1>7 DEF Keeping

-----------------------------------------------------------------------------
(* The least element of a set of natural numbers, which stands in for      *)
(* induction.                                                              *)

LEMMA NatMin ==
  ASSUME NEW T \in SUBSET Nat, T # {}
  PROVE  \E x \in T : \A y \in T : x <= y
<1>1. IsWellFoundedOn(OpToRel(<, Nat), Nat)
  BY NatLessThanWellFounded
<1>2. PICK x \in T : \A y \in T : ~ (<<y, x>> \in OpToRel(<, Nat))
  BY <1>1, WFMin
<1>3. \A y \in T : ~ (y < x)
  BY <1>2 DEF OpToRel
<1> QED BY <1>3

-----------------------------------------------------------------------------
(* Blocks.  B is the set of the places where blocks begin, w[b] the number *)
(* of words of block b, A the set of the allocated blocks.                 *)

HeapType == [mem : [Address -> Nat], brk : Nat, free_block_pointer : Nat]

\* The blocks of B tile the words from 1 to the epilogue, which is at k - 1.
Layout(k, B, w) ==
  /\ k \in Nat /\ Even(k) /\ 8 * k <= MaxHeap
  /\ B \in SUBSET Nat /\ 1 \in B /\ w \in [Nat -> Nat]
  /\ \A b \in B : /\ b >= 1 /\ Even(b + 1)
                  /\ w[b] >= 4 /\ Even(w[b])
                  /\ b + w[b] <= k - 1 /\ b + w[b] \in B \cup {k - 1}
  /\ \A b, c \in B : b < c => b + w[b] <= c
  /\ \A c \in B \cup {k - 1} : c = 1 \/ \E b \in B : b + w[b] = c

\* The boundary tags: headers, the flag in the header after a block, footers.
Tags(m, B, w, A) ==
  /\ \A b \in B : /\ SizeIn(m[b]) = 8 * w[b]
                  /\ Bit0(m[b]) <=> b \in A
                  /\ Bit1(m[b + w[b]]) <=> b \in A
  /\ Bit1(m[1])
  /\ \A b \in B \ A : m[b + w[b] - 1] = 8 * w[b]

LEMMA EvenFacts ==
  /\ \A x, y \in Nat : Even(x) /\ Even(y) => Even(x + y)
  /\ \A x, y \in Nat : Even(x) /\ Even(y) /\ y <= x => Even(x - y)
  /\ Even(2) /\ ~ Even(1)
<1>1. \A x, y \in Nat : x % 2 = 0 /\ y % 2 = 0 => (x + y) % 2 = 0
  OBVIOUS
<1>2. \A x, y \in Nat : x % 2 = 0 /\ y % 2 = 0 /\ y <= x => (x - y) % 2 = 0
  OBVIOUS
<1> QED BY <1>1, <1>2 DEF Even

LEMMA InHeap ==
  ASSUME NEW k, NEW B, NEW w, Layout(k, B, w)
  PROVE  /\ \A a \in Nat : a < k => a \in Address
         /\ k >= 6 /\ k - 1 \in Nat
         /\ \A b \in B : /\ b \in Nat /\ w[b] \in Nat /\ b + w[b] \in Nat /\ b + w[b] - 1 \in Nat
                         /\ b < k /\ b + w[b] < k
<1>1. k \in Nat /\ 8 * k <= MaxHeap /\ 1 \in B /\ w \in [Nat -> Nat] /\ B \in SUBSET Nat
  BY DEF Layout
<1>2. \A b \in B : b \in Nat /\ w[b] \in Nat /\ w[b] >= 4 /\ b >= 1 /\ b + w[b] <= k - 1
  BY DEF Layout
<1>3. k <= MaxHeap \div 8
  BY <1>1, AllocatorAssumption
<1>4. \A a \in Nat : a < k => a \in Address
  BY <1>1, <1>3, AllocatorAssumption DEF Address
<1> QED BY <1>1, <1>2, <1>4

\* Where the words of different blocks are.
LEMMA BlocksApart ==
  ASSUME NEW k, NEW B, NEW w, Layout(k, B, w), NEW b \in B, NEW c \in B, b # c
  PROVE  b + w[b] <= c \/ c + w[c] <= b
BY InHeap DEF Layout

-----------------------------------------------------------------------------
(* The free list.                                                          *)

\* The element i of the sequence F, or NULL.
Nth(F, i) == IF i \in 1 .. Len(F) THEN F[i] ELSE NULL

\* The list consists of the blocks in F, in this order.
Linked(m, f, F) ==
  /\ f = Nth(F, 1)
  /\ \A i \in 1 .. Len(F) : m[F[i] + 1] = Nth(F, i + 1) /\ m[F[i] + 2] = Nth(F, i - 1)

Lists(F, S) ==
  /\ F \in Seq(S)
  /\ \A i, j \in 1 .. Len(F) : F[i] = F[j] => i = j
  /\ \A b \in S : \E i \in 1 .. Len(F) : F[i] = b

Chain(h, S) == \E F : Lists(F, S) /\ Linked(h.mem, h.free_block_pointer, F)

\* There is room for the links, and none is used for two blocks.
Apart(S) ==
  /\ S \in SUBSET Nat
  /\ \A b \in S : b >= 1 /\ b \in Address /\ b + 1 \in Address /\ b + 2 \in Address
  /\ \A b, c \in S : b < c => b + 4 <= c

LinkWords(S) == {b + 1 : b \in S} \cup {b + 2 : b \in S}

\* Memory changed only in links.
Relinked(m, n, S) == \A a \in Address : a \notin LinkWords(S) => n[a] = m[a]

\* g is the heap h after x has been stored at a.
Stored(h, g, a, x) ==
  /\ g \in HeapType /\ g.brk = h.brk
  /\ g.free_block_pointer = h.free_block_pointer
  /\ g.mem[a] = x
  /\ \A c \in Address : c # a => g.mem[c] = h.mem[c]

LEMMA StoreIs ==
  ASSUME NEW h \in HeapType, NEW a \in Address, NEW x \in Nat, NEW g, g = Store(h, a, x)
  PROVE  Stored(h, g, a, x)
BY DEF Store, Stored, HeapType

SetFree(h, b) == [h EXCEPT !.free_block_pointer = b]

LEMMA SetFreeIs ==
  ASSUME NEW h \in HeapType, NEW b \in Nat
  PROVE  /\ SetFree(h, b) \in HeapType
         /\ SetFree(h, b).mem = h.mem
         /\ SetFree(h, b).brk = h.brk
         /\ SetFree(h, b).free_block_pointer = b
BY DEF SetFree, HeapType

\* The same links, the same list.
LEMMA ChainKept ==
  ASSUME NEW h, NEW g, NEW S, Chain(h, S), Apart(S),
         g.free_block_pointer = h.free_block_pointer,
         \A a \in LinkWords(S) : g.mem[a] = h.mem[a]
  PROVE  Chain(g, S)
<1>1. PICK F : Lists(F, S) /\ Linked(h.mem, h.free_block_pointer, F)
  BY DEF Chain
<1>2. \A i \in 1 .. Len(F) : F[i] \in S
  BY <1>1 DEF Lists
<1>3. \A b \in S : b + 1 \in LinkWords(S) /\ b + 2 \in LinkWords(S)
  BY DEF LinkWords
<1>4. \A i \in 1 .. Len(F) : /\ g.mem[F[i] + 1] = h.mem[F[i] + 1]
                             /\ g.mem[F[i] + 2] = h.mem[F[i] + 2]
  BY <1>2, <1>3
<1>5. Linked(g.mem, g.free_block_pointer, F)
  BY <1>1, <1>4 DEF Linked
<1> QED BY <1>1, <1>5 DEF Chain

\* The new block is the first one.
LEMMA AddToChain ==
  ASSUME NEW h \in HeapType, NEW S, NEW b, b \notin S, Apart(S \cup {b}), Chain(h, S)
  PROVE  LET g == add_to_free_list(h, b) IN
         /\ g \in HeapType /\ g.brk = h.brk
         /\ Chain(g, S \cup {b})
         /\ Relinked(h.mem, g.mem, S \cup {b})
<1>1. PICK F : Lists(F, S) /\ Linked(h.mem, h.free_block_pointer, F)
  BY DEF Chain
<1>2. PICK m, f, n : m = h.mem /\ f = h.free_block_pointer /\ n = Len(F)
  OBVIOUS
<1>3. /\ n \in Nat /\ F \in Seq(S) /\ m \in [Address -> Nat] /\ f \in Nat
      /\ \A i \in 1 .. n : F[i] \in S
  BY <1>1, <1>2 DEF Lists, HeapType
<1>4. /\ S \in SUBSET Nat /\ b \in Nat /\ b >= 1 /\ b + 1 \in Address /\ b + 2 \in Address
      /\ \A c \in S : /\ c \in Nat /\ c >= 1 /\ c + 2 \in Address
                      /\ c + 4 <= b \/ b + 4 <= c
  BY DEF Apart
<1>5. PICK h0, h1 : h0 = Store(h, b + 2, NULL) /\ h1 = Store(h0, b + 1, f)
  OBVIOUS
<1>6. Stored(h, h0, b + 2, NULL) /\ h0 \in HeapType
  <2>1. NULL \in Nat
    BY DEF NULL
  <2>2. Stored(h, h0, b + 2, NULL)
    BY <1>4, <1>5, <2>1, StoreIs
  <2> QED BY <2>2 DEF Stored
<1>7. Stored(h0, h1, b + 1, f) /\ h1 \in HeapType
  <2>1. Stored(h0, h1, b + 1, f)
    BY <1>3, <1>4, <1>5, <1>6, StoreIs
  <2> QED BY <2>1 DEF Stored
<1>8. /\ f # NULL => n >= 1 /\ f = F[1] /\ f \in S
      /\ f = NULL => n = 0
  <2>1. f = Nth(F, 1)
    BY <1>1, <1>2 DEF Linked
  <2>2. CASE n >= 1
    <3>1. 1 \in 1 .. Len(F) /\ F[1] \in S
      BY <1>2, <1>3, <2>2
    <3>2. f = F[1] /\ F[1] >= 1
      BY <1>4, <2>1, <3>1 DEF Nth
    <3> QED BY <2>2, <3>1, <3>2 DEF NULL
  <2>3. CASE n = 0
    BY <1>2, <2>1, <2>3 DEF Nth
  <2> QED BY <1>3, <2>2, <2>3
<1>9. PICK h2 : h2 = IF f # NULL THEN Store(h1, f + 2, b) ELSE h1
  OBVIOUS
<1>10. /\ h2 \in HeapType /\ h2.brk = h.brk
       /\ f # NULL => h2.mem[f + 2] = b
       /\ \A a \in Address : (f = NULL \/ a # f + 2) => h2.mem[a] = h1.mem[a]
  <2>1. CASE f # NULL
    <3>1. f + 2 \in Address
      BY <1>4, <1>8, <2>1
    <3>2. Stored(h1, h2, f + 2, b)
      BY <1>4, <1>7, <1>9, <2>1, <3>1, StoreIs
    <3> QED BY <1>6, <1>7, <2>1, <3>2 DEF Stored
  <2>2. CASE f = NULL
    BY <1>6, <1>7, <1>9, <2>2 DEF Stored
  <2> QED BY <2>1, <2>2
<1>11. PICK g : g = SetFree(h2, b)
  OBVIOUS
<1>12. g \in HeapType /\ g.mem = h2.mem /\ g.brk = h.brk /\ g.free_block_pointer = b
  BY <1>4, <1>10, <1>11, SetFreeIs
<1>13. g = add_to_free_list(h, b)
  BY <1>2, <1>5, <1>9, <1>11 DEF add_to_free_list, SetFree
<1>14. PICK z : z = g.mem
  OBVIOUS
<1>15. /\ z[b + 1] = f /\ z[b + 2] = NULL
       /\ f # NULL => z[f + 2] = b
       /\ \A a \in Address : a # b + 1 /\ a # b + 2 /\ (f = NULL \/ a # f + 2) => z[a] = m[a]
  <2>1. f # NULL => f + 2 # b + 1 /\ f + 2 # b + 2
    <3> SUFFICES ASSUME f # NULL PROVE f + 2 # b + 1 /\ f + 2 # b + 2
      OBVIOUS
    <3>1. f \in S
      BY <1>8
    <3>2. f + 4 <= b \/ b + 4 <= f
      BY <1>4, <3>1
    <3> QED BY <1>3, <1>4, <3>2
  <2>2. b + 1 # b + 2
    BY <1>4
  <2>3. /\ h1.mem[b + 1] = f /\ h1.mem[b + 2] = NULL
        /\ \A a \in Address : a # b + 1 /\ a # b + 2 => h1.mem[a] = m[a]
    BY <1>2, <1>4, <1>6, <1>7, <2>2 DEF Stored
  <2> QED BY <1>4, <1>10, <1>12, <1>14, <2>1, <2>3
<1>16. Relinked(m, z, S \cup {b})
  <2> SUFFICES ASSUME NEW a \in Address, a \notin LinkWords(S \cup {b}) PROVE z[a] = m[a]
    BY DEF Relinked
  <2>1. a # b + 1 /\ a # b + 2 /\ (f # NULL => a # f + 2)
    BY <1>8 DEF LinkWords
  <2> QED BY <1>15, <2>1
<1>17. PICK G : G = [i \in 1 .. (n + 1) |-> IF i = 1 THEN b ELSE F[i - 1]]
  OBVIOUS
<1>18. /\ G \in Seq(S \cup {b}) /\ Len(G) = n + 1 /\ G[1] = b
       /\ \A i \in 2 .. (n + 1) : G[i] = F[i - 1] /\ i - 1 \in 1 .. n
  BY <1>3, <1>17
<1>19. Lists(G, S \cup {b})
  <2>1. ASSUME NEW i \in 1 .. (n + 1), NEW j \in 1 .. (n + 1), G[i] = G[j] PROVE i = j
    <3>1. \A x \in 2 .. (n + 1) : G[x] # b
      BY <1>3, <1>18
    <3>2. CASE i = 1 \/ j = 1
      BY <1>3, <1>18, <2>1, <3>1, <3>2
    <3>3. CASE i # 1 /\ j # 1
      <4>1. i \in 2 .. (n + 1) /\ j \in 2 .. (n + 1)
        BY <1>3, <3>3
      <4>2. i - 1 \in 1 .. Len(F) /\ j - 1 \in 1 .. Len(F) /\ F[i - 1] = F[j - 1]
        BY <1>2, <1>18, <2>1, <4>1
      <4>3. i - 1 = j - 1
        BY <1>1, <4>2 DEF Lists
      <4> QED BY <4>1, <4>3
    <3> QED BY <3>2, <3>3
  <2>2. ASSUME NEW c \in S \cup {b} PROVE \E i \in 1 .. (n + 1) : G[i] = c
    <3>1. CASE c = b
      <4>1. 1 \in 1 .. (n + 1)
        BY <1>3
      <4> QED BY <1>18, <3>1, <4>1
    <3>2. CASE c \in S
      <4>1. PICK i \in 1 .. n : F[i] = c
        BY <1>1, <1>2, <3>2 DEF Lists
      <4>2. i + 1 \in 2 .. (n + 1) /\ i + 1 \in 1 .. (n + 1) /\ (i + 1) - 1 = i
        BY <1>3
      <4>3. G[i + 1] = c
        BY <1>18, <4>1, <4>2
      <4> QED BY <4>2, <4>3
    <3> QED BY <3>1, <3>2
  <2> QED BY <1>18, <2>1, <2>2 DEF Lists
<1>20. Linked(z, b, G)
  <2>1. b = Nth(G, 1)
    BY <1>3, <1>18 DEF Nth
  <2>2. \A i \in 0 .. (n + 1) : Nth(G, i + 1) = Nth(F, i) \/ i = 0
    <3> TAKE i \in 0 .. (n + 1)
    <3>1. CASE i \in 1 .. n
      <4>1. i + 1 \in 2 .. (n + 1) /\ i + 1 \in 1 .. (n + 1) /\ (i + 1) - 1 = i
        BY <1>3, <3>1
      <4>2. G[i + 1] = F[i]
        BY <1>18, <4>1
      <4> QED BY <1>2, <1>18, <3>1, <4>1, <4>2 DEF Nth
    <3>2. CASE i = n + 1
      <4>1. i + 1 \notin 1 .. (n + 1) /\ i \notin 1 .. n
        BY <1>3, <3>2
      <4> QED BY <1>2, <1>18, <4>1 DEF Nth
    <3> QED BY <1>3, <3>1, <3>2
  <2>3. ASSUME NEW i \in 1 .. (n + 1)
        PROVE  z[G[i] + 1] = Nth(G, i + 1) /\ z[G[i] + 2] = Nth(G, i - 1)
    <3>1. CASE i = 1
      <4>1. 0 \notin 1 .. (n + 1) /\ 1 \in 0 .. (n + 1)
        BY <1>3
      <4>2. Nth(G, 0) = NULL /\ Nth(G, 2) = Nth(F, 1)
        BY <1>3, <1>18, <2>2, <4>1 DEF Nth
      <4>3. f = Nth(F, 1)
        BY <1>1, <1>2 DEF Linked
      <4> QED BY <1>15, <1>18, <3>1, <4>2, <4>3
    <3>2. CASE i # 1
      <4>1. PICK j \in 1 .. n : i = j + 1
        BY <1>3, <3>2
      <4>2. G[i] = F[j] /\ F[j] \in S /\ i \in 0 .. (n + 1) /\ j \in 0 .. (n + 1) /\ j \in 1 .. Len(F)
        BY <1>2, <1>3, <1>18, <4>1
      <4>3. m[F[j] + 1] = Nth(F, j + 1) /\ m[F[j] + 2] = Nth(F, j - 1)
        BY <1>1, <1>2, <4>2 DEF Linked
      <4>4. PICK c \in S : c = F[j]
        BY <4>2
      <4>5. c + 1 \in Address /\ c + 2 \in Address
        BY DEF Apart
      <4>6. c + 1 # b + 1 /\ c + 1 # b + 2 /\ c + 2 # b + 1 /\ c + 2 # b + 2
        BY <1>4
      <4>7. f # NULL => c + 1 # f + 2
        <5>1. ASSUME f # NULL, c + 1 = f + 2 PROVE FALSE
          <6>1. f \in S /\ c \in S /\ f \in Nat /\ c \in Nat
            BY <1>4, <1>8, <5>1
          <6>2. f < c /\ f + 4 <= c
            BY <5>1, <6>1 DEF Apart
          <6> QED BY <5>1, <6>1, <6>2
        <5> QED BY <5>1
      <4>8. z[c + 1] = Nth(F, j + 1)
        BY <1>15, <4>3, <4>4, <4>5, <4>6, <4>7
      <4>9. Nth(G, i + 1) = Nth(F, j + 1)
        BY <1>3, <2>2, <4>1, <4>2
      <4>10. CASE j = 1
        <5>1. c = f /\ f # NULL
          BY <1>3, <1>8, <4>1, <4>2, <4>4, <4>10
        <5>2. Nth(G, i - 1) = b
          BY <1>3, <2>1, <4>1, <4>10
        <5> QED BY <1>15, <4>2, <4>4, <4>8, <4>9, <5>1, <5>2
      <4>11. CASE j # 1
        <5>1. f # NULL => c # f
          BY <1>1, <1>2, <1>3, <1>8, <4>2, <4>4, <4>11 DEF Lists
        <5>2. f # NULL => c + 2 # f + 2
          BY <1>3, <1>4, <5>1
        <5>3. z[c + 2] = Nth(F, j - 1)
          BY <1>15, <4>3, <4>4, <4>5, <4>6, <5>2
        <5>4. j - 1 \in 0 .. (n + 1) /\ j - 1 # 0 /\ (j - 1) + 1 = i - 1
          BY <1>3, <4>1, <4>11
        <5>5. Nth(G, i - 1) = Nth(F, j - 1)
          BY <2>2, <5>4
        <5> QED BY <4>2, <4>4, <4>8, <4>9, <5>3, <5>5
      <4> QED BY <4>10, <4>11
    <3> QED BY <3>1, <3>2
  <2> QED BY <1>18, <2>1, <2>3 DEF Linked
<1>21. Chain(g, S \cup {b})
  BY <1>12, <1>14, <1>19, <1>20 DEF Chain
<1> QED BY <1>2, <1>12, <1>13, <1>14, <1>16, <1>21

\* The list without one of its blocks.
LeavesOut(G, F, S, k) ==
  /\ Lists(G, S \ {F[k]}) /\ Len(G) = Len(F) - 1
  /\ \A i \in 1 .. (k - 1) : G[i] = F[i]
  /\ \A i \in k .. (Len(F) - 1) : G[i] = F[i + 1]

LEMMA Without ==
  ASSUME NEW S, NEW F, Lists(F, S), NEW k \in 1 .. Len(F)
  PROVE  \E G : LeavesOut(G, F, S, k)
<1>1. PICK n, b : n = Len(F) /\ b = F[k]
  OBVIOUS
<1>2. n \in Nat /\ F \in Seq(S) /\ k \in 1 .. n /\ (\A i \in 1 .. n : F[i] \in S) /\ n >= 1
  BY <1>1 DEF Lists
<1>3. \A i, j \in 1 .. n : F[i] = F[j] => i = j
  BY <1>1 DEF Lists
<1>4. PICK G : G = [i \in 1 .. (n - 1) |-> IF i < k THEN F[i] ELSE F[i + 1]]
  OBVIOUS
<1>5. /\ \A i \in 1 .. (n - 1) : G[i] = IF i < k THEN F[i] ELSE F[i + 1]
      /\ DOMAIN G = 1 .. (n - 1)
  BY <1>4
<1>6. \A i \in 1 .. (n - 1) : G[i] \in S \ {b}
  <2> TAKE i \in 1 .. (n - 1)
  <2>1. i \in 1 .. n /\ i + 1 \in 1 .. n /\ (i < k => i # k) /\ (~ (i < k) => i + 1 # k)
    BY <1>2
  <2> QED BY <1>1, <1>2, <1>3, <1>5, <2>1
<1>7. G \in Seq(S \ {b}) /\ Len(G) = n - 1
  <2>1. G \in [1 .. (n - 1) -> S \ {b}] /\ n - 1 \in Nat
    BY <1>2, <1>4, <1>6
  <2> QED BY <2>1
<1>8. ASSUME NEW i \in 1 .. (n - 1), NEW j \in 1 .. (n - 1), G[i] = G[j] PROVE i = j
  <2>1. i \in 1 .. n /\ i + 1 \in 1 .. n /\ j \in 1 .. n /\ j + 1 \in 1 .. n
    BY <1>2
  <2>2. PICK x \in 1 .. n, y \in 1 .. n : /\ x = IF i < k THEN i ELSE i + 1
                                          /\ y = IF j < k THEN j ELSE j + 1
    BY <2>1
  <2>3. F[x] = F[y]
    BY <1>5, <1>8, <2>2
  <2>4. x = y
    BY <1>3, <2>3
  <2> QED BY <1>2, <2>2, <2>4
<1>9. ASSUME NEW c \in S \ {b} PROVE \E i \in 1 .. (n - 1) : G[i] = c
  <2>1. PICK i \in 1 .. n : F[i] = c
    BY <1>1 DEF Lists
  <2>2. i # k
    BY <1>1, <2>1
  <2>3. CASE i < k
    <3>1. i \in 1 .. (n - 1)
      BY <1>2, <2>3
    <3> QED BY <1>5, <2>1, <2>3, <3>1
  <2>4. CASE i > k
    <3>1. i - 1 \in 1 .. (n - 1) /\ ~ (i - 1 < k) /\ (i - 1) + 1 = i
      BY <1>2, <2>4
    <3>2. G[i - 1] = c
      BY <1>5, <2>1, <3>1
    <3> QED BY <3>1, <3>2
  <2> QED BY <1>2, <2>2, <2>3, <2>4
<1>10. Lists(G, S \ {b})
  BY <1>7, <1>8, <1>9 DEF Lists
<1>11. /\ \A i \in 1 .. (k - 1) : G[i] = F[i]
       /\ \A i \in k .. (n - 1) : G[i] = F[i + 1]
  <2>1. \A i \in 1 .. (k - 1) : i \in 1 .. (n - 1) /\ i < k
    BY <1>2
  <2>2. \A i \in k .. (n - 1) : i \in 1 .. (n - 1) /\ ~ (i < k)
    BY <1>2
  <2> QED BY <1>5, <2>1, <2>2
<1> QED BY <1>1, <1>7, <1>10, <1>11 DEF LeavesOut

\* remove_from_free_list in terms of words.
LEMMA RemoveIs ==
  ASSUME NEW h \in HeapType, NEW b \in Nat, b + 1 \in Address, b + 2 \in Address,
         NEW p, p = h.mem[b + 2], NEW n, n = h.mem[b + 1],
         p # NULL => p + 1 \in Address /\ p # b /\ p # b + 1,
         n # NULL => n + 2 \in Address /\ n # b, n + 1 # p \/ n = NULL \/ p = NULL,
         NEW g, g = remove_from_free_list(h, b)
  PROVE  /\ g \in HeapType /\ g.brk = h.brk
         /\ g.free_block_pointer = IF p # NULL THEN h.free_block_pointer ELSE n
         /\ p # NULL => g.mem[p + 1] = n
         /\ n # NULL => g.mem[n + 2] = p
         /\ \A a \in Address : /\ p = NULL \/ a # p + 1
                               /\ n = NULL \/ a # n + 2
                               => g.mem[a] = h.mem[a]
<1>1. p \in Nat /\ n \in Nat
  BY DEF HeapType
<1>2. PICK h1 : h1 = IF p # NULL THEN Store(h, p + 1, n) ELSE SetFree(h, n)
  OBVIOUS
<1>3. /\ h1 \in HeapType /\ h1.brk = h.brk
      /\ h1.free_block_pointer = IF p # NULL THEN h.free_block_pointer ELSE n
      /\ p # NULL => h1.mem[p + 1] = n
      /\ \A a \in Address : (p = NULL \/ a # p + 1) => h1.mem[a] = h.mem[a]
  <2>1. CASE p # NULL
    <3>1. Stored(h, h1, p + 1, n)
      BY <1>1, <1>2, <2>1, StoreIs
    <3> QED BY <2>1, <3>1 DEF Stored
  <2>2. CASE p = NULL
    BY <1>1, <1>2, <2>2, SetFreeIs
  <2> QED BY <2>1, <2>2
<1>4. h1.mem[b + 1] = n /\ h1.mem[b + 2] = p
  BY <1>1, <1>3
<1>5. g = IF n # NULL THEN Store(h1, n + 2, p) ELSE h1
  <2>1. h1 = IF prev_node(h, b) # NULL THEN Store(h, prev_node(h, b) + 1, next_node(h, b))
             ELSE [h EXCEPT !.free_block_pointer = next_node(h, b)]
    BY <1>2 DEF next_node, prev_node, SetFree
  <2>2. g = IF next_node(h1, b) # NULL THEN Store(h1, next_node(h1, b) + 2, prev_node(h1, b))
            ELSE h1
    BY <1>2, <2>1 DEF remove_from_free_list
  <2> QED BY <1>4, <2>2 DEF next_node, prev_node
<1>6. CASE n # NULL
  <2>1. Stored(h1, g, n + 2, p)
    BY <1>1, <1>3, <1>5, <1>6, StoreIs
  <2>2. p # NULL => p + 1 # n + 2
    BY <1>1, <1>6
  <2> QED BY <1>3, <1>6, <2>1, <2>2 DEF Stored
<1>7. CASE n = NULL
  BY <1>3, <1>5, <1>7
<1> QED BY <1>6, <1>7

LEMMA RemoveFromChain ==
  ASSUME NEW h \in HeapType, NEW S, NEW b \in S, Apart(S), Chain(h, S)
  PROVE  LET g == remove_from_free_list(h, b) IN
         /\ g \in HeapType /\ g.brk = h.brk
         /\ Chain(g, S \ {b})
         /\ Relinked(h.mem, g.mem, S)
<1>1. PICK F : Lists(F, S) /\ Linked(h.mem, h.free_block_pointer, F)
  BY DEF Chain
<1>2. PICK m, f, len : m = h.mem /\ f = h.free_block_pointer /\ len = Len(F)
  OBVIOUS
<1>3. /\ len \in Nat /\ \A i \in 1 .. len : F[i] \in S
      /\ \A i, j \in 1 .. len : F[i] = F[j] => i = j
  BY <1>1, <1>2 DEF Lists
<1>4. PICK k \in 1 .. len : F[k] = b
  BY <1>1, <1>2 DEF Lists
<1>5. \A c \in S : /\ c \in Nat /\ c >= 1 /\ c + 1 \in Address /\ c + 2 \in Address
  BY DEF Apart
<1>6. \A c, d \in S : c # d => c + 4 <= d \/ d + 4 <= c
  BY DEF Apart
<1>0. \A c, d \in S : c + 1 # d + 2 /\ (c # d => c + 1 # d + 1 /\ c + 2 # d + 2 /\ c # d + 1)
  <2> TAKE c \in S, d \in S
  <2>1. c \in Nat /\ d \in Nat
    BY <1>5
  <2>2. c # d => c + 4 <= d \/ d + 4 <= c
    BY <1>6
  <2> QED BY <2>1, <2>2
<1>7. PICK p, n : p = m[b + 2] /\ n = m[b + 1]
  OBVIOUS
<1>8. /\ \A i \in 1 .. len : m[F[i] + 1] = Nth(F, i + 1) /\ m[F[i] + 2] = Nth(F, i - 1)
      /\ f = Nth(F, 1)
  BY <1>1, <1>2 DEF Linked
<1>9. p = Nth(F, k - 1) /\ n = Nth(F, k + 1)
  BY <1>4, <1>7, <1>8
<1>10. /\ k = 1 => p = NULL
       /\ k > 1 => k - 1 \in 1 .. len /\ p = F[k - 1] /\ p \in S /\ p # NULL
       /\ k = len => n = NULL
       /\ k < len => k + 1 \in 1 .. len /\ n = F[k + 1] /\ n \in S /\ n # NULL
  <2>1. k = 1 => k - 1 \notin 1 .. len
    OBVIOUS
  <2>2. k > 1 => k - 1 \in 1 .. len
    BY <1>3
  <2>3. k = len => k + 1 \notin 1 .. len
    BY <1>3
  <2>4. k < len => k + 1 \in 1 .. len
    BY <1>3
  <2>5. k > 1 => p = F[k - 1] /\ p \in S /\ p # NULL
    BY <1>2, <1>3, <1>5, <1>9, <2>2 DEF Nth, NULL
  <2>6. k < len => n = F[k + 1] /\ n \in S /\ n # NULL
    BY <1>2, <1>3, <1>5, <1>9, <2>4 DEF Nth, NULL
  <2> QED BY <1>2, <1>9, <2>1, <2>2, <2>3, <2>4, <2>5, <2>6 DEF Nth
<1>11. /\ p # NULL => p \in S /\ p # b /\ (p + 4 <= b \/ b + 4 <= p)
       /\ n # NULL => n \in S /\ n # b /\ (n + 4 <= b \/ b + 4 <= n)
       /\ p # NULL /\ n # NULL => (p + 4 <= n \/ n + 4 <= p)
  <2>1. p # NULL => k > 1 /\ p \in S /\ p # b
    <3> SUFFICES ASSUME p # NULL PROVE k > 1 /\ p \in S /\ p # b
      OBVIOUS
    <3>1. k > 1
      BY <1>3, <1>4, <1>10
    <3>2. k - 1 # k /\ k - 1 \in 1 .. len
      BY <1>3, <1>10, <3>1
    <3> QED BY <1>3, <1>4, <1>10, <3>1, <3>2
  <2>2. n # NULL => k < len /\ n \in S /\ n # b
    <3> SUFFICES ASSUME n # NULL PROVE k < len /\ n \in S /\ n # b
      OBVIOUS
    <3>1. k < len
      BY <1>3, <1>4, <1>10
    <3>2. k + 1 # k /\ k + 1 \in 1 .. len
      BY <1>3, <1>10, <3>1
    <3> QED BY <1>3, <1>4, <1>10, <3>1, <3>2
  <2>3. p # NULL /\ n # NULL => p # n
    BY <1>3, <1>10, <2>1, <2>2
  <2> QED BY <1>6, <2>1, <2>2, <2>3
<1>12. PICK g : g = remove_from_free_list(h, b)
  OBVIOUS
<1>13. /\ g \in HeapType /\ g.brk = h.brk
       /\ g.free_block_pointer = IF p # NULL THEN f ELSE n
       /\ p # NULL => g.mem[p + 1] = n
       /\ n # NULL => g.mem[n + 2] = p
       /\ \A a \in Address : /\ p = NULL \/ a # p + 1
                             /\ n = NULL \/ a # n + 2
                             => g.mem[a] = m[a]
  <2>1. b \in Nat /\ b + 1 \in Address /\ b + 2 \in Address
    BY <1>5
  <2>2. /\ p # NULL => p + 1 \in Address /\ p # b /\ p # b + 1
        /\ n # NULL => n + 2 \in Address /\ n # b
        /\ n + 1 # p \/ n = NULL \/ p = NULL
    <3>1. p # NULL => p + 1 \in Address /\ p # b /\ p # b + 1
      BY <1>0, <1>5, <1>11
    <3>2. n # NULL => n + 2 \in Address /\ n # b
      BY <1>5, <1>11
    <3>3. n + 1 # p \/ n = NULL \/ p = NULL
      <4> SUFFICES ASSUME n # NULL, p # NULL PROVE n + 1 # p
        OBVIOUS
      <4>1. n \in S /\ p \in S /\ n # p
        <5>1. n \in S /\ p \in S /\ (p + 4 <= n \/ n + 4 <= p)
          BY <1>11
        <5> QED BY <1>5, <5>1
      <4> QED BY <1>0, <4>1
    <3> QED BY <3>1, <3>2, <3>3
  <2> QED BY <1>2, <1>7, <1>12, <2>1, <2>2, RemoveIs
<1>14. Relinked(m, g.mem, S)
  <2> SUFFICES ASSUME NEW a \in Address, a \notin LinkWords(S) PROVE g.mem[a] = m[a]
    BY DEF Relinked
  <2>1. \A x \in S : a # x + 1 /\ a # x + 2
    BY DEF LinkWords
  <2>2. p = NULL \/ a # p + 1
    BY <1>11, <2>1
  <2>3. n = NULL \/ a # n + 2
    BY <1>11, <2>1
  <2> QED BY <1>13, <2>2, <2>3
<1>15. PICK G : /\ Lists(G, S \ {b}) /\ Len(G) = len - 1
                /\ \A i \in 1 .. (k - 1) : G[i] = F[i]
                /\ \A i \in k .. (len - 1) : G[i] = F[i + 1]
  <2>1. Len(F) = len /\ k \in 1 .. Len(F)
    BY <1>2
  <2>2. PICK G : LeavesOut(G, F, S, k)
    BY <1>1, <2>1, Without
  <2> QED BY <1>4, <2>1, <2>2 DEF LeavesOut
<1>16. /\ \A i \in 0 .. (k - 1) : Nth(G, i) = Nth(F, i)
       /\ \A i \in k .. len : Nth(G, i) = Nth(F, i + 1)
  <2>1. ASSUME NEW i \in 0 .. (k - 1) PROVE Nth(G, i) = Nth(F, i)
    <3>1. CASE i = 0
      BY <1>2, <1>3, <1>15, <3>1 DEF Nth
    <3>2. CASE i # 0
      <4>1. i \in 1 .. (k - 1) /\ i \in 1 .. len /\ i \in 1 .. (len - 1)
        BY <1>3, <3>2
      <4> QED BY <1>2, <1>15, <4>1 DEF Nth
    <3> QED BY <3>1, <3>2
  <2>2. ASSUME NEW i \in k .. len PROVE Nth(G, i) = Nth(F, i + 1)
    <3>1. CASE i = len
      <4>1. i \notin 1 .. (len - 1) /\ i + 1 \notin 1 .. len
        BY <1>3, <3>1
      <4> QED BY <1>2, <1>15, <4>1 DEF Nth
    <3>2. CASE i # len
      <4>1. i \in k .. (len - 1) /\ i \in 1 .. (len - 1) /\ i + 1 \in 1 .. len
        BY <1>3, <3>2
      <4> QED BY <1>2, <1>15, <4>1 DEF Nth
    <3> QED BY <3>1, <3>2
  <2> QED BY <2>1, <2>2
<1>17. Linked(g.mem, g.free_block_pointer, G)
  <2>1. g.free_block_pointer = Nth(G, 1)
    <3>1. CASE k = 1
      <4>1. 1 \in k .. len /\ 1 + 1 = k + 1
        BY <1>3, <3>1
      <4>2. Nth(G, 1) = Nth(F, 1 + 1)
        BY <1>16, <4>1
      <4> QED BY <1>9, <1>10, <1>13, <3>1, <4>1, <4>2
    <3>2. CASE k # 1
      <4>1. 1 \in 0 .. (k - 1) /\ k > 1
        BY <1>3, <3>2
      <4> QED BY <1>8, <1>10, <1>13, <1>16, <4>1
    <3> QED BY <3>1, <3>2
  <2>2. ASSUME NEW i \in 1 .. (len - 1)
        PROVE  g.mem[G[i] + 1] = Nth(G, i + 1) /\ g.mem[G[i] + 2] = Nth(G, i - 1)
    <3>1. CASE i < k
      <4>1. PICK c : c = F[i]
        OBVIOUS
      <4>2. /\ i \in 1 .. (k - 1) /\ i \in 1 .. len /\ i - 1 \in 0 .. (k - 1) /\ G[i] = c /\ c \in S
            /\ i # k /\ c # b
        BY <1>3, <1>4, <1>15, <3>1, <4>1
      <4>3. m[c + 1] = Nth(F, i + 1) /\ m[c + 2] = Nth(F, i - 1)
        BY <1>8, <4>1, <4>2
      <4>4. c + 1 \in Address /\ c + 2 \in Address /\ c \in Nat
        BY <1>5, <4>2
      <4>5. p # NULL => c + 2 # p + 1
        BY <1>0, <1>11, <4>2
      <4>6. n # NULL => c + 1 # n + 2 /\ c # n
        <5> SUFFICES ASSUME n # NULL PROVE c + 1 # n + 2 /\ c # n
          OBVIOUS
        <5>1. k < len
          BY <1>3, <1>10
        <5>2. n = F[k + 1] /\ k + 1 \in 1 .. len /\ i # k + 1
          BY <1>10, <3>1, <5>1
        <5>3. c # n
          BY <1>3, <4>1, <4>2, <5>2
        <5> QED BY <1>0, <1>11, <4>2, <5>3
      <4>7. g.mem[c + 2] = Nth(G, i - 1)
        <5>1. n # NULL => c + 2 # n + 2
          BY <1>5, <1>11, <4>4, <4>6
        <5>2. g.mem[c + 2] = m[c + 2]
          BY <1>13, <4>4, <4>5, <5>1
        <5> QED BY <1>16, <4>2, <4>3, <5>2
      <4>8. g.mem[c + 1] = Nth(G, i + 1)
        <5>1. CASE i = k - 1
          <6>1. k > 1 /\ p = c /\ p # NULL
            BY <1>3, <1>10, <3>1, <4>1, <4>2, <5>1
          <6>2. k \in k .. len /\ i + 1 = k
            BY <1>3, <5>1
          <6>3. Nth(G, k) = Nth(F, k + 1)
            BY <1>16, <6>2
          <6> QED BY <1>9, <1>13, <6>1, <6>2, <6>3
        <5>2. CASE i # k - 1
          <6>1. i + 1 \in 0 .. (k - 1)
            BY <1>3, <3>1, <5>2
          <6>2. p # NULL => c # p
            BY <1>3, <1>4, <1>10, <4>1, <4>2, <5>2
          <6>3. p # NULL => c + 1 # p + 1
            BY <1>5, <1>11, <4>4, <6>2
          <6>4. g.mem[c + 1] = m[c + 1]
            BY <1>13, <4>4, <4>6, <6>3
          <6> QED BY <1>16, <4>3, <6>1, <6>4
        <5> QED BY <5>1, <5>2
      <4> QED BY <4>2, <4>7, <4>8
    <3>2. CASE ~ (i < k)
      <4>1. PICK c : c = F[i + 1]
        OBVIOUS
      <4>2. /\ i \in k .. (len - 1) /\ i + 1 \in 1 .. len /\ i + 1 \in k .. len /\ i + 1 # k
            /\ (i + 1) + 1 = i + 2 /\ (i + 1) - 1 = i
        BY <1>3, <3>2
      <4>3. G[i] = c /\ c \in S /\ c # b
        BY <1>3, <1>4, <1>15, <4>1, <4>2
      <4>4. m[c + 1] = Nth(F, i + 2) /\ m[c + 2] = Nth(F, i)
        BY <1>8, <4>1, <4>2
      <4>5. c + 1 \in Address /\ c + 2 \in Address /\ c \in Nat
        BY <1>5, <4>3
      <4>6. p # NULL => c # p
        <5> SUFFICES ASSUME p # NULL PROVE c # p
          OBVIOUS
        <5>1. k > 1
          BY <1>3, <1>4, <1>10
        <5>2. p = F[k - 1] /\ k - 1 \in 1 .. len /\ i + 1 # k - 1
          BY <1>10, <3>2, <5>1
        <5> QED BY <1>3, <4>1, <4>2, <5>2
      <4>7. p # NULL => c + 1 # p + 1 /\ c + 2 # p + 1
        BY <1>0, <1>11, <4>3, <4>6
      <4>8. n # NULL => c + 1 # n + 2
        BY <1>0, <1>11, <4>3
      <4>9. g.mem[c + 1] = Nth(G, i + 1)
        <5>1. g.mem[c + 1] = m[c + 1]
          BY <1>13, <4>5, <4>7, <4>8
        <5>2. Nth(G, i + 1) = Nth(F, i + 2)
          BY <1>16, <4>2
        <5> QED BY <4>4, <5>1, <5>2
      <4>10. g.mem[c + 2] = Nth(G, i - 1)
        <5>1. CASE i = k
          <6>1. n = c /\ n # NULL
            BY <1>3, <1>10, <4>1, <4>2, <5>1
          <6>2. i - 1 = k - 1 /\ k - 1 \in 0 .. (k - 1)
            BY <1>3, <5>1
          <6>3. Nth(G, k - 1) = Nth(F, k - 1)
            BY <1>16, <6>2
          <6> QED BY <1>9, <1>13, <6>1, <6>2, <6>3
        <5>2. CASE i # k
          <6>1. i - 1 \in k .. len /\ (i - 1) + 1 = i
            BY <1>3, <3>2, <4>2, <5>2
          <6>2. n # NULL => c # n
            <7> SUFFICES ASSUME n # NULL PROVE c # n
              OBVIOUS
            <7>1. k < len
              BY <1>3, <1>4, <1>10
            <7>2. n = F[k + 1] /\ k + 1 \in 1 .. len /\ i + 1 # k + 1
              BY <1>10, <5>2, <7>1
            <7> QED BY <1>3, <4>1, <4>2, <7>2
          <6>3. n # NULL => c + 2 # n + 2
            BY <1>5, <1>11, <4>5, <6>2
          <6>4. g.mem[c + 2] = m[c + 2]
            BY <1>13, <4>5, <4>7, <6>3
          <6>5. Nth(G, i - 1) = Nth(F, i)
            BY <1>16, <6>1
          <6> QED BY <4>4, <6>4, <6>5
        <5> QED BY <5>1, <5>2
      <4> QED BY <4>3, <4>9, <4>10
    <3> QED BY <3>1, <3>2
  <2> QED BY <1>15, <2>1, <2>2 DEF Linked
<1>18. Chain(g, S \ {b})
  BY <1>15, <1>17 DEF Chain
<1> QED BY <1>2, <1>12, <1>13, <1>14, <1>18

\* FreeBlock counts through the list.
LEMMA FreeBlockIs ==
  ASSUME NEW h, NEW S, NEW F, Lists(F, S), Linked(h.mem, h.free_block_pointer, F), Apart(S)
  PROVE  \A n \in Nat : FreeBlock(h)[n] = Nth(F, n + 1)
<1> DEFINE After(l, n) == IF n = 0 THEN h.free_block_pointer
                          ELSE IF l[n - 1] = NULL THEN NULL ELSE next_node(h, l[n - 1])
           Is(l) == l = [n \in Nat |-> After(l, n)]
           g == [n \in Nat |-> Nth(F, n + 1)]
<1>1. ASSUME NEW n \in Nat PROVE After(g, n) = Nth(F, n + 1)
  <2>1. CASE n = 0
    BY <2>1 DEF Linked
  <2>2. CASE n # 0
    <3>1. n - 1 \in Nat /\ g[n - 1] = Nth(F, n)
      BY <2>2
    <3>2. CASE n \in 1 .. Len(F)
      <4>1. F[n] \in S
        BY <3>2 DEF Lists
      <4>2. F[n] # NULL
        BY <4>1 DEF Apart, NULL
      <4>3. h.mem[F[n] + 1] = Nth(F, n + 1)
        BY <3>2 DEF Linked
      <4> QED BY <2>2, <3>1, <3>2, <4>2, <4>3 DEF Nth, next_node
    <3>3. CASE n \notin 1 .. Len(F)
      <4>1. n + 1 \notin 1 .. Len(F)
        <5>1. Len(F) \in Nat
          BY DEF Lists
        <5> QED BY <2>2, <3>3, <5>1
      <4> QED BY <2>2, <3>1, <3>3, <4>1 DEF Nth
    <3> QED BY <3>2, <3>3
  <2> QED BY <2>1, <2>2
<1>2. Is(g)
  BY <1>1
<1>3. FreeBlock(h) = CHOOSE l : Is(l)
  BY DEF FreeBlock
<1>4. PICK l : l = FreeBlock(h)
  OBVIOUS
<1>5. Is(l)
  <2> HIDE DEF Is
  <2> QED BY <1>2, <1>3, <1>4
<1>6. \A n \in Nat : l[n] = After(l, n)
  <2>1. \A n \in Nat : [k \in Nat |-> After(l, k)][n] = After(l, n)
    OBVIOUS
  <2> HIDE DEF After
  <2> QED BY <1>5, <2>1
<1> DEFINE Bad == {n \in Nat : l[n] # Nth(F, n + 1)}
<1>7. Bad = {}
  <2> SUFFICES ASSUME Bad # {} PROVE FALSE
    OBVIOUS
  <2>1. PICK n \in Bad : \A k \in Bad : n <= k
    <3>1. Bad \in SUBSET Nat
      OBVIOUS
    <3> HIDE DEF Bad
    <3> QED BY <3>1, NatMin
  <2>2. n \in Nat /\ l[n] # Nth(F, n + 1)
    BY <2>1
  <2>3. n # 0 => n - 1 \in Nat /\ n - 1 \notin Bad
    BY <2>1, <2>2
  <2>4. n # 0 => n - 1 \in Nat /\ l[n - 1] = g[n - 1]
    BY <2>2, <2>3
  <2>5. After(l, n) = After(g, n)
    BY <2>4
  <2> QED BY <1>1, <1>6, <2>2, <2>5
<1> QED BY <1>4, <1>7

\* There are no more blocks than the heap has room for.
LEMMA ListFits ==
  ASSUME NEW k, NEW B, NEW w, Layout(k, B, w), NEW S \in SUBSET B, NEW F, Lists(F, S)
  PROVE  Len(F) \in Nat /\ k \div 4 \in Nat /\ Len(F) <= k \div 4 /\ k \div 4 <= k
<1>1. k \in Nat /\ k >= 6
  BY InHeap DEF Layout
<1>2. PICK len, q : len = Len(F) /\ q = k \div 4
  OBVIOUS
<1>3. len \in Nat /\ q \in Nat /\ q >= 1 /\ q <= k
  BY <1>1, <1>2 DEF Lists
<1>4. \A i \in 1 .. len : F[i] \in B
  BY <1>2 DEF Lists
<1>5. \A b \in B : b \in Nat /\ b + 4 <= k - 1
  BY <1>1, InHeap DEF Layout
<1>6. \A b \in B : b \div 4 \in 0 .. (q - 1)
  <2> TAKE b \in B
  <2>1. b \in Nat /\ b + 4 <= k - 1
    BY <1>5
  <2> QED BY <1>1, <1>2, <2>1
<1>7. \A b, c \in B : b # c => b \div 4 # c \div 4
  <2> TAKE b \in B, c \in B
  <2>1. b \in Nat /\ c \in Nat /\ (b # c => b + 4 <= c \/ c + 4 <= b)
    BY BlocksApart, InHeap DEF Layout
  <2> QED BY <2>1
<1>8. PICK f : f = [i \in 1 .. len |-> F[i] \div 4]
  OBVIOUS
<1>9. f \in [1 .. len -> 0 .. (q - 1)]
  BY <1>4, <1>6, <1>8
<1>10. ASSUME q < len PROVE FALSE
  <2>1. IsFiniteSet(1 .. len) /\ Cardinality(1 .. len) = len
    BY <1>3, FS_Interval
  <2>2. IsFiniteSet(0 .. (q - 1)) /\ Cardinality(0 .. (q - 1)) = q
    BY <1>3, FS_Interval
  <2>3. PICK i \in 1 .. len, j \in 1 .. len : i # j /\ f[i] = f[j]
    BY <1>9, <1>10, <2>1, <2>2, FS_PigeonHole
  <2>4. F[i] = F[j]
    BY <1>4, <1>7, <1>8, <2>3
  <2> QED BY <1>2, <2>3, <2>4 DEF Lists
<1> QED BY <1>2, <1>3, <1>10

\* Blocks have room for their links.
LEMMA BlocksAreApart ==
  ASSUME NEW k, NEW B, NEW w, Layout(k, B, w), NEW S \in SUBSET B
  PROVE  Apart(S)
<1>1. \A b \in B : /\ b \in Nat /\ b >= 1 /\ b + w[b] < k /\ w[b] >= 4 /\ w[b] \in Nat
  BY InHeap DEF Layout
<1>2. \A b \in B : b >= 1 /\ b \in Address /\ b + 1 \in Address /\ b + 2 \in Address
  <2> TAKE b \in B
  <2>1. b < k /\ b + 1 < k /\ b + 2 < k /\ b + 1 \in Nat /\ b + 2 \in Nat /\ b \in Nat
    <3>1. k \in Nat
      BY DEF Layout
    <3> QED BY <1>1, <3>1
  <2> QED BY <1>1, <2>1, InHeap
<1>3. \A b, c \in B : b < c => b + 4 <= c
  BY <1>1 DEF Layout
<1> QED BY <1>1, <1>2, <1>3 DEF Apart

LEMMA SearchFinds ==
  ASSUME NEW h, NEW B, NEW w, Layout(h.brk, B, w), NEW S \in SUBSET B, Chain(h, S),
         NEW size
  PROVE  LET b == search(h, size) IN b = NULL \/ (b \in S /\ Size(h, b) >= size)
<1>1. PICK F : Lists(F, S) /\ Linked(h.mem, h.free_block_pointer, F)
  BY DEF Chain
<1>2. PICK l, k, len : l = FreeBlock(h) /\ k = h.brk /\ len = Len(F)
  OBVIOUS
<1>3. k \in Nat /\ len \in Nat /\ len <= k
  <2>1. k \in Nat
    BY <1>2 DEF Layout
  <2>2. Len(F) \in Nat /\ k \div 4 \in Nat /\ Len(F) <= k \div 4 /\ k \div 4 <= k
    BY <1>1, <1>2, ListFits
  <2> QED BY <1>2, <2>1, <2>2
<1>4. \A n \in Nat : l[n] = Nth(F, n + 1)
  <2>1. Apart(S)
    BY BlocksAreApart
  <2> QED BY <1>1, <1>2, <2>1, FreeBlockIs
<1> DEFINE Stop(n) == l[n] = NULL \/ Size(h, l[n]) >= size
           First(n) == Stop(n) /\ \A m \in 0 .. (n - 1) : ~ Stop(m)
           T == {n \in 0 .. k : Stop(n)}
<1>5. len \in T
  <2>1. len + 1 \notin 1 .. Len(F)
    BY <1>2, <1>3
  <2>2. l[len] = NULL
    BY <1>3, <1>4, <2>1 DEF Nth
  <2> QED BY <1>3, <2>2
<1>6. \E n \in 0 .. k : First(n)
  <2>1. PICK n \in T : \A m \in T : n <= m
    <3>1. T \in SUBSET Nat /\ T # {}
      BY <1>5
    <3> HIDE DEF T
    <3> QED BY <3>1, NatMin
  <2>2. n \in 0 .. k /\ Stop(n)
    BY <2>1
  <2>3. \A m \in 0 .. (n - 1) : ~ Stop(m)
    <3> TAKE m \in 0 .. (n - 1)
    <3>1. m \in 0 .. k /\ ~ (n <= m)
      BY <1>3, <2>2
    <3> HIDE DEF Stop
    <3> QED BY <2>1, <3>1
  <2> HIDE DEF Stop
  <2> QED BY <2>2, <2>3
<1>7. PICK n : n = CHOOSE m \in 0 .. k : First(m)
  OBVIOUS
<1>8. n \in 0 .. k /\ Stop(n)
  <2> HIDE DEF Stop
  <2>1. n \in 0 .. k /\ First(n)
    BY <1>6, <1>7
  <2> QED BY <2>1
<1>9. search(h, size) = l[n]
  BY <1>2, <1>7 DEF search
<1>10. l[n] = NULL \/ l[n] \in S
  <2>1. l[n] = Nth(F, n + 1)
    BY <1>3, <1>4, <1>8
  <2> QED BY <1>1, <2>1 DEF Nth, Lists
<1> QED BY <1>8, <1>9, <1>10

-----------------------------------------------------------------------------
(* How the tiling changes.                                                 *)

\* The place after a block belongs to it alone, and is not a footer.
LEMMA BlockEnds ==
  ASSUME NEW k, NEW B, NEW w, Layout(k, B, w)
  PROVE  /\ \A x, y \in B : x + w[x] = y + w[y] => x = y
         /\ \A x \in B : \A c \in B \cup {k - 1} : x + w[x] - 1 # c
         /\ \A x \in B : \A c \in B \cup {k - 1} : x < c => x + w[x] <= c
<1>1. /\ k \in Nat
      /\ \A x \in B : /\ x \in Nat /\ w[x] \in Nat /\ w[x] >= 4 /\ x + w[x] <= k - 1
  BY InHeap DEF Layout
<1>2. \A x, y \in B : x < y => x + w[x] <= y
  BY DEF Layout
<1>3. \A x, y \in B : x + w[x] = y + w[y] => x = y
  BY <1>1, <1>2
<1>4. \A x \in B : \A c \in B \cup {k - 1} : x < c => x + w[x] <= c
  BY <1>1, <1>2
<1>5. \A x \in B : \A c \in B \cup {k - 1} : x + w[x] - 1 # c
  <2> TAKE x \in B
  <2> TAKE c \in B \cup {k - 1}
  <2>1. c \in Nat
    BY <1>1, InHeap
  <2> QED BY <1>1, <1>4, <2>1
<1> QED BY <1>3, <1>4, <1>5

\* The last n words of block b become a block.
LEMMA SplitLayout ==
  ASSUME NEW k, NEW B, NEW w, Layout(k, B, w), NEW b \in B, NEW n \in Nat,
         Even(n), n >= 4, n + 4 <= w[b],
         NEW v \in [Nat -> Nat], v[b] = w[b] - n, v[b + v[b]] = n,
         \A x \in B \ {b} : v[x] = w[x]
  PROVE  /\ Layout(k, B \cup {b + v[b]}, v) /\ b + v[b] \notin B
         /\ b + v[b] \in Nat /\ b + v[b] + n = b + w[b]
<1>1. PICK d, e : d = b + v[b] /\ e = b + w[b]
  OBVIOUS
<1>2. /\ k \in Nat /\ Even(k) /\ B \in SUBSET Nat /\ 1 \in B
      /\ \A x \in B : /\ x \in Nat /\ w[x] \in Nat /\ w[x] >= 4 /\ x >= 1 /\ x + w[x] <= k - 1
                      /\ x + w[x] \in B \cup {k - 1} /\ Even(w[x]) /\ Even(x + 1)
      /\ \A x, y \in B : x < y => x + w[x] <= y
      /\ \A c \in B \cup {k - 1} : c = 1 \/ \E x \in B : x + w[x] = c
      /\ 8 * k <= MaxHeap
  BY InHeap DEF Layout
<1>3. /\ d \in Nat /\ e \in Nat /\ v[b] \in Nat /\ v[b] >= 4 /\ d + n = e /\ b < d /\ d < e
      /\ v[d] = n /\ b + v[b] = d /\ d >= 1 /\ b + 4 <= d
  BY <1>1, <1>2
<1>4. d \notin B
  BY <1>1, <1>2, <1>3
<1>5. Even(v[b]) /\ Even(d + 1)
  <2>1. Even(v[b])
    <3>1. w[b] \in Nat /\ n <= w[b] /\ Even(w[b]) /\ v[b] = w[b] - n
      BY <1>2
    <3> QED BY <3>1, EvenFacts
  <2>2. d + 1 = (b + 1) + v[b] /\ b + 1 \in Nat
    BY <1>1, <1>2, <1>3
  <2> QED BY <1>2, <1>3, <2>1, <2>2, EvenFacts
<1> DEFINE C == B \cup {d}
<1>6. \A x \in C : x = b \/ x = d \/ (x \in B /\ x # b /\ x # d /\ v[x] = w[x])
  BY <1>4
<1>7. \A x \in C : /\ x >= 1 /\ Even(x + 1) /\ v[x] >= 4 /\ Even(v[x])
                   /\ x + v[x] <= k - 1 /\ x + v[x] \in C \cup {k - 1}
  <2> TAKE x \in C
  <2>1. CASE x = b
    BY <1>2, <1>3, <1>5, <2>1, <1>1
  <2>2. CASE x = d
    BY <1>1, <1>2, <1>3, <1>5, <2>2
  <2>3. CASE x \in B /\ x # b /\ x # d /\ v[x] = w[x]
    BY <1>2, <2>3
  <2> QED BY <1>6, <2>1, <2>2, <2>3
<1>8. \A x, y \in C : x < y => x + v[x] <= y
  <2> SUFFICES ASSUME NEW x \in C, NEW y \in C, x < y PROVE x + v[x] <= y
    OBVIOUS
  <2>1. CASE x \in B /\ y \in B
    BY <1>2, <1>3, <2>1, <1>6
  <2>2. CASE x = d /\ y \in B
    <3>1. b < y
      BY <1>2, <1>3, <2>2
    <3> QED BY <1>1, <1>2, <1>3, <2>2, <3>1
  <2>3. CASE x \in B /\ y = d
    <3>1. CASE x = b
      BY <1>3, <2>3, <3>1
    <3>2. CASE x # b
      <4>1. x < e
        BY <1>2, <1>3, <2>3
      <4>2. ~ (b < x)
        BY <1>1, <1>2, <1>3, <4>1, <2>3
      <4>3. x + w[x] <= b
        BY <1>2, <2>3, <3>2, <4>2
      <4> QED BY <1>2, <1>3, <2>3, <3>2, <4>3
    <3> QED BY <3>1, <3>2
  <2> QED BY <1>2, <1>3, <2>1, <2>2, <2>3
<1>9. \A c \in C \cup {k - 1} : c = 1 \/ \E x \in C : x + v[x] = c
  <2> TAKE c \in C \cup {k - 1}
  <2>1. CASE c = d
    BY <1>3, <2>1
  <2>2. CASE c # d /\ c # 1
    <3>1. PICK x \in B : x + w[x] = c
      BY <1>2, <2>2
    <3>2. CASE x = b
      BY <1>1, <1>3, <3>1, <3>2
    <3>3. CASE x # b
      BY <3>1, <3>3
    <3> QED BY <3>2, <3>3
  <2> QED BY <2>1, <2>2
<1>10. C \in SUBSET Nat /\ 1 \in C
  BY <1>2, <1>3
<1>11. Layout(k, C, v)
  <2> HIDE DEF C
  <2> QED BY <1>2, <1>7, <1>8, <1>9, <1>10 DEF Layout
<1> QED BY <1>1, <1>3, <1>4, <1>11

\* The old epilogue becomes a block of n words.
LEMMA ExtendLayout ==
  ASSUME NEW k, NEW B, NEW w, Layout(k, B, w), NEW n \in Nat, Even(n), n >= 4,
         8 * (k + n) <= MaxHeap,
         NEW v \in [Nat -> Nat], v[k - 1] = n, \A x \in B : v[x] = w[x]
  PROVE  Layout(k + n, B \cup {k - 1}, v) /\ k - 1 \notin B
<1>1. PICK d : d = k - 1
  OBVIOUS
<1>2. /\ k \in Nat /\ Even(k) /\ B \in SUBSET Nat /\ 1 \in B
      /\ \A x \in B : /\ x \in Nat /\ w[x] \in Nat /\ w[x] >= 4 /\ x >= 1 /\ x + w[x] <= d
                      /\ x + w[x] \in B \cup {d} /\ Even(w[x]) /\ Even(x + 1)
      /\ \A x, y \in B : x < y => x + w[x] <= y
      /\ \A c \in B \cup {d} : c = 1 \/ \E x \in B : x + w[x] = c
  BY <1>1, InHeap DEF Layout
<1>3. d \in Nat /\ d >= 1 /\ d + 1 = k /\ v[d] = n /\ d + n = (k + n) - 1 /\ k + n \in Nat
  BY <1>1, <1>2, InHeap
<1>4. d \notin B
  BY <1>2, <1>3
<1>5. Even(k + n)
  BY <1>2, EvenFacts
<1> DEFINE C == B \cup {d}
<1>6. \A x \in C : /\ x >= 1 /\ Even(x + 1) /\ v[x] >= 4 /\ Even(v[x])
                   /\ x + v[x] <= (k + n) - 1 /\ x + v[x] \in C \cup {(k + n) - 1}
  <2> TAKE x \in C
  <2>1. CASE x = d
    BY <1>2, <1>3, <2>1
  <2>2. CASE x \in B
    BY <1>2, <1>3, <2>2
  <2> QED BY <2>1, <2>2
<1>7. \A x, y \in C : x < y => x + v[x] <= y
  BY <1>2, <1>3
<1>8. \A c \in C \cup {(k + n) - 1} : c = 1 \/ \E x \in C : x + v[x] = c
  BY <1>2, <1>3
<1>9. C \in SUBSET Nat /\ 1 \in C
  BY <1>2, <1>3
<1>10. Layout(k + n, C, v)
  <2> HIDE DEF C
  <2> QED BY <1>3, <1>5, <1>6, <1>7, <1>8, <1>9 DEF Layout
<1> QED BY <1>1, <1>4, <1>10

\* The blocks that remain if those from p up to e become one.
Join(B, p, e) == {x \in B : x <= p \/ e <= x}

LEMMA MergeLayout ==
  ASSUME NEW k, NEW B, NEW w, Layout(k, B, w), NEW p \in B, NEW e \in B \cup {k - 1}, p < e,
         NEW v \in [Nat -> Nat], v[p] = e - p,
         NEW C, C = Join(B, p, e), \A x \in C \ {p} : v[x] = w[x]
  PROVE  Layout(k, C, v)
<1>. C = {x \in B : x <= p \/ e <= x}
  BY DEF Join
<1>1. PICK d : d = k - 1
  OBVIOUS
<1>2. /\ k \in Nat /\ Even(k) /\ B \in SUBSET Nat /\ 1 \in B
      /\ \A x \in B : /\ x \in Nat /\ w[x] \in Nat /\ w[x] >= 4 /\ x >= 1 /\ x + w[x] <= d
                      /\ x + w[x] \in B \cup {d} /\ Even(w[x]) /\ Even(x + 1)
      /\ \A x, y \in B : x < y => x + w[x] <= y
      /\ \A c \in B \cup {d} : c = 1 \/ \E x \in B : x + w[x] = c
      /\ 8 * k <= MaxHeap /\ d \in Nat /\ d + 1 = k /\ d >= 1
  BY <1>1, InHeap DEF Layout
<1>3. e \in Nat /\ e <= d /\ p \in Nat /\ p + w[p] <= e /\ v[p] >= 4 /\ p + v[p] = e /\ v[p] \in Nat
  <2>1. e \in Nat /\ e <= d
    BY <1>1, <1>2
  <2>2. p + w[p] <= e
    BY <1>1, <1>2
  <2> QED BY <1>2, <2>1, <2>2
<1>4. Even(v[p])
  <2>1. Even(e + 1)
    BY <1>1, <1>2
  <2>2. v[p] = (e + 1) - (p + 1) /\ e + 1 \in Nat /\ p + 1 \in Nat /\ p + 1 <= e + 1
    BY <1>2, <1>3
  <2> QED BY <1>2, <2>1, <2>2, EvenFacts
<1>5. \A x \in C : x \in B /\ (x = p \/ v[x] = w[x])
  OBVIOUS
<1>6. p \in C /\ (e \in C \/ e = d) /\ d \notin B
  BY <1>1, <1>2, <1>3
<1>7. \A x \in C : x # p => (x + w[x] <= p \/ e <= x)
  <2> SUFFICES ASSUME NEW x \in C, x # p PROVE x + w[x] <= p \/ e <= x
    OBVIOUS
  <2> QED BY <1>2, <1>3
<1>8. \A x \in C : /\ x >= 1 /\ Even(x + 1) /\ v[x] >= 4 /\ Even(v[x])
                   /\ x + v[x] <= d /\ x + v[x] \in C \cup {d}
  <2> TAKE x \in C
  <2>1. CASE x = p
    BY <1>2, <1>3, <1>4, <1>6, <2>1
  <2>2. CASE x # p
    <3>1. x + w[x] <= p \/ e <= x + w[x]
      BY <1>2, <1>3, <1>5, <1>7, <2>2
    <3>2. x + w[x] \in C \cup {d}
      BY <1>2, <1>5, <3>1
    <3> QED BY <1>2, <1>5, <2>2, <3>2
  <2> QED BY <2>1, <2>2
<1>9. \A x, y \in C : x < y => x + v[x] <= y
  <2> SUFFICES ASSUME NEW x \in C, NEW y \in C, x < y PROVE x + v[x] <= y
    OBVIOUS
  <2>1. CASE x = p
    BY <1>2, <1>3, <1>5, <2>1
  <2>2. CASE x # p
    BY <1>2, <1>5, <2>2
  <2> QED BY <2>1, <2>2
<1>10. \A c \in C \cup {d} : c = 1 \/ \E x \in C : x + v[x] = c
  <2> SUFFICES ASSUME NEW c \in C \cup {d}, c # 1 PROVE \E x \in C : x + v[x] = c
    OBVIOUS
  <2>1. PICK x \in B : x + w[x] = c
    BY <1>2
  <2>2. c \in Nat /\ (c <= p \/ e <= c)
    BY <1>1, <1>2, <1>3
  <2>3. CASE x < p
    BY <1>2, <2>1, <2>3
  <2>4. CASE x >= e
    BY <1>2, <1>3, <2>1, <2>4
  <2>5. CASE p <= x /\ x < e
    <3>1. c <= e
      BY <1>1, <1>2, <1>3, <2>1, <2>5
    <3>2. c > p
      BY <1>2, <2>1, <2>5
    <3>3. c = e
      BY <1>2, <1>3, <2>2, <3>1, <3>2
    <3> QED BY <1>3, <1>6, <3>3
  <2> QED BY <1>2, <1>3, <2>3, <2>4, <2>5
<1>11. C \in SUBSET Nat /\ 1 \in C
  BY <1>2
<1> QED BY <1>1, <1>2, <1>8, <1>9, <1>10, <1>11 DEF Layout

-----------------------------------------------------------------------------
(* The boundary tags when memory changes.                                  *)

\* The words that hold headers, and the footers of free blocks.
TagWords(k, B, w, A) == (B \cup {k - 1}) \cup {b + w[b] - 1 : b \in B \ A}

LEMMA TagsSame ==
  ASSUME NEW k, NEW B, NEW w, NEW A, NEW m, NEW n, Layout(k, B, w), Tags(m, B, w, A),
         \A a \in TagWords(k, B, w, A) : n[a] = m[a]
  PROVE  Tags(n, B, w, A)
<1>1. \A b \in B : b \in TagWords(k, B, w, A) /\ b + w[b] \in TagWords(k, B, w, A)
  BY DEF TagWords, Layout
<1>2. \A b \in B \ A : b + w[b] - 1 \in TagWords(k, B, w, A)
  BY DEF TagWords
<1>3. 1 \in B
  BY DEF Layout
<1> QED BY <1>1, <1>2, <1>3 DEF Tags

\* No link is a tag.
LEMMA LinksAreNoTags ==
  ASSUME NEW k, NEW B, NEW w, NEW A, Layout(k, B, w), NEW S \in SUBSET B,
         NEW a \in TagWords(k, B, w, A)
  PROVE  a \notin LinkWords(S) /\ a \in Address /\ a \in Nat /\ a < k
<1>1. /\ k \in Nat /\ k - 1 \in Nat
      /\ \A x \in B : /\ x \in Nat /\ w[x] \in Nat /\ w[x] >= 4 /\ x >= 1 /\ x + w[x] <= k - 1
  BY InHeap DEF Layout
<1>2. \A x, c \in B : x < c => x + w[x] <= c
  BY DEF Layout
<1>3. a \in Nat /\ a < k
  BY <1>1 DEF TagWords
<1>4. a \in Address
  BY <1>3, InHeap
<1>5. ASSUME NEW x \in B PROVE a # x + 1 /\ a # x + 2
  <2>1. CASE a \in B
    BY <1>1, <1>2, <2>1
  <2>2. CASE a = k - 1
    BY <1>1, <2>2
  <2>3. ASSUME NEW y \in B, a = y + w[y] - 1 PROVE a # x + 1 /\ a # x + 2
    <3>1. x = y \/ x + w[x] <= y \/ y + w[y] <= x
      BY <1>1, <1>2
    <3> QED BY <1>1, <2>3, <3>1
  <2> QED BY <2>1, <2>2, <2>3 DEF TagWords
<1> QED BY <1>3, <1>4, <1>5 DEF LinkWords

LEMMA TagsRelinked ==
  ASSUME NEW k, NEW B, NEW w, NEW A, NEW m, NEW n, Layout(k, B, w), Tags(m, B, w, A),
         NEW S \in SUBSET B, Relinked(m, n, S)
  PROVE  Tags(n, B, w, A)
<1>1. \A a \in TagWords(k, B, w, A) : n[a] = m[a]
  BY LinksAreNoTags DEF Relinked
<1> QED BY <1>1, TagsSame

\* Block b changes sides: its header, the one after it and maybe its footer.
LEMMA TagsFlip ==
  ASSUME NEW k, NEW B, NEW w, NEW A, NEW m, NEW n, Layout(k, B, w), Tags(m, B, w, A),
         NEW b \in B, NEW D, D \ {b} = A \ {b}, NEW e, e = b + w[b],
         \A a \in TagWords(k, B, w, D) : a = b \/ a = e \/ a = e - 1 \/ n[a] = m[a],
         SizeIn(n[b]) = SizeIn(m[b]), Bit1(n[b]) <=> Bit1(m[b]), Bit0(n[b]) <=> b \in D,
         SizeIn(n[e]) = SizeIn(m[e]), Bit0(n[e]) <=> Bit0(m[e]), Bit1(n[e]) <=> b \in D,
         b \in D \/ n[e - 1] = 8 * w[b]
  PROVE  Tags(n, B, w, D)
<1>1. \A x \in B : x # b => (x \in D <=> x \in A)
  OBVIOUS
<1>2. /\ \A x, y \in B : x + w[x] = y + w[y] => x = y
      /\ \A x \in B : \A c \in B \cup {k - 1} : x + w[x] - 1 # c
  BY BlockEnds
<1>3. \A x \in B : x + w[x] \in B \cup {k - 1}
  BY DEF Layout
<1>4. /\ k \in Nat /\ k - 1 \in Nat /\ 1 \in B
      /\ \A x \in B : /\ x \in Nat /\ w[x] \in Nat /\ w[x] >= 4 /\ x >= 1 /\ x + w[x] <= k - 1
  BY InHeap DEF Layout
<1>5. \A c \in B \cup {k - 1} : c = b \/ c = e \/ n[c] = m[c]
  <2> TAKE c \in B \cup {k - 1}
  <2>1. c \in TagWords(k, B, w, D)
    BY DEF TagWords
  <2>2. b + w[b] - 1 # c
    BY <1>2
  <2>3. c # e - 1
    BY <1>4, <2>2
  <2> QED BY <2>1, <2>3
<1>6. \A c \in B \cup {k - 1} : SizeIn(n[c]) = SizeIn(m[c])
  BY <1>5
<1>7. /\ \A x \in B : SizeIn(m[x]) = 8 * w[x] /\ (Bit0(m[x]) <=> x \in A)
                      /\ (Bit1(m[x + w[x]]) <=> x \in A)
      /\ Bit1(m[1])
      /\ \A x \in B \ A : m[x + w[x] - 1] = 8 * w[x]
  BY DEF Tags
<1>8. \A x \in B : SizeIn(n[x]) = 8 * w[x]
  BY <1>6, <1>7
<1>9. b # e
  BY <1>4
<1>10. \A x \in B : Bit0(n[x]) <=> x \in D
  <2> TAKE x \in B
  <2>1. CASE x = b
    BY <2>1
  <2>2. CASE x = e
    BY <1>1, <1>7, <1>9, <2>2
  <2>3. CASE x # b /\ x # e
    BY <1>1, <1>5, <1>7, <2>3
  <2> QED BY <2>1, <2>2, <2>3
<1>11. \A x \in B : Bit1(n[x + w[x]]) <=> x \in D
  <2> TAKE x \in B
  <2>1. CASE x = b
    BY <2>1
  <2>2. CASE x # b
    <3>1. x + w[x] # e
      BY <1>2, <2>2
    <3>2. CASE x + w[x] = b
      BY <1>1, <1>7, <2>2, <3>2
    <3>3. CASE x + w[x] # b
      BY <1>1, <1>3, <1>5, <1>7, <2>2, <3>1, <3>3
    <3> QED BY <3>2, <3>3
  <2> QED BY <2>1, <2>2
<1>12. Bit1(n[1])
  <2>1. 1 # e
    BY <1>4
  <2> QED BY <1>4, <1>5, <1>7, <2>1
<1>13. \A x \in B \ D : n[x + w[x] - 1] = 8 * w[x]
  <2> TAKE x \in B \ D
  <2>1. CASE x = b
    BY <1>4, <2>1
  <2>2. CASE x # b
    <3>1. x + w[x] - 1 \in TagWords(k, B, w, D)
      BY DEF TagWords
    <3>2. x + w[x] - 1 # b /\ x + w[x] - 1 # e
      BY <1>2, <1>3
    <3>3. x + w[x] - 1 # e - 1
      BY <1>2, <1>4, <2>2
    <3>4. n[x + w[x] - 1] = m[x + w[x] - 1]
      BY <3>1, <3>2, <3>3
    <3> QED BY <1>1, <1>7, <2>2, <3>4
  <2> QED BY <2>1, <2>2
<1> QED BY <1>8, <1>10, <1>11, <1>12, <1>13 DEF Tags

\* Where block b is and what its header says.
BlockIs(h, w, b) ==
  /\ b \in Nat /\ w[b] \in Nat /\ w[b] >= 4 /\ b >= 1 /\ b + w[b] \in Nat
  /\ b + w[b] - 1 \in Nat
  /\ b \in Address /\ b + w[b] \in Address /\ b + w[b] - 1 \in Address
  /\ Header(h, b) = h.mem[b] /\ h.mem[b] \in Nat /\ h.mem[b + w[b]] \in Nat
  /\ Size(h, b) = 8 * w[b] /\ NextBlock(h, b) = b + w[b]

LEMMA TagValues ==
  ASSUME NEW h \in HeapType, NEW B, NEW w, NEW A, Layout(h.brk, B, w), Tags(h.mem, B, w, A),
         NEW b \in B
  PROVE  BlockIs(h, w, b)
<1>1. /\ b \in Nat /\ w[b] \in Nat /\ w[b] >= 4 /\ b >= 1 /\ b + w[b] \in Nat
      /\ b + w[b] - 1 \in Nat /\ b < h.brk /\ b + w[b] < h.brk /\ h.brk \in Nat
  BY InHeap DEF Layout
<1>2. b + w[b] - 1 < h.brk
  BY <1>1
<1>3. b \in Address /\ b + w[b] \in Address /\ b + w[b] - 1 \in Address
  BY <1>1, <1>2, InHeap
<1>4. h.mem[b] \in Nat /\ h.mem[b + w[b]] \in Nat
  BY <1>3 DEF HeapType
<1>5. SizeIn(h.mem[b]) = 8 * w[b]
  BY DEF Tags
<1>6. (8 * w[b]) \div 8 = w[b]
  BY <1>1
<1> QED BY <1>1, <1>3, <1>4, <1>5, <1>6 DEF BlockIs, Header, Size, NextBlock

\* Memory changed only in tags.
Retagged(m, n, T) == \A a \in Address : a \notin T => n[a] = m[a]

\* The words of the blocks of S, but for their headers, are as before.
Kept(m, n, w, S) == \A b \in S : \A a \in (b + 1) .. (b + w[b] - 1) : n[a] = m[a]

LEMMA PayloadApart ==
  ASSUME NEW k, NEW B, NEW w, NEW A \in SUBSET B, Layout(k, B, w), NEW b \in A,
         NEW a \in (b + 1) .. (b + w[b] - 1)
  PROVE  a \in Address /\ a \notin TagWords(k, B, w, A) /\ a \notin LinkWords(B \ A)
<1>1. /\ k \in Nat /\ k - 1 \in Nat
      /\ \A x \in B : /\ x \in Nat /\ w[x] \in Nat /\ w[x] >= 4 /\ x >= 1 /\ x + w[x] <= k - 1
  BY InHeap DEF Layout
<1>2. \A x \in B : x = b \/ x + w[x] <= b \/ b + w[b] <= x
  BY BlocksApart
<1>3. b \in B /\ b \in Nat /\ w[b] \in Nat /\ a \in Nat /\ b < a /\ a < b + w[b] /\ a < k
  BY <1>1
<1>4. a \in Address
  BY <1>3, InHeap
<1>5. a \notin B \cup {k - 1}
  BY <1>1, <1>2, <1>3
<1>6. ASSUME NEW x \in B \ A PROVE a # x + w[x] - 1 /\ a # x + 1 /\ a # x + 2
  <2>1. x # b /\ x \in B
    OBVIOUS
  <2>2. x + w[x] <= b \/ b + w[b] <= x
    BY <1>2, <2>1
  <2> QED BY <1>1, <1>3, <2>1, <2>2
<1> QED BY <1>4, <1>5, <1>6 DEF TagWords, LinkWords

LEMMA RetaggedKeeps ==
  ASSUME NEW k, NEW B, NEW w, NEW A \in SUBSET B, Layout(k, B, w), NEW m, NEW n,
         Retagged(m, n, TagWords(k, B, w, A))
  PROVE  Kept(m, n, w, A) /\ \A S \in SUBSET B : \A a \in LinkWords(S) : n[a] = m[a]
<1>1. Kept(m, n, w, A)
  BY PayloadApart DEF Kept, Retagged
<1>2. ASSUME NEW S \in SUBSET B, NEW a \in LinkWords(S) PROVE n[a] = m[a]
  <2>1. a \notin TagWords(k, B, w, A)
    BY LinksAreNoTags
  <2>2. a \in Address
    BY BlocksAreApart DEF Apart, LinkWords
  <2> QED BY <2>1, <2>2 DEF Retagged
<1> QED BY <1>1, <1>2

LEMMA RelinkedKeeps ==
  ASSUME NEW k, NEW B, NEW w, NEW A \in SUBSET B, Layout(k, B, w), NEW m, NEW n,
         Relinked(m, n, B \ A)
  PROVE  Kept(m, n, w, A)
BY PayloadApart DEF Kept, Relinked

LEMMA KeptAgain ==
  ASSUME NEW m, NEW n, NEW o, NEW w, NEW S, Kept(m, n, w, S), Kept(n, o, w, S)
  PROVE  Kept(m, o, w, S)
BY DEF Kept

\* The last words of the free block b become the allocated block d.
SplitAt(k, B, w, b, C, v, d, e) ==
  /\ C = B \cup {d} /\ Layout(k, C, v) /\ d \notin B
  /\ d = b + v[b] /\ e = b + w[b] /\ d + v[d] = e /\ \A x \in B \ {b} : v[x] = w[x]

SplitWords(k, C, v, D, m, z, b, d, e) ==
  /\ \A a \in TagWords(k, C, v, D) : a = b \/ a = d \/ a = e \/ a = d - 1 \/ z[a] = m[a]
  /\ SizeIn(z[b]) = 8 * v[b] /\ ~ Bit0(z[b]) /\ (Bit1(z[b]) <=> Bit1(m[b])) /\ z[d - 1] = 8 * v[b]
  /\ SizeIn(z[d]) = 8 * v[d] /\ Bit0(z[d]) /\ ~ Bit1(z[d])
  /\ SizeIn(z[e]) = SizeIn(m[e]) /\ (Bit0(z[e]) <=> Bit0(m[e])) /\ Bit1(z[e])

LEMMA SplitTags ==
  ASSUME NEW k, NEW B, NEW w, NEW A \in SUBSET B, NEW m, NEW z,
         Layout(k, B, w), Tags(m, B, w, A), NEW b \in B \ A,
         NEW v, NEW d, NEW e, NEW C, SplitAt(k, B, w, b, C, v, d, e),
         SplitWords(k, C, v, A \cup {d}, m, z, b, d, e)
  PROVE  Tags(z, C, v, A \cup {d})
<1>. /\ C = B \cup {d} /\ Layout(k, C, v) /\ d \notin B
     /\ d = b + v[b] /\ e = b + w[b] /\ d + v[d] = e /\ \A x \in B \ {b} : v[x] = w[x]
  BY DEF SplitAt
<1>. /\ \A a \in TagWords(k, C, v, A \cup {d}) :
           a = b \/ a = d \/ a = e \/ a = d - 1 \/ z[a] = m[a]
     /\ SizeIn(z[b]) = 8 * v[b] /\ ~ Bit0(z[b]) /\ (Bit1(z[b]) <=> Bit1(m[b])) /\ z[d - 1] = 8 * v[b]
     /\ SizeIn(z[d]) = 8 * v[d] /\ Bit0(z[d]) /\ ~ Bit1(z[d])
     /\ SizeIn(z[e]) = SizeIn(m[e]) /\ (Bit0(z[e]) <=> Bit0(m[e])) /\ Bit1(z[e])
  BY DEF SplitWords
<1>1. PICK D : D = A \cup {d}
  OBVIOUS
<1>2. /\ \A x, y \in C : x + v[x] = y + v[y] => x = y
      /\ \A x \in C : \A c \in C \cup {k - 1} : x + v[x] - 1 # c
  <2>1. Layout(k, C, v)
    OBVIOUS
  <2>2. ASSUME NEW E, Layout(k, E, v)
        PROVE  /\ \A x, y \in E : x + v[x] = y + v[y] => x = y
               /\ \A x \in E : \A c \in E \cup {k - 1} : x + v[x] - 1 # c
    BY <2>2, BlockEnds
  <2> QED BY <2>1, <2>2
<1>3. \A x \in B : x + w[x] \in B \cup {k - 1}
  BY DEF Layout
<1>4. /\ k \in Nat /\ k - 1 \in Nat /\ 1 \in B
      /\ \A x \in C : /\ x \in Nat /\ v[x] \in Nat /\ v[x] >= 4 /\ x >= 1 /\ x + v[x] <= k - 1
  BY InHeap DEF Layout
<1>5. b \in C /\ d \in C /\ b # d /\ b # e /\ d # e /\ e \in B \cup {k - 1} /\ b \notin D /\ d \in D
  BY <1>1, <1>3, <1>4
<1>6. \A c \in B \cup {k - 1} : c = b \/ c = e \/ z[c] = m[c]
  <2> TAKE c \in B \cup {k - 1}
  <2>1. c \in TagWords(k, C, v, A \cup {d})
    BY DEF TagWords
  <2>2. b + v[b] - 1 # c
    BY <1>2, <1>5
  <2>3. c # d - 1
    BY <1>4, <1>5, <2>2
  <2>4. CASE c = d
    <3>1. d = k - 1
      BY <2>4
    <3>2. d + v[d] <= k - 1 /\ v[d] >= 4 /\ v[d] \in Nat /\ d \in Nat
      BY <1>4, <1>5
    <3> QED BY <1>4, <3>1, <3>2
  <2> QED BY <2>1, <2>3, <2>4
<1>7. /\ \A x \in B : SizeIn(m[x]) = 8 * w[x] /\ (Bit0(m[x]) <=> x \in A)
                      /\ (Bit1(m[x + w[x]]) <=> x \in A)
      /\ Bit1(m[1])
      /\ \A x \in B \ A : m[x + w[x] - 1] = 8 * w[x]
  BY DEF Tags
<1>8. \A x \in C : x = b \/ x = d \/ (x \in B /\ x # b /\ x # d /\ v[x] = w[x])
  OBVIOUS
<1>9. \A x \in C : SizeIn(z[x]) = 8 * v[x]
  <2> TAKE x \in C
  <2>1. CASE x = b \/ x = d
    BY <2>1
  <2>2. CASE x \in B /\ x # b /\ x # d /\ v[x] = w[x]
    <3>1. SizeIn(m[x]) = 8 * w[x] /\ SizeIn(z[x]) = SizeIn(m[x])
      BY <1>6, <1>7, <2>2
    <3> QED BY <2>2, <3>1
  <2> QED BY <1>8, <2>1, <2>2
<1>10. \A x \in C : Bit0(z[x]) <=> x \in D
  <2> TAKE x \in C
  <2>1. CASE x = b \/ x = d
    BY <1>5, <2>1
  <2>2. CASE x \in B /\ x # b /\ x # d
    <3>1. (Bit0(m[x]) <=> x \in A) /\ (Bit0(z[x]) <=> Bit0(m[x]))
      BY <1>6, <1>7, <2>2
    <3> QED BY <1>1, <2>2, <3>1
  <2> QED BY <1>8, <2>1, <2>2
<1>11. \A x \in C : Bit1(z[x + v[x]]) <=> x \in D
  <2> TAKE x \in C
  <2>1. CASE x = b \/ x = d
    BY <1>5, <2>1
  <2>2. CASE x \in B /\ x # b /\ x # d /\ v[x] = w[x]
    <3>1. x + w[x] # e
      BY <1>2, <1>5, <2>2
    <3>2. Bit1(m[x + w[x]]) <=> x \in A
      BY <1>7, <2>2
    <3>3. Bit1(z[x + w[x]]) <=> Bit1(m[x + w[x]])
      BY <1>3, <1>6, <2>2, <3>1
    <3> QED BY <1>1, <2>2, <3>2, <3>3
  <2> QED BY <1>8, <2>1, <2>2
<1>12. Bit1(z[1])
  <2>1. 1 # e
    BY <1>4, <1>5
  <2>2. 1 \in B \cup {k - 1}
    BY <1>4
  <2> QED BY <1>6, <1>7, <2>1, <2>2
<1>13. \A x \in C \ D : z[x + v[x] - 1] = 8 * v[x]
  <2> TAKE x \in C \ D
  <2>1. CASE x = b
    BY <1>4, <1>5, <2>1
  <2>2. CASE x \in B /\ x # b /\ x # d /\ v[x] = w[x]
    <3>1. x + v[x] - 1 \in TagWords(k, C, v, A \cup {d})
      BY <1>1 DEF TagWords
    <3>2. x + v[x] - 1 # b /\ x + v[x] - 1 # e /\ x + v[x] - 1 # d
      BY <1>2, <1>5
    <3>3. x + v[x] # b + v[b]
      BY <1>2, <1>5, <2>2
    <3>4. x + v[x] - 1 # d - 1
      BY <1>4, <1>5, <3>3
    <3>5. z[x + v[x] - 1] = m[x + v[x] - 1]
      BY <3>1, <3>2, <3>4
    <3>6. x \in B \ A
      BY <1>1, <2>2
    <3>7. m[x + w[x] - 1] = 8 * w[x]
      BY <1>7, <3>6
    <3> QED BY <2>2, <3>5, <3>7
  <2> QED BY <1>5, <1>1, <1>8, <2>1, <2>2
<1> QED BY <1>1, <1>9, <1>10, <1>11, <1>12, <1>13 DEF Tags

\* The old epilogue becomes the header of a block.
LEMMA ExtendTags ==
  ASSUME NEW k, NEW B, NEW w, NEW A \in SUBSET B, NEW m, NEW z,
         Layout(k, B, w), Tags(m, B, w, A),
         NEW d, d = k - 1, NEW j, NEW C, C = B \cup {d}, NEW v, Layout(j, C, v),
         d + v[d] = j - 1, \A x \in B : v[x] = w[x],
         \A a \in TagWords(k, B, w, A) : a = d \/ z[a] = m[a],
         SizeIn(z[d]) = 8 * v[d], Bit0(z[d]), Bit1(z[d]) <=> Bit1(m[d]), Bit1(z[j - 1])
  PROVE  Tags(z, C, v, A \cup {d})
<1>1. PICK D : D = A \cup {d}
  OBVIOUS
<1>2. /\ k \in Nat /\ d \in Nat /\ 1 \in B
      /\ \A x \in B : /\ x \in Nat /\ w[x] \in Nat /\ w[x] >= 4 /\ x >= 1 /\ x + w[x] <= d
                      /\ x + w[x] \in B \cup {d}
  BY InHeap DEF Layout
<1>3. d \notin B
  BY <1>2
<1>4. /\ \A x \in B : SizeIn(m[x]) = 8 * w[x] /\ (Bit0(m[x]) <=> x \in A)
                      /\ (Bit1(m[x + w[x]]) <=> x \in A)
      /\ Bit1(m[1])
      /\ \A x \in B \ A : m[x + w[x] - 1] = 8 * w[x]
  BY DEF Tags
<1>5. \A x \in B : z[x] = m[x]
  <2> TAKE x \in B
  <2>1. x \in TagWords(k, B, w, A)
    BY DEF TagWords
  <2> QED BY <1>3, <2>1
<1>6. \A x \in B : Bit1(z[x + w[x]]) <=> Bit1(m[x + w[x]])
  BY <1>2, <1>5
<1>7. \A x \in C : SizeIn(z[x]) = 8 * v[x] /\ (Bit0(z[x]) <=> x \in D)
                   /\ (Bit1(z[x + v[x]]) <=> x \in D)
  <2> TAKE x \in C
  <2>1. CASE x = d
    BY <1>1, <2>1
  <2>2. CASE x \in B
    <3>1. v[x] = w[x] /\ z[x] = m[x] /\ (x \in D <=> x \in A)
      BY <1>1, <1>3, <1>5, <2>2
    <3> QED BY <1>4, <1>6, <2>2, <3>1
  <2> QED BY <2>1, <2>2
<1>8. \A x \in C \ D : z[x + v[x] - 1] = 8 * v[x]
  <2> TAKE x \in C \ D
  <2>1. x \in B \ A /\ v[x] = w[x]
    BY <1>1
  <2>2. x + w[x] - 1 \in TagWords(k, B, w, A) /\ x + w[x] - 1 # d
    <3>1. x + w[x] - 1 \in TagWords(k, B, w, A)
      BY <2>1 DEF TagWords
    <3> QED BY <1>2, <2>1, <3>1
  <2> QED BY <1>4, <2>1, <2>2
<1> QED BY <1>1, <1>2, <1>4, <1>5, <1>7, <1>8 DEF Tags

\* The free blocks from p up to e become one.
LEMMA MergeTags ==
  ASSUME NEW k, NEW B, NEW w, NEW A \in SUBSET B, NEW m, NEW z,
         Layout(k, B, w), Tags(m, B, w, A), NEW p \in B, NEW e \in B \cup {k - 1}, p < e,
         \A x \in B : p <= x /\ x < e => x \notin A,
         NEW C, C = Join(B, p, e), NEW v, Layout(k, C, v),
         p + v[p] = e, \A x \in C \ {p} : v[x] = w[x],
         \A a \in TagWords(k, C, v, A) : a = p \/ a = e - 1 \/ z[a] = m[a],
         Bit1(m[p]), SizeIn(z[p]) = 8 * v[p], ~ Bit0(z[p]), Bit1(z[p]), z[e - 1] = 8 * v[p]
  PROVE  Tags(z, C, v, A) /\ A \in SUBSET C
<1>. C = {x \in B : x <= p \/ e <= x}
  BY DEF Join
<1>1. /\ \A x, y \in C : x + v[x] = y + v[y] => x = y
      /\ \A x \in C : \A c \in C \cup {k - 1} : x + v[x] - 1 # c
  BY BlockEnds
<1>2. /\ k \in Nat /\ k - 1 \in Nat /\ 1 \in C
      /\ \A x \in C : /\ x \in Nat /\ v[x] \in Nat /\ v[x] >= 4 /\ x >= 1 /\ x + v[x] <= k - 1
                      /\ x + v[x] \in C \cup {k - 1}
      /\ \A x \in B : x \in Nat /\ w[x] \in Nat
  <2>1. k \in Nat /\ k - 1 \in Nat /\ 1 \in C
    BY InHeap DEF Layout
  <2>2. \A x \in C : /\ x \in Nat /\ v[x] \in Nat /\ v[x] >= 4 /\ x >= 1 /\ x + v[x] <= k - 1
                     /\ x + v[x] \in C \cup {k - 1}
    <3>1. \A x \in C : x \in Nat /\ v[x] \in Nat
      BY InHeap
    <3> QED BY <3>1 DEF Layout
  <2>3. \A x \in B : x \in Nat /\ w[x] \in Nat
    BY InHeap
  <2> QED BY <2>1, <2>2, <2>3
<1>3. p \in C /\ p \in Nat /\ e \in Nat /\ p \notin A /\ e \in C \cup {k - 1}
  BY <1>2
<1>4. A \in SUBSET C
  BY <1>2, <1>3
<1>5. /\ \A x \in B : SizeIn(m[x]) = 8 * w[x] /\ (Bit0(m[x]) <=> x \in A)
                      /\ (Bit1(m[x + w[x]]) <=> x \in A)
      /\ Bit1(m[1])
      /\ \A x \in B \ A : m[x + w[x] - 1] = 8 * w[x]
  BY DEF Tags
<1>6. \A c \in C \cup {k - 1} : c = p \/ z[c] = m[c]
  <2> TAKE c \in C \cup {k - 1}
  <2>1. c \in TagWords(k, C, v, A)
    BY DEF TagWords
  <2>2. p + v[p] - 1 # c
    BY <1>1, <1>3
  <2>3. c # e - 1
    BY <1>2, <1>3, <2>2
  <2> QED BY <2>1, <2>3
<1>7. ~ Bit1(m[e])
  <2>1. e # 1
    BY <1>2, <1>3
  <2>2. PICK y \in B : y + w[y] = e
    BY <2>1 DEF Layout
  <2>3. w[y] >= 4
    BY DEF Layout
  <2>4. ~ (y < p)
    <3>1. y < p => y + w[y] <= p
      BY DEF Layout
    <3> QED BY <1>2, <1>3, <2>2, <3>1
  <2>5. y \notin A
    BY <1>2, <1>3, <2>2, <2>3, <2>4
  <2> QED BY <1>5, <2>2, <2>5
<1>8. \A x \in C : x = p \/ (x \in B /\ x # p /\ v[x] = w[x])
  OBVIOUS
<1>9. \A x \in C : SizeIn(z[x]) = 8 * v[x] /\ (Bit0(z[x]) <=> x \in A)
  <2> TAKE x \in C
  <2>1. CASE x = p
    BY <1>3, <2>1
  <2>2. CASE x \in B /\ x # p /\ v[x] = w[x]
    <3>1. z[x] = m[x]
      BY <1>6, <2>2
    <3> QED BY <1>5, <2>2, <3>1
  <2> QED BY <1>8, <2>1, <2>2
<1>10. \A x \in C : Bit1(z[x + v[x]]) <=> x \in A
  <2> TAKE x \in C
  <2>1. CASE x = p
    <3>1. z[e] = m[e]
      BY <1>3, <1>6
    <3> QED BY <1>3, <1>7, <2>1, <3>1
  <2>2. CASE x \in B /\ x # p /\ v[x] = w[x]
    <3>1. Bit1(m[x + w[x]]) <=> x \in A
      BY <1>5, <2>2
    <3>2. CASE x + w[x] = p
      BY <2>2, <3>1, <3>2
    <3>3. CASE x + w[x] # p
      <4>1. z[x + w[x]] = m[x + w[x]]
        BY <1>2, <1>6, <2>2, <3>3
      <4> QED BY <2>2, <3>1, <4>1
    <3> QED BY <3>2, <3>3
  <2> QED BY <1>8, <2>1, <2>2
<1>11. Bit1(z[1])
  BY <1>2, <1>5, <1>6
<1>12. \A x \in C \ A : z[x + v[x] - 1] = 8 * v[x]
  <2> TAKE x \in C \ A
  <2>1. CASE x = p
    BY <1>2, <1>3, <2>1
  <2>2. CASE x \in B /\ x # p /\ v[x] = w[x]
    <3>1. x + v[x] - 1 \in TagWords(k, C, v, A)
      BY DEF TagWords
    <3>2. x + v[x] - 1 # p /\ x + v[x] # p + v[p]
      BY <1>1, <1>3, <2>2
    <3>3. x + v[x] - 1 # e - 1
      BY <1>2, <1>3, <3>2
    <3>4. z[x + v[x] - 1] = m[x + v[x] - 1]
      BY <3>1, <3>2, <3>3
    <3>5. m[x + w[x] - 1] = 8 * w[x]
      BY <1>5, <2>2
    <3> QED BY <2>2, <3>4, <3>5
  <2> QED BY <1>8, <2>1, <2>2
<1> QED BY <1>4, <1>9, <1>10, <1>11, <1>12 DEF Tags

-----------------------------------------------------------------------------
(* The heap.                                                               *)

\* A free block ends at the epilogue or at an allocated block.
Merged(k, B, w, A) == \A b \in B \ A : b + w[b] = k - 1 \/ b + w[b] \in A

\* A free block that free does not see at the end of the heap is the first one.
Large(k, B, w, A) ==
  /\ \A b \in A : w[b] >= 8
  /\ \A b \in B \ A : b + w[b] = k - 1 => b = 1 \/ w[b] >= 8

Consistent(h, B, w, A) ==
  /\ h \in HeapType /\ Layout(h.brk, B, w) /\ A \in SUBSET B
  /\ Tags(h.mem, B, w, A) /\ Chain(h, B \ A)

HeapOk(h, B, w, A) ==
  Consistent(h, B, w, A) /\ Merged(h.brk, B, w, A) /\ Large(h.brk, B, w, A)

LEMMA KeptLess ==
  ASSUME NEW m, NEW n, NEW w, NEW T, NEW S \in SUBSET T, Kept(m, n, w, T)
  PROVE  Kept(m, n, w, S)
BY DEF Kept

\* A store at a tag leaves the links and the data alone.
LEMMA ChainRetagged ==
  ASSUME NEW h, NEW g, NEW B, NEW w, NEW A \in SUBSET B, NEW k, Layout(k, B, w),
         Retagged(h.mem, g.mem, TagWords(k, B, w, A)), NEW S \in SUBSET B, Chain(h, S),
         g.free_block_pointer = h.free_block_pointer
  PROVE  Chain(g, S)
<1>1. \A a \in LinkWords(S) : g.mem[a] = h.mem[a]
  BY RetaggedKeeps
<1>2. Apart(S)
  BY BlocksAreApart
<1> QED BY <1>1, <1>2, ChainKept

LEMMA TakeOk ==
  ASSUME NEW h, NEW B, NEW w, NEW A, HeapOk(h, B, w, A), NEW b \in B \ A, w[b] >= 8,
         NEW g, g = TakeWhole(h, b)
  PROVE  HeapOk(g, B, w, A \cup {b}) /\ Kept(h.mem, g.mem, w, A)
<1>1. /\ h \in HeapType /\ Layout(h.brk, B, w) /\ A \in SUBSET B
      /\ Tags(h.mem, B, w, A) /\ Chain(h, B \ A)
      /\ Merged(h.brk, B, w, A) /\ Large(h.brk, B, w, A)
  BY DEF HeapOk, Consistent
<1>2. PICK k, m, e, D : k = h.brk /\ m = h.mem /\ e = b + w[b] /\ D = A \cup {b}
  OBVIOUS
<1>3. /\ b \in Nat /\ w[b] \in Nat /\ b \in Address /\ e \in Address /\ b # e
      /\ Header(h, b) = m[b] /\ m[b] \in Nat /\ m[e] \in Nat
      /\ Size(h, b) = 8 * w[b] /\ NextBlock(h, b) = e
  <2>1. BlockIs(h, w, b)
    BY <1>1, TagValues
  <2>2. b # e
    BY <1>2, <2>1 DEF BlockIs
  <2> QED BY <1>2, <2>1, <2>2 DEF BlockIs
<1>4. PICK x, y : x = Keeping(m[b], 8 * w[b] + 1) /\ y = Toggle1(m[e])
  OBVIOUS
<1>5. /\ x \in Nat /\ SizeIn(x) = 8 * w[b] /\ Bit0(x) /\ (Bit1(x) <=> Bit1(m[b]))
      /\ y \in Nat /\ SizeIn(y) = SizeIn(m[e]) /\ (Bit0(y) <=> Bit0(m[e]))
      /\ (Bit1(y) <=> ~ Bit1(m[e]))
  BY <1>3, <1>4, NewWords, FlagChanges
<1>6. PICK h1 : h1 = Store(h, b, x)
  OBVIOUS
<1>7. Stored(h, h1, b, x)
  BY <1>1, <1>3, <1>5, <1>6, StoreIs
<1>8. PICK h2 : h2 = Store(h1, e, y)
  OBVIOUS
<1>9. Stored(h1, h2, e, y)
  <2>1. h1 \in HeapType
    BY <1>7 DEF Stored
  <2> QED BY <1>3, <1>5, <1>8, <2>1, StoreIs
<1>10. PICK z : z = h2.mem
  OBVIOUS
<1>11. /\ h2 \in HeapType /\ h2.brk = k /\ h2.free_block_pointer = h.free_block_pointer
       /\ z[b] = x /\ z[e] = y /\ h1.mem[e] = m[e]
       /\ \A a \in Address : a # b /\ a # e => z[a] = m[a]
  BY <1>2, <1>3, <1>7, <1>9, <1>10 DEF Stored
<1>12. remove_from_free_list(h2, b) = g
  <2>1. Size(h, b) + 1 = 8 * w[b] + 1
    BY <1>3
  <2>2. Header(h1, e) = m[e]
    BY <1>11 DEF Header
  <2>3. h1 = Store(h, b, Keeping(Header(h, b), Size(h, b) + 1))
    BY <1>3, <1>4, <1>6, <2>1
  <2>4. h2 = Store(h1, NextBlock(h, b), Toggle1(Header(h1, NextBlock(h, b))))
    BY <1>3, <1>4, <1>8, <2>2
  <2> QED BY <2>3, <2>4 DEF TakeWhole
<1>13. b \in TagWords(k, B, w, D) /\ e \in TagWords(k, B, w, D) /\ D \in SUBSET B
  BY <1>1, <1>2 DEF TagWords, Layout
<1>14. Retagged(m, z, TagWords(k, B, w, D))
  BY <1>11, <1>13 DEF Retagged
<1>15. Tags(z, B, w, D)
  <2>1. \A a \in TagWords(k, B, w, D) : a = b \/ a = e \/ a = e - 1 \/ z[a] = m[a]
    BY <1>1, <1>2, <1>11, LinksAreNoTags
  <2>2. SizeIn(m[b]) = 8 * w[b] /\ ~ Bit1(m[e])
    BY <1>1, <1>2 DEF Tags
  <2>3. D \ {b} = A \ {b} /\ b \in D
    BY <1>2
  <2>4. Layout(k, B, w) /\ Tags(m, B, w, A)
    BY <1>1, <1>2
  <2>5. /\ SizeIn(z[b]) = SizeIn(m[b]) /\ (Bit1(z[b]) <=> Bit1(m[b])) /\ (Bit0(z[b]) <=> b \in D)
        /\ SizeIn(z[e]) = SizeIn(m[e]) /\ (Bit0(z[e]) <=> Bit0(m[e])) /\ (Bit1(z[e]) <=> b \in D)
    BY <1>5, <1>11, <2>2, <2>3
  <2> QED BY <1>2, <2>1, <2>3, <2>4, <2>5, TagsFlip
<1>16. Chain(h2, B \ A)
  BY <1>1, <1>2, <1>10, <1>11, <1>13, <1>14, ChainRetagged
<1>17. /\ g \in HeapType /\ g.brk = k /\ Chain(g, (B \ A) \ {b}) /\ Relinked(z, g.mem, B \ A)
  <2>1. Apart(B \ A)
    BY <1>1, BlocksAreApart
  <2> QED BY <1>10, <1>11, <1>12, <1>16, <2>1, RemoveFromChain
<1>18. (B \ A) \ {b} = B \ D /\ B \ A \in SUBSET B
  BY <1>2
<1>19. Tags(g.mem, B, w, D)
  BY <1>1, <1>2, <1>15, <1>17, <1>18, TagsRelinked
<1>20. Kept(m, g.mem, w, A)
  <2>1. Kept(m, z, w, D)
    BY <1>1, <1>2, <1>13, <1>14, RetaggedKeeps
  <2>2. Kept(m, z, w, A)
    BY <1>2, <2>1, KeptLess
  <2>3. Kept(z, g.mem, w, A)
    BY <1>1, <1>17, RelinkedKeeps
  <2> QED BY <2>2, <2>3, KeptAgain
<1>21. Merged(k, B, w, D) /\ Large(k, B, w, D)
  BY <1>1, <1>2 DEF Merged, Large
<1> QED BY <1>1, <1>2, <1>13, <1>17, <1>18, <1>19, <1>20, <1>21 DEF HeapOk, Consistent

\* In g there is also an allocated block p of at least n words.
Allocates(h, w, A, g, p, n) ==
  \E C, v : /\ HeapOk(g, C, v, A \cup {p}) /\ p \notin A /\ v[p] >= n
            /\ \A x \in A : v[x] = w[x]
            /\ Kept(h.mem, g.mem, w, A)

LEMMA SplitOk ==
  ASSUME NEW h, NEW B, NEW w, NEW A, HeapOk(h, B, w, A), NEW b \in B \ A,
         NEW n \in Nat, Even(n), n >= 8, n + 4 <= w[b], NEW g, g = Split(h, b, 8 * n)
  PROVE  Allocates(h, w, A, g, b + (w[b] - n), n)
<1>1. /\ h \in HeapType /\ Layout(h.brk, B, w) /\ A \in SUBSET B
      /\ Tags(h.mem, B, w, A) /\ Chain(h, B \ A)
      /\ Merged(h.brk, B, w, A) /\ Large(h.brk, B, w, A)
  BY DEF HeapOk, Consistent
<1>2. PICK k, m, e, r, d : /\ k = h.brk /\ m = h.mem /\ e = b + w[b] /\ r = w[b] - n
                           /\ d = b + r
  OBVIOUS
<1>3. BlockIs(h, w, b)
  BY <1>1, TagValues
<1>4. /\ b \in Nat /\ w[b] \in Nat /\ b \in Address /\ e \in Address
      /\ Header(h, b) = m[b] /\ m[b] \in Nat /\ m[e] \in Nat
      /\ Size(h, b) = 8 * w[b] /\ NextBlock(h, b) = e
  BY <1>2, <1>3 DEF BlockIs
<1>5. /\ r \in Nat /\ r >= 4 /\ d \in Nat /\ e \in Nat /\ d + n = e /\ b + 4 <= d /\ d - 1 \in Nat
      /\ b # d - 1 /\ b # d /\ b # e /\ d # e /\ d - 1 # e /\ d - 1 # d
      /\ d < e /\ b + r = d
  BY <1>2, <1>4
<1>6. PICK C, D, v : /\ C = B \cup {d} /\ D = A \cup {d}
                     /\ v = [x \in Nat |-> IF x = b THEN r ELSE IF x = d THEN n ELSE w[x]]
  OBVIOUS
<1>7. /\ v \in [Nat -> Nat] /\ v[b] = r /\ v[d] = n
      /\ \A x \in B \ {b} : x # d => v[x] = w[x]
  <2>1. B \in SUBSET Nat /\ w \in [Nat -> Nat]
    BY <1>1 DEF Layout
  <2> QED BY <1>4, <1>5, <1>6, <2>1
<1>8. d \notin B
  <2>1. \A x \in B : x <= b \/ e <= x
    <3>1. \A x \in B : x \in Nat
      BY <1>1 DEF Layout
    <3>2. \A x \in B : b < x => b + w[b] <= x
      BY <1>1 DEF Layout
    <3> QED BY <1>2, <1>4, <3>1, <3>2
  <2>2. \A x \in B : x \in Nat
    BY <1>1 DEF Layout
  <2>3. ~ (d <= b) /\ ~ (e <= d)
    BY <1>4, <1>5
  <2> QED BY <2>1, <2>3
<1>9. \A x \in B \ {b} : v[x] = w[x]
  BY <1>7, <1>8
<1>10. Layout(k, C, v)
  <2>1. /\ Layout(k, B, w) /\ v[b] = w[b] - n /\ v[b + v[b]] = n /\ b + v[b] = d /\ b \in B
        /\ v \in [Nat -> Nat]
    BY <1>1, <1>2, <1>5, <1>7
  <2>2. Layout(k, B \cup {b + v[b]}, v)
    BY <1>9, <2>1, SplitLayout
  <2> QED BY <1>6, <2>1, <2>2
<1>11. d \in Address /\ d - 1 \in Address
  <2>1. e < k
    BY <1>1, <1>2, InHeap
  <2>2. k \in Nat /\ d < k /\ d - 1 < k
    BY <1>1, <1>2, <1>5, <2>1 DEF Layout
  <2> QED BY <1>1, <1>2, <1>5, <2>2, InHeap
<1>12. PICK x, y : x = Keeping(m[b], 8 * r) /\ y = Toggle1(m[e])
  OBVIOUS
<1>13. /\ x \in Nat /\ SizeIn(x) = 8 * r /\ ~ Bit0(x) /\ (Bit1(x) <=> Bit1(m[b]))
       /\ y \in Nat /\ SizeIn(y) = SizeIn(m[e]) /\ (Bit0(y) <=> Bit0(m[e]))
       /\ (Bit1(y) <=> ~ Bit1(m[e]))
       /\ SizeIn(8 * n + 1) = 8 * n /\ Bit0(8 * n + 1) /\ ~ Bit1(8 * n + 1)
       /\ 8 * r \in Nat /\ 8 * n + 1 \in Nat
  <2>1. /\ x \in Nat /\ SizeIn(x) = 8 * r /\ ~ Bit0(x) /\ (Bit1(x) <=> Bit1(m[b]))
    BY <1>4, <1>5, <1>12, NewWords
  <2>2. /\ y \in Nat /\ SizeIn(y) = SizeIn(m[e]) /\ (Bit0(y) <=> Bit0(m[e]))
        /\ (Bit1(y) <=> ~ Bit1(m[e]))
    BY <1>4, <1>12, FlagChanges
  <2>3. SizeIn(8 * n + 1) = 8 * n /\ Bit0(8 * n + 1) /\ ~ Bit1(8 * n + 1)
    BY NewWords
  <2>4. 8 * r \in Nat /\ 8 * n + 1 \in Nat
    BY <1>5
  <2> QED BY <2>1, <2>2, <2>3, <2>4
<1>14. PICK h1, h2, h3, h4 :
         /\ h1 = Store(h, b, x) /\ h2 = Store(h1, d - 1, 8 * r)
         /\ h3 = Store(h2, d, 8 * n + 1) /\ h4 = Store(h3, e, y)
  OBVIOUS
<1>15. Stored(h, h1, b, x) /\ h1 \in HeapType
  <2>1. Stored(h, h1, b, x)
    BY <1>1, <1>4, <1>13, <1>14, StoreIs
  <2> QED BY <2>1 DEF Stored
<1>16. Stored(h1, h2, d - 1, 8 * r) /\ h2 \in HeapType
  <2>1. Stored(h1, h2, d - 1, 8 * r)
    BY <1>11, <1>13, <1>14, <1>15, StoreIs
  <2> QED BY <2>1 DEF Stored
<1>17. Stored(h2, h3, d, 8 * n + 1) /\ h3 \in HeapType
  <2>1. Stored(h2, h3, d, 8 * n + 1)
    BY <1>11, <1>13, <1>14, <1>16, StoreIs
  <2> QED BY <2>1 DEF Stored
<1>18. Stored(h3, h4, e, y) /\ h4 \in HeapType
  <2>1. Stored(h3, h4, e, y)
    BY <1>4, <1>13, <1>14, <1>17, StoreIs
  <2> QED BY <2>1 DEF Stored
<1>19. h4 = g
  <2>1. Size(h, b) - 8 * n = 8 * r /\ (8 * r) \div 8 = r
    BY <1>2, <1>4, <1>5
  <2>2. h3.mem[e] = m[e]
    BY <1>2, <1>4, <1>5, <1>15, <1>16, <1>17 DEF Stored
  <2>3. Header(h3, e) = m[e]
    BY <2>2 DEF Header
  <2>4. b + (8 * r) \div 8 = d
    BY <1>2, <2>1
  <2>5. h1 = Store(h, b, Keeping(Header(h, b), Size(h, b) - 8 * n))
    BY <1>4, <1>12, <1>14, <2>1
  <2>6. h2 = Store(h1, (b + (Size(h, b) - 8 * n) \div 8) - 1, Size(h, b) - 8 * n)
    BY <1>14, <2>1, <2>4
  <2>7. h3 = Store(h2, b + (Size(h, b) - 8 * n) \div 8, 8 * n + 1)
    BY <1>14, <2>1, <2>4
  <2>8. h4 = Store(h3, NextBlock(h, b), Toggle1(Header(h3, NextBlock(h, b))))
    BY <1>4, <1>12, <1>14, <2>3
  <2> QED BY <2>5, <2>6, <2>7, <2>8 DEF Split
<1>20. PICK z : z = g.mem
  OBVIOUS
<1>21. /\ g \in HeapType /\ g.brk = k /\ g.free_block_pointer = h.free_block_pointer
       /\ z[b] = x /\ z[d - 1] = 8 * r /\ z[d] = 8 * n + 1 /\ z[e] = y
       /\ \A a \in Address : a # b /\ a # e /\ a # d /\ a # d - 1 => z[a] = m[a]
  BY <1>2, <1>4, <1>5, <1>11, <1>15, <1>16, <1>17, <1>18, <1>19, <1>20 DEF Stored
<1>22. /\ b \in TagWords(k, C, v, D) /\ e \in TagWords(k, C, v, D)
       /\ d \in TagWords(k, C, v, D) /\ d - 1 \in TagWords(k, C, v, D)
       /\ D \in SUBSET C
  <2>1. e \in B \cup {k - 1}
    BY <1>1, <1>2 DEF Layout
  <2>2. b \in C \ D /\ b + v[b] - 1 = d - 1
    <3>1. b \in C \ D
      BY <1>5, <1>6
    <3>2. b + v[b] - 1 = d - 1
      BY <1>4, <1>5, <1>7
    <3> QED BY <3>1, <3>2
  <2> QED BY <1>1, <1>6, <2>1, <2>2 DEF TagWords
<1>23. Retagged(m, z, TagWords(k, C, v, D))
  BY <1>21, <1>22 DEF Retagged
<1>24. Tags(z, C, v, D)
  <2>1. \A a \in TagWords(k, C, v, D) : a = b \/ a = d \/ a = e \/ a = d - 1 \/ z[a] = m[a]
    BY <1>10, <1>21, LinksAreNoTags
  <2>2. ~ Bit1(m[e])
    BY <1>1, <1>2 DEF Tags
  <2>3. /\ SizeIn(z[b]) = 8 * v[b] /\ ~ Bit0(z[b]) /\ (Bit1(z[b]) <=> Bit1(m[b])) /\ z[d - 1] = 8 * v[b]
        /\ SizeIn(z[d]) = 8 * v[d] /\ Bit0(z[d]) /\ ~ Bit1(z[d])
        /\ SizeIn(z[e]) = SizeIn(m[e]) /\ (Bit0(z[e]) <=> Bit0(m[e])) /\ Bit1(z[e])
    BY <1>7, <1>13, <1>21, <2>2
  <2>4. /\ Layout(k, B, w) /\ Tags(m, B, w, A) /\ d = b + v[b] /\ d + v[d] = e /\ e = b + w[b]
    BY <1>1, <1>2, <1>5, <1>7
  <2>5. SplitAt(k, B, w, b, C, v, d, e)
    BY <1>6, <1>8, <1>9, <1>10, <2>4 DEF SplitAt
  <2>6. SplitWords(k, C, v, D, m, z, b, d, e)
    BY <2>1, <2>3 DEF SplitWords
  <2>7. D = A \cup {d}
    BY <1>6
  <2> QED BY <1>1, <2>4, <2>5, <2>6, <2>7, SplitTags
<1>25. Chain(g, C \ D)
  <2>1. C \ D = B \ A /\ B \ A \in SUBSET C
    BY <1>1, <1>6, <1>8
  <2>2. Retagged(h.mem, g.mem, TagWords(k, C, v, D))
    BY <1>2, <1>20, <1>23
  <2>3. Chain(g, B \ A)
    BY <1>1, <1>10, <1>21, <1>22, <2>1, <2>2, ChainRetagged
  <2> QED BY <2>1, <2>3
<1>26. \A c \in A : v[c] = w[c] /\ c # d /\ c # b
  BY <1>1, <1>8, <1>9
<1>27. Kept(m, z, w, A)
  <2>1. Kept(m, z, v, D)
    BY <1>10, <1>22, <1>23, RetaggedKeeps
  <2>2. Kept(m, z, v, A)
    BY <1>6, <2>1, KeptLess
  <2> QED BY <1>26, <2>2 DEF Kept
<1>28. Merged(k, C, v, D)
  <2> SUFFICES ASSUME NEW c \in C \ D PROVE c + v[c] = k - 1 \/ c + v[c] \in D
    BY DEF Merged
  <2>1. CASE c = b
    BY <1>5, <1>6, <1>7, <2>1
  <2>2. CASE c # b
    <3>1. c \in B \ A /\ v[c] = w[c]
      BY <1>6, <1>9, <2>2
    <3> QED BY <1>1, <1>2, <1>6, <3>1 DEF Merged
  <2> QED BY <2>1, <2>2
<1>29. Large(k, C, v, D)
  <2>1. \A c \in D : v[c] >= 8
    BY <1>1, <1>6, <1>7, <1>26 DEF Large
  <2>2. ASSUME NEW c \in C \ D, c + v[c] = k - 1 PROVE c = 1 \/ v[c] >= 8
    <3>1. CASE c = b
      <4>1. d < k - 1
        BY <1>1, <1>2, <1>3, <1>5, InHeap DEF Layout
      <4> QED BY <1>5, <1>7, <2>2, <3>1, <4>1
    <3>2. CASE c # b
      <4>1. c \in B \ A /\ v[c] = w[c]
        BY <1>6, <1>9, <3>2
      <4> QED BY <1>1, <1>2, <2>2, <4>1 DEF Large
    <3> QED BY <3>1, <3>2
  <2> QED BY <2>1, <2>2 DEF Large
<1>30. HeapOk(g, C, v, A \cup {d})
  BY <1>6, <1>10, <1>20, <1>21, <1>22, <1>24, <1>25, <1>28, <1>29 DEF HeapOk, Consistent
<1>31. d \notin A /\ v[d] >= n
  BY <1>1, <1>7, <1>8
<1> QED BY <1>2, <1>20, <1>26, <1>27, <1>30, <1>31 DEF Allocates

LEMMA GrownIs ==
  ASSUME NEW h \in HeapType, NEW n \in Nat
  PROVE  /\ mm_sbrk(h, 8 * n) \in HeapType
         /\ mm_sbrk(h, 8 * n).mem = h.mem
         /\ mm_sbrk(h, 8 * n).brk = h.brk + n
         /\ mm_sbrk(h, 8 * n).free_block_pointer = h.free_block_pointer
<1>1. (8 * n) \div 8 = n
  OBVIOUS
<1> QED BY <1>1 DEF mm_sbrk, HeapType

LEMMA ExtendOk ==
  ASSUME NEW h, NEW B, NEW w, NEW A, HeapOk(h, B, w, A),
         NEW n \in Nat, Even(n), n >= 8, 8 * (h.brk + n) <= MaxHeap, NEW g, g = Extend(h, 8 * n)
  PROVE  Allocates(h, w, A, g, h.brk - 1, n)
<1>1. /\ h \in HeapType /\ Layout(h.brk, B, w) /\ A \in SUBSET B
      /\ Tags(h.mem, B, w, A) /\ Chain(h, B \ A)
      /\ Merged(h.brk, B, w, A) /\ Large(h.brk, B, w, A)
  BY DEF HeapOk, Consistent
<1>2. PICK k, m, d, j : k = h.brk /\ m = h.mem /\ d = k - 1 /\ j = k + n
  OBVIOUS
<1>3. /\ k \in Nat /\ d \in Nat /\ j \in Nat /\ j - 1 \in Nat /\ d + 1 = k /\ d + n = j - 1
      /\ d < j - 1 /\ k >= 6 /\ 8 * j <= MaxHeap
  BY <1>1, <1>2, InHeap DEF Layout
<1>4. PICK C, D, v : /\ C = B \cup {d} /\ D = A \cup {d}
                     /\ v = [x \in Nat |-> IF x = d THEN n ELSE w[x]]
  OBVIOUS
<1>5. /\ B \in SUBSET Nat /\ w \in [Nat -> Nat]
      /\ \A x \in B : /\ x \in Nat /\ w[x] \in Nat /\ w[x] >= 4 /\ x + w[x] <= d
                      /\ x + w[x] \in B \cup {d}
  BY <1>1, <1>2, InHeap DEF Layout
<1>6. d \notin B
  BY <1>3, <1>5
<1>7. v \in [Nat -> Nat] /\ v[d] = n /\ \A x \in B : v[x] = w[x]
  BY <1>3, <1>4, <1>5, <1>6
<1>8. Layout(j, C, v)
  <2>1. Layout(k, B, w) /\ 8 * (k + n) <= MaxHeap /\ v[k - 1] = n
    BY <1>1, <1>2, <1>7
  <2>2. Layout(k + n, B \cup {k - 1}, v)
    BY <1>7, <2>1, ExtendLayout
  <2> QED BY <1>2, <1>4, <2>2
<1>9. d \in Address /\ j - 1 \in Address /\ m[d] \in Nat
  <2>1. d < j /\ j - 1 < j
    BY <1>3
  <2>2. \A a \in Nat : a < j => a \in Address
    BY <1>8, InHeap
  <2>3. d \in Address /\ j - 1 \in Address
    BY <1>3, <2>1, <2>2
  <2> QED BY <1>1, <1>2, <2>3 DEF HeapType
<1>10. PICK x : x = Keeping(m[d], 8 * n + 1)
  OBVIOUS
<1>11. /\ x \in Nat /\ SizeIn(x) = 8 * n /\ Bit0(x) /\ (Bit1(x) <=> Bit1(m[d]))
       /\ Bit1(3) /\ 3 \in Nat
  BY <1>9, <1>10, NewWords
<1>12. PICK h1, h2, h3 : /\ h1 = mm_sbrk(h, 8 * n) /\ h2 = Store(h1, d, x)
                         /\ h3 = Store(h2, j - 1, 3)
  OBVIOUS
<1>13. h1 \in HeapType /\ h1.mem = m /\ h1.brk = j /\ h1.free_block_pointer = h.free_block_pointer
  BY <1>1, <1>2, <1>12, GrownIs
<1>14. Stored(h1, h2, d, x) /\ h2 \in HeapType
  <2>1. Stored(h1, h2, d, x)
    BY <1>9, <1>11, <1>12, <1>13, StoreIs
  <2> QED BY <2>1 DEF Stored
<1>15. Stored(h2, h3, j - 1, 3) /\ h3 \in HeapType
  <2>1. Stored(h2, h3, j - 1, 3)
    BY <1>9, <1>11, <1>12, <1>14, StoreIs
  <2> QED BY <2>1 DEF Stored
<1>16. h3 = g
  <2>1. h2 = Store(h1, h.brk - 1, Keeping(Header(h, h.brk - 1), 8 * n + 1))
    BY <1>2, <1>10, <1>12 DEF Header
  <2>2. h3 = Store(h2, h1.brk - 1, 3)
    BY <1>12, <1>13
  <2> QED BY <1>12, <2>1, <2>2 DEF Extend
<1>17. PICK z : z = g.mem
  OBVIOUS
<1>18. /\ g \in HeapType /\ g.brk = j /\ g.free_block_pointer = h.free_block_pointer
       /\ z[d] = x /\ z[j - 1] = 3
       /\ \A a \in Address : a # d /\ a # j - 1 => z[a] = m[a]
  <2>1. d # j - 1
    BY <1>3
  <2> QED BY <1>9, <1>13, <1>14, <1>15, <1>16, <1>17, <2>1 DEF Stored
<1>19. d \in TagWords(j, C, v, D) /\ j - 1 \in TagWords(j, C, v, D) /\ D \in SUBSET C
  BY <1>1, <1>4 DEF TagWords
<1>20. Retagged(m, z, TagWords(j, C, v, D))
  BY <1>18, <1>19 DEF Retagged
<1>21. Tags(z, C, v, D)
  <2>1. \A a \in TagWords(k, B, w, A) : a = d \/ z[a] = m[a]
    <3> TAKE a \in TagWords(k, B, w, A)
    <3>1. a \in Address /\ a \in Nat /\ a < k
      BY <1>1, <1>2, LinksAreNoTags
    <3>2. a # j - 1
      BY <1>3, <3>1
    <3> QED BY <1>18, <3>1, <3>2
  <2>2. /\ SizeIn(z[d]) = 8 * v[d] /\ Bit0(z[d]) /\ (Bit1(z[d]) <=> Bit1(m[d])) /\ Bit1(z[j - 1])
    BY <1>7, <1>11, <1>18
  <2>3. Layout(k, B, w) /\ Tags(m, B, w, A) /\ d + v[d] = j - 1
    BY <1>1, <1>2, <1>3, <1>7
  <2> QED BY <1>1, <1>2, <1>4, <1>7, <1>8, <2>1, <2>2, <2>3, ExtendTags
<1>22. Chain(g, C \ D)
  <2>1. C \ D = B \ A /\ B \ A \in SUBSET C
    BY <1>1, <1>4, <1>6
  <2>2. Retagged(h.mem, g.mem, TagWords(j, C, v, D))
    BY <1>2, <1>17, <1>20
  <2>3. Chain(g, B \ A)
    BY <1>1, <1>8, <1>18, <1>19, <2>1, <2>2, ChainRetagged
  <2> QED BY <2>1, <2>3
<1>23. \A c \in A : v[c] = w[c]
  BY <1>1, <1>7
<1>24. Kept(m, z, w, A)
  <2>1. Kept(m, z, v, D)
    BY <1>8, <1>19, <1>20, RetaggedKeeps
  <2>2. Kept(m, z, v, A)
    BY <1>4, <2>1, KeptLess
  <2> QED BY <1>23, <2>2 DEF Kept
<1>25. Merged(j, C, v, D)
  <2> SUFFICES ASSUME NEW c \in C \ D PROVE c + v[c] \in D
    BY DEF Merged
  <2>1. c \in B \ A /\ v[c] = w[c]
    BY <1>4, <1>7
  <2> QED BY <1>1, <1>2, <1>4, <2>1 DEF Merged
<1>26. Large(j, C, v, D)
  <2>1. \A c \in D : v[c] >= 8
    BY <1>1, <1>4, <1>7, <1>23 DEF Large
  <2>2. ASSUME NEW c \in C \ D PROVE c + v[c] # j - 1
    <3>1. c \in B /\ v[c] = w[c]
      BY <1>4, <1>7
    <3> QED BY <1>3, <1>5, <3>1
  <2> QED BY <2>1, <2>2 DEF Large
<1>27. HeapOk(g, C, v, A \cup {d})
  BY <1>4, <1>8, <1>17, <1>18, <1>19, <1>21, <1>22, <1>25, <1>26 DEF HeapOk, Consistent
<1>28. d \notin A /\ v[d] >= n
  BY <1>1, <1>6, <1>7
<1> QED BY <1>2, <1>17, <1>23, <1>24, <1>27, <1>28 DEF Allocates

\* The sizes of blocks, for requests of more than 40 bytes.
LEMMA RequiredIs ==
  ASSUME NEW size \in Nat, size > 40, size + 23 < SizeRange
  PROVE  \E n \in Nat : /\ Required(size) = 8 * n /\ Even(n) /\ n >= 8
                        /\ size + 8 <= 8 * n
<1>1. SizeRange \in Nat
  BY AllocatorAssumption
<1>2. (size + 8) % SizeRange = size + 8
  BY <1>1
<1>3. ((size + 8) + 15) % SizeRange = size + 23
  BY <1>1
<1>4. PICK q \in Nat : q = (size + 23) \div 16
  OBVIOUS
<1>5. 16 * q <= size + 23 /\ size + 23 < 16 * q + 16
  BY <1>4
<1>6. q >= 4 /\ size + 8 <= 16 * q
  BY <1>5
<1>7. align((size + 8) % SizeRange) = 16 * q
  BY <1>2, <1>3, <1>4 DEF align
<1>8. Required(size) = 16 * q
  BY <1>6, <1>7 DEF Required
<1>9. PICK n \in Nat : n = 2 * q
  OBVIOUS
<1>10. n % 2 = 0
  BY <1>9
<1> QED BY <1>6, <1>8, <1>9, <1>10 DEF Even

\* malloc fails and leaves everything as it was, or finds a block.
LEMMA MallocOk ==
  ASSUME NEW h, NEW B, NEW w, NEW A, HeapOk(h, B, w, A),
         NEW size \in Nat, size = 0 \/ (size > 40 /\ size + 23 < SizeRange),
         NEW r, r = malloc(h, size)
  PROVE  \/ r.ptr = NULL /\ r.heap = h
         \/ \E p, n \in Nat : /\ p >= 1 /\ r.ptr = p + 1 /\ size + 8 <= 8 * n
                              /\ Allocates(h, w, A, r.heap, p, n)
<1>1. CASE size = 0
  <2>1. r = [heap |-> h, ptr |-> NULL]
    BY <1>1 DEF malloc
  <2> QED BY <2>1
<1>2. CASE size # 0
  <2>1. PICK n \in Nat : /\ Required(size) = 8 * n /\ Even(n) /\ n >= 8
                         /\ size + 8 <= 8 * n
    BY <1>2, RequiredIs
  <2>2. /\ h \in HeapType /\ Layout(h.brk, B, w) /\ A \in SUBSET B
        /\ Tags(h.mem, B, w, A) /\ Chain(h, B \ A) /\ h.brk \in Nat
    BY DEF HeapOk, Consistent, HeapType
  <2>3. PICK b, rest : b = search(h, 8 * n) /\ rest = Size(h, b) - 8 * n
    OBVIOUS
  <2>4. b = NULL \/ (b \in B \ A /\ Size(h, b) >= 8 * n)
    <3>1. B \ A \in SUBSET B
      OBVIOUS
    <3> QED BY <2>2, <2>3, <3>1, SearchFinds
  <2>5. b \in B \ A => BlockIs(h, w, b)
    BY <2>2, TagValues
  <2>6. CASE b # NULL /\ rest <= 32
    <3>1. r = [heap |-> TakeWhole(h, b), ptr |-> b + 1]
      <4>1. ~ (rest > 32)
        BY <2>1, <2>3, <2>4, <2>5, <2>6 DEF BlockIs
      <4> QED BY <1>2, <2>1, <2>3, <2>6, <4>1 DEF malloc
    <3>2. b \in B \ A /\ b \in Nat /\ b >= 1 /\ w[b] \in Nat /\ w[b] >= n
      BY <2>1, <2>4, <2>5, <2>6 DEF BlockIs
    <3>3. w[b] >= 8
      BY <2>1, <3>2
    <3>4. HeapOk(r.heap, B, w, A \cup {b}) /\ Kept(h.mem, r.heap.mem, w, A)
      BY <3>1, <3>2, <3>3, TakeOk
    <3>5. Allocates(h, w, A, r.heap, b, n)
      BY <3>2, <3>4 DEF Allocates
    <3> QED BY <2>1, <3>1, <3>2, <3>5
  <2>7. CASE b # NULL /\ rest > 32
    <3>1. r = [heap |-> Split(h, b, 8 * n), ptr |-> b + rest \div 8 + 1]
      <4>1. ~ (rest <= 32)
        BY <2>1, <2>3, <2>4, <2>5, <2>7 DEF BlockIs
      <4> QED BY <1>2, <2>1, <2>3, <2>7, <4>1 DEF malloc
    <3>2. /\ b \in B \ A /\ b \in Nat /\ b >= 1 /\ w[b] \in Nat /\ rest = 8 * (w[b] - n)
          /\ n + 4 <= w[b]
      BY <2>1, <2>3, <2>4, <2>5, <2>7 DEF BlockIs
    <3>3. PICK p \in Nat : p = b + (w[b] - n)
      BY <2>1, <3>2
    <3>4. rest \div 8 = w[b] - n
      BY <2>1, <3>2
    <3>5. p >= 1 /\ r.ptr = p + 1
      BY <2>1, <3>1, <3>2, <3>3, <3>4
    <3>6. Allocates(h, w, A, r.heap, p, n)
      BY <2>1, <3>1, <3>2, <3>3, SplitOk
    <3> QED BY <2>1, <3>5, <3>6
  <2>8. CASE b = NULL /\ CanExtend(h, 8 * n)
    <3>1. r = [heap |-> Extend(h, 8 * n), ptr |-> h.brk]
      BY <1>2, <2>1, <2>3, <2>8 DEF malloc
    <3>2. 8 * h.brk + 8 * n <= MaxHeap
      BY <2>8 DEF CanExtend
    <3>3. 8 * (h.brk + n) <= MaxHeap
      BY <2>1, <2>2, <3>2, AllocatorAssumption
    <3>4. PICK p \in Nat : p = h.brk - 1
      BY <2>2, InHeap
    <3>5. p >= 1 /\ r.ptr = p + 1
      <4>1. h.brk >= 6
        BY <2>2, InHeap
      <4> QED BY <2>2, <3>1, <3>4, <4>1
    <3>6. Allocates(h, w, A, r.heap, p, n)
      BY <2>1, <3>1, <3>3, <3>4, ExtendOk
    <3> QED BY <2>1, <3>5, <3>6
  <2>9. CASE b = NULL /\ ~ CanExtend(h, 8 * n)
    <3>1. r = [heap |-> h, ptr |-> NULL]
      BY <1>2, <2>1, <2>3, <2>9 DEF malloc
    <3> QED BY <3>1
  <2>10. b # NULL => rest <= 32 \/ rest > 32
    BY <2>1, <2>3, <2>4, <2>5 DEF BlockIs
  <2> QED BY <2>6, <2>7, <2>8, <2>9, <2>10
<1> QED BY <1>1, <1>2

\* free marks the block as free and puts it into the list, before it coalesces.
LEMMA MarkedIs ==
  ASSUME NEW h, NEW B, NEW w, NEW A, Consistent(h, B, w, A), NEW b \in A
  PROVE  \E g : /\ Consistent(g, B, w, A \ {b}) /\ g.brk = h.brk
                /\ Kept(h.mem, g.mem, w, A \ {b})
                /\ free(h, b + 1) = coalesce(g, b)
<1>1. /\ h \in HeapType /\ Layout(h.brk, B, w) /\ A \in SUBSET B
      /\ Tags(h.mem, B, w, A) /\ Chain(h, B \ A)
  BY DEF Consistent
<1>2. PICK k, m, e, D : k = h.brk /\ m = h.mem /\ e = b + w[b] /\ D = A \ {b}
  OBVIOUS
<1>3. BlockIs(h, w, b)
  BY <1>1, TagValues
<1>4. /\ b \in Nat /\ w[b] \in Nat /\ w[b] >= 4 /\ b \in Address /\ e \in Address /\ b >= 1
      /\ e - 1 \in Address /\ e \in Nat
      /\ Header(h, b) = m[b] /\ m[b] \in Nat /\ m[e] \in Nat
      /\ Size(h, b) = 8 * w[b] /\ NextBlock(h, b) = e
  <2>1. b + w[b] - 1 = e - 1
    BY <1>2, <1>3 DEF BlockIs
  <2> QED BY <1>2, <1>3, <2>1 DEF BlockIs
<1>5. b # e /\ b # e - 1 /\ e # e - 1
  BY <1>2, <1>4
<1>6. PICK x, y : x = Clear0(m[b]) /\ y = Clear1(m[e])
  OBVIOUS
<1>7. /\ x \in Nat /\ SizeIn(x) = SizeIn(m[b]) /\ ~ Bit0(x) /\ (Bit1(x) <=> Bit1(m[b]))
      /\ y \in Nat /\ SizeIn(y) = SizeIn(m[e]) /\ (Bit0(y) <=> Bit0(m[e])) /\ ~ Bit1(y)
      /\ 8 * w[b] \in Nat
  BY <1>4, <1>6, FlagChanges
<1>8. PICK h1, h2, h3 :
        h1 = Store(h, b, x) /\ h2 = Store(h1, e - 1, 8 * w[b]) /\ h3 = Store(h2, e, y)
  OBVIOUS
<1>9. Stored(h, h1, b, x) /\ h1 \in HeapType
  <2>1. Stored(h, h1, b, x)
    BY <1>1, <1>4, <1>7, <1>8, StoreIs
  <2> QED BY <2>1 DEF Stored
<1>10. Stored(h1, h2, e - 1, 8 * w[b]) /\ h2 \in HeapType
  <2>1. Stored(h1, h2, e - 1, 8 * w[b])
    BY <1>4, <1>7, <1>8, <1>9, StoreIs
  <2> QED BY <2>1 DEF Stored
<1>11. Stored(h2, h3, e, y) /\ h3 \in HeapType
  <2>1. Stored(h2, h3, e, y)
    BY <1>4, <1>7, <1>8, <1>10, StoreIs
  <2> QED BY <2>1 DEF Stored
<1>12. PICK z : z = h3.mem
  OBVIOUS
<1>13. /\ h3 \in HeapType /\ h3.brk = k /\ h3.free_block_pointer = h.free_block_pointer
       /\ z[b] = x /\ z[e - 1] = 8 * w[b] /\ z[e] = y /\ h2.mem[e] = m[e]
       /\ \A a \in Address : a # b /\ a # e /\ a # e - 1 => z[a] = m[a]
  BY <1>2, <1>4, <1>5, <1>9, <1>10, <1>11, <1>12 DEF Stored
<1>14. PICK g : g = add_to_free_list(h3, b)
  OBVIOUS
<1>15. free(h, b + 1) = coalesce(g, b)
  <2>1. (b + 1) - 1 = b /\ b + 1 # NULL
    BY <1>4 DEF NULL
  <2>2. h1 = Store(h, b, Clear0(Header(h, b)))
    BY <1>4, <1>6, <1>8
  <2>3. h2 = Store(h1, NextBlock(h, b) - 1, Size(h, b))
    BY <1>4, <1>8
  <2>4. Header(h2, e) = m[e]
    BY <1>13 DEF Header
  <2>5. h3 = Store(h2, NextBlock(h, b), Clear1(Header(h2, NextBlock(h, b))))
    BY <1>4, <1>6, <1>8, <2>4
  <2> QED BY <1>14, <2>1, <2>2, <2>3, <2>5 DEF free
<1>16. /\ b \in TagWords(k, B, w, D) /\ e \in TagWords(k, B, w, D) /\ e - 1 \in TagWords(k, B, w, D)
       /\ D \in SUBSET B
  <2>1. b \in B \ D /\ e \in B \cup {k - 1} /\ b \in B
    BY <1>1, <1>2 DEF Layout
  <2>2. b + w[b] - 1 = e - 1
    BY <1>2, <1>4
  <2> QED BY <1>1, <1>2, <2>1, <2>2 DEF TagWords
<1>17. Retagged(m, z, TagWords(k, B, w, D))
  BY <1>13, <1>16 DEF Retagged
<1>18. Tags(z, B, w, D)
  <2>1. \A a \in TagWords(k, B, w, D) : a = b \/ a = e \/ a = e - 1 \/ z[a] = m[a]
    BY <1>1, <1>2, <1>13, LinksAreNoTags
  <2>2. D \ {b} = A \ {b} /\ ~ (b \in D) /\ b \in B
    BY <1>1, <1>2
  <2>3. Layout(k, B, w) /\ Tags(m, B, w, A)
    BY <1>1, <1>2
  <2>4. /\ SizeIn(z[b]) = SizeIn(m[b]) /\ (Bit1(z[b]) <=> Bit1(m[b])) /\ (Bit0(z[b]) <=> b \in D)
        /\ SizeIn(z[e]) = SizeIn(m[e]) /\ (Bit0(z[e]) <=> Bit0(m[e])) /\ (Bit1(z[e]) <=> b \in D)
        /\ z[e - 1] = 8 * w[b]
    BY <1>7, <1>13, <2>2
  <2> QED BY <1>2, <2>1, <2>2, <2>3, <2>4, TagsFlip
<1>19. B \ D = (B \ A) \cup {b} /\ b \notin B \ A /\ B \ D \in SUBSET B
  BY <1>1, <1>2
<1>20. Chain(h3, B \ A)
  <2>1. Retagged(h.mem, h3.mem, TagWords(k, B, w, D))
    BY <1>2, <1>12, <1>17
  <2>2. B \ A \in SUBSET B /\ Layout(k, B, w)
    BY <1>1, <1>2
  <2> QED BY <1>1, <1>13, <1>16, <2>1, <2>2, ChainRetagged
<1>21. g \in HeapType /\ g.brk = k /\ Chain(g, B \ D) /\ Relinked(z, g.mem, B \ D)
  <2>1. Apart(B \ D)
    BY <1>1, <1>19, BlocksAreApart
  <2>2. Apart((B \ A) \cup {b})
    BY <1>19, <2>1
  <2>3. /\ g \in HeapType /\ g.brk = h3.brk /\ Chain(g, (B \ A) \cup {b})
        /\ Relinked(h3.mem, g.mem, (B \ A) \cup {b})
    BY <1>13, <1>14, <1>19, <1>20, <2>2, AddToChain
  <2> QED BY <1>12, <1>13, <1>19, <2>3
<1>22. Tags(g.mem, B, w, D)
  BY <1>1, <1>18, <1>19, <1>21, TagsRelinked
<1>23. Kept(m, g.mem, w, D)
  <2>1. Kept(m, z, w, D)
    BY <1>1, <1>2, <1>16, <1>17, RetaggedKeeps
  <2>2. Kept(z, g.mem, w, D)
    BY <1>1, <1>16, <1>21, RelinkedKeeps
  <2> QED BY <2>1, <2>2, KeptAgain
<1>24. Consistent(g, B, w, D)
  BY <1>1, <1>2, <1>16, <1>21, <1>22 DEF Consistent
<1> QED BY <1>2, <1>15, <1>21, <1>23, <1>24

\* Between two steps of coalesce: only the blocks of S are in the list.
Partly(h, k, B, w, A, S) ==
  /\ h \in HeapType /\ h.brk = k /\ Layout(k, B, w) /\ A \in SUBSET B /\ S \in SUBSET (B \ A)
  /\ Tags(h.mem, B, w, A) /\ Chain(h, S)

LEMMA Removed ==
  ASSUME NEW h, NEW k, NEW B, NEW w, NEW A, NEW S, Partly(h, k, B, w, A, S), NEW b \in S,
         NEW g, g = remove_from_free_list(h, b)
  PROVE  Partly(g, k, B, w, A, S \ {b}) /\ Kept(h.mem, g.mem, w, A)
<1>1. /\ h \in HeapType /\ h.brk = k /\ Layout(k, B, w) /\ A \in SUBSET B /\ S \in SUBSET (B \ A)
      /\ Tags(h.mem, B, w, A) /\ Chain(h, S) /\ S \in SUBSET B
  BY DEF Partly
<1>2. Apart(S)
  BY <1>1, BlocksAreApart
<1>3. g \in HeapType /\ g.brk = k /\ Chain(g, S \ {b}) /\ Relinked(h.mem, g.mem, S)
  BY <1>1, <1>2, RemoveFromChain
<1>4. Tags(g.mem, B, w, A)
  BY <1>1, <1>3, TagsRelinked
<1>5. Relinked(h.mem, g.mem, B \ A)
  <2>1. LinkWords(S) \in SUBSET LinkWords(B \ A)
    BY <1>1 DEF LinkWords
  <2> QED BY <1>3, <2>1 DEF Relinked
<1>6. Kept(h.mem, g.mem, w, A)
  BY <1>1, <1>5, RelinkedKeeps
<1>7. S \ {b} \in SUBSET (B \ A)
  BY <1>1
<1> QED BY <1>1, <1>3, <1>4, <1>6, <1>7 DEF Partly

\* The last steps of coalesce: n words from block p on become one block.
JoinWords(w, p, n) == [x \in Nat |-> IF x = p THEN n ELSE w[x]]

Outside(S, p, e) == {x \in S : x < p \/ e <= x}

Tagged(h, p, n) == Store(Store(h, p, Toggle1(8 * n)), p + (8 * n) \div 8 - 1, 8 * n)

\* The free blocks from p up to e are to be joined; they are out of the list.
Joinable(h, k, B, w, A, S, p, e) ==
  /\ Partly(h, k, B, w, A, S)
  /\ p \in B /\ e \in B \cup {k - 1} /\ p < e
  /\ \A x \in B : p <= x /\ x < e => x \notin A
  /\ S = Outside(B \ A, p, e) /\ Bit1(h.mem[p])

Joined(h, g, k, B, w, A, p, e) ==
  /\ Consistent(g, Join(B, p, e), JoinWords(w, p, e - p), A) /\ g.brk = k
  /\ Kept(h.mem, g.mem, w, A) /\ \A x \in A : JoinWords(w, p, e - p)[x] = w[x]

LEMMA MergedIs ==
  ASSUME NEW h, NEW k, NEW B, NEW w, NEW A, NEW S, NEW p, NEW e,
         Joinable(h, k, B, w, A, S, p, e)
  PROVE  Joined(h, add_to_free_list(Tagged(h, p, e - p), p), k, B, w, A, p, e)
<1>. PICK n : n = e - p
  OBVIOUS
<1>. PICK C, v : C = Join(B, p, e) /\ v = JoinWords(w, p, n)
  OBVIOUS
<1>. PICK f : f = Tagged(h, p, n)
  OBVIOUS
<1>. PICK g : g = add_to_free_list(f, p)
  OBVIOUS
<1>. /\ Partly(h, k, B, w, A, S) /\ p \in B /\ e \in B \cup {k - 1} /\ p < e
     /\ \A x \in B : p <= x /\ x < e => x \notin A
     /\ S = Outside(B \ A, p, e) /\ Bit1(h.mem[p])
  BY DEF Joinable
<1>1. /\ h \in HeapType /\ h.brk = k /\ Layout(k, B, w) /\ A \in SUBSET B /\ S \in SUBSET (B \ A)
      /\ Tags(h.mem, B, w, A) /\ Chain(h, S) /\ S \in SUBSET B
  BY DEF Partly
<1>2. PICK m : m = h.mem
  OBVIOUS
<1>3. /\ B \in SUBSET Nat /\ w \in [Nat -> Nat] /\ k \in Nat /\ k - 1 \in Nat
      /\ \A x \in B : x \in Nat /\ w[x] \in Nat /\ w[x] >= 4 /\ x >= 1 /\ x + w[x] <= k - 1
      /\ \A x, y \in B : x < y => x + w[x] <= y
  BY <1>1, InHeap DEF Layout
<1>4. /\ p \in Nat /\ e \in Nat /\ n \in Nat /\ p + n = e /\ e <= k - 1 /\ p # e - 1 /\ e - 1 \in Nat
      /\ e - 1 < k /\ p < k /\ p + w[p] <= e
  <2>1. p \in Nat /\ e \in Nat /\ e <= k - 1
    BY <1>3
  <2>2. p + w[p] <= e
    BY <1>3, <2>1
  <2>3. w[p] \in Nat /\ w[p] >= 4 /\ p >= 1
    BY <1>3
  <2>4. n \in Nat /\ p + n = e
    BY <2>1
  <2>5. p # e - 1 /\ e - 1 \in Nat /\ e - 1 < k /\ p < k
    BY <1>3, <2>1, <2>2, <2>3
  <2> QED BY <2>1, <2>2, <2>4, <2>5
<1>5. v \in [Nat -> Nat] /\ v[p] = n /\ \A x \in B \ {p} : v[x] = w[x]
  BY <1>3, <1>4 DEF JoinWords
<1>6. \A x \in C \ {p} : v[x] = w[x]
  BY <1>5 DEF Join
<1>7. Layout(k, C, v)
  <2>1. v[p] = e - p
    BY <1>5
  <2> QED BY <1>1, <1>5, <1>6, <2>1, MergeLayout
<1>8. p \in Address /\ e - 1 \in Address
  BY <1>1, <1>4, InHeap
<1>9. PICK x : x = Toggle1(8 * n)
  OBVIOUS
<1>10. /\ x \in Nat /\ SizeIn(x) = 8 * n /\ ~ Bit0(x) /\ Bit1(x) /\ 8 * n \in Nat
       /\ p + (8 * n) \div 8 - 1 = e - 1
  <2>1. x = 8 * n + 2 /\ (8 * n) \div 8 = n
    BY <1>4, <1>9, NewWords
  <2>2. SizeIn(8 * n + 2) = 8 * n /\ ~ Bit0(8 * n + 2) /\ Bit1(8 * n + 2)
    BY <1>4, NewWords
  <2> QED BY <1>4, <2>1, <2>2
<1>11. PICK h1 : h1 = Store(h, p, x)
  OBVIOUS
<1>12. Stored(h, h1, p, x) /\ h1 \in HeapType
  <2>1. Stored(h, h1, p, x)
    BY <1>1, <1>8, <1>10, <1>11, StoreIs
  <2> QED BY <2>1 DEF Stored
<1>13. Stored(h1, f, e - 1, 8 * n) /\ f \in HeapType
  <2>1. f = Store(h1, e - 1, 8 * n)
    BY <1>9, <1>10, <1>11 DEF Tagged
  <2>2. Stored(h1, f, e - 1, 8 * n)
    BY <1>8, <1>10, <1>12, <2>1, StoreIs
  <2> QED BY <2>2 DEF Stored
<1>14. PICK z : z = f.mem
  OBVIOUS
<1>15. /\ f \in HeapType /\ f.brk = k /\ f.free_block_pointer = h.free_block_pointer
       /\ z[p] = x /\ z[e - 1] = 8 * n
       /\ \A a \in Address : a # p /\ a # e - 1 => z[a] = m[a]
  BY <1>1, <1>2, <1>4, <1>8, <1>12, <1>13, <1>14 DEF Stored
<1>16. p \in C \ A /\ p \in C /\ A \in SUBSET C
  <2>1. p \in C \ A
    BY <1>3, <1>4 DEF Join
  <2>2. \A a \in A : a \in B /\ a \in Nat
    BY <1>1, <1>3
  <2>3. \A a \in A : a < p \/ e <= a
    BY <1>4, <2>2
  <2> QED BY <1>4, <2>1, <2>2, <2>3 DEF Join
<1>17. p \in TagWords(k, C, v, A) /\ e - 1 \in TagWords(k, C, v, A)
  <2>1. p + v[p] - 1 = e - 1
    BY <1>4, <1>5
  <2> QED BY <1>16, <2>1 DEF TagWords
<1>18. Retagged(m, z, TagWords(k, C, v, A))
  BY <1>15, <1>17 DEF Retagged
<1>19. Tags(z, C, v, A)
  <2>1. \A a \in TagWords(k, C, v, A) : a = p \/ a = e - 1 \/ z[a] = m[a]
    BY <1>7, <1>15, LinksAreNoTags
  <2>2. /\ Bit1(m[p]) /\ SizeIn(z[p]) = 8 * v[p] /\ ~ Bit0(z[p]) /\ Bit1(z[p]) /\ z[e - 1] = 8 * v[p]
    BY <1>2, <1>5, <1>10, <1>15
  <2>3. Tags(m, B, w, A) /\ p + v[p] = e
    BY <1>1, <1>2, <1>4, <1>5
  <2>4. /\ \A y \in B : p <= y /\ y < e => y \notin A
        /\ A \in SUBSET B /\ Layout(k, B, w)
    BY <1>1
  <2> QED BY <1>6, <1>7, <2>1, <2>2, <2>3, <2>4, MergeTags
<1>20. S \in SUBSET C /\ p \notin S /\ S \cup {p} = C \ A
  <2>1. \A y \in C \ A : y = p \/ y \in S
    BY <1>3, <1>4 DEF Join, Outside
  <2>2. \A y \in S : y \in C \ A /\ y # p
    BY <1>3, <1>4 DEF Join, Outside
  <2> QED BY <1>16, <2>1, <2>2
<1>21. Chain(f, S)
  <2>1. Retagged(h.mem, f.mem, TagWords(k, C, v, A))
    BY <1>2, <1>14, <1>18
  <2> QED BY <1>1, <1>7, <1>15, <1>16, <1>20, <2>1, ChainRetagged
<1>22. g \in HeapType /\ g.brk = k /\ Chain(g, C \ A) /\ Relinked(z, g.mem, C \ A)
  <2>1. C \ A \in SUBSET C
    OBVIOUS
  <2>2. Apart(S \cup {p})
    BY <1>7, <1>20, <2>1, BlocksAreApart
  <2>3. g \in HeapType /\ g.brk = f.brk /\ Chain(g, S \cup {p}) /\ Relinked(f.mem, g.mem, S \cup {p})
    BY <1>15, <1>20, <1>21, <2>2, AddToChain
  <2> QED BY <1>14, <1>15, <1>20, <2>3
<1>23. Tags(g.mem, C, v, A)
  <2>1. C \ A \in SUBSET C
    OBVIOUS
  <2> QED BY <1>7, <1>19, <1>22, <2>1, TagsRelinked
<1>24. \A y \in A : v[y] = w[y]
  BY <1>1, <1>5, <1>16
<1>25. Kept(m, g.mem, w, A)
  <2>1. Kept(m, z, v, A)
    BY <1>7, <1>16, <1>18, RetaggedKeeps
  <2>2. Kept(z, g.mem, v, A)
    BY <1>7, <1>16, <1>22, RelinkedKeeps
  <2>3. Kept(m, g.mem, v, A)
    BY <2>1, <2>2, KeptAgain
  <2> QED BY <1>24, <2>3 DEF Kept
<1>26. Consistent(g, C, v, A) /\ g.brk = k
  BY <1>7, <1>16, <1>22, <1>23 DEF Consistent
<1> QED BY <1>2, <1>24, <1>25, <1>26 DEF Joined

\* Whether the block before a free one is free, as coalesce finds out.
PrevAt(h, b) == b - SizeIn(Header(h, b - 1)) \div 8
PrevFree(h, b) == ~ Bit1(Header(h, b)) /\ InBounds(h, PrevAt(h, b))

LEMMA PrevIs ==
  ASSUME NEW h, NEW B, NEW w, NEW A, Consistent(h, B, w, A), NEW b \in B \ A, w[b] >= 8
  PROVE  /\ PrevFree(h, b) => PrevAt(h, b) \in B \ A /\ PrevAt(h, b) + w[PrevAt(h, b)] = b
         /\ ~ PrevFree(h, b) => Bit1(h.mem[b])
<1>1. /\ h \in HeapType /\ Layout(h.brk, B, w) /\ A \in SUBSET B /\ Tags(h.mem, B, w, A)
  BY DEF Consistent
<1>2. PICK k, m : k = h.brk /\ m = h.mem
  OBVIOUS
<1>3. /\ k \in Nat /\ \A x \in B : x \in Nat /\ w[x] \in Nat /\ x >= 1 /\ w[x] >= 4 /\ x + w[x] <= k - 1
  BY <1>1, <1>2, InHeap DEF Layout
<1>4. Header(h, b) = m[b]
  BY <1>2 DEF Header
<1>5. CASE Bit1(m[b])
  BY <1>2, <1>4, <1>5 DEF PrevFree
<1>6. CASE ~ Bit1(m[b])
  <2>1. b # 1
    BY <1>1, <1>2, <1>6 DEF Tags
  <2>2. PICK y \in B : y + w[y] = b
    BY <1>1, <2>1 DEF Layout
  <2>3. y \notin A
    BY <1>1, <1>2, <1>6, <2>2 DEF Tags
  <2>4. m[y + w[y] - 1] = 8 * w[y]
    BY <1>1, <1>2, <2>2, <2>3 DEF Tags
  <2>5. y + w[y] - 1 = b - 1
    BY <1>3, <2>2
  <2>6. Header(h, b - 1) = 8 * w[y]
    BY <1>2, <2>4, <2>5 DEF Header
  <2>7. PrevAt(h, b) = y
    <3>1. SizeIn(8 * w[y]) = 8 * w[y] /\ (8 * w[y]) \div 8 = w[y]
      BY <1>3, NewWords
    <3>2. b - w[y] = y
      BY <1>3, <2>2
    <3> QED BY <2>6, <3>1, <3>2 DEF PrevAt
  <2>8. InBounds(h, y)
    <3>1. y >= 1 /\ 8 * y < 8 * k - 57
      BY <1>3, <2>2
    <3> QED BY <1>2, <3>1 DEF InBounds
  <2> QED BY <1>4, <1>6, <2>2, <2>3, <2>7, <2>8 DEF PrevFree
<1> QED BY <1>5, <1>6

\* The free blocks around b, before coalesce joins them.
Around(k, B, w, A, b) ==
  \A x \in B \ A : x = b \/ x + w[x] = k - 1 \/ x + w[x] \in A \cup {b}

LEMMA NextIs ==
  ASSUME NEW h, NEW k, NEW B, NEW w, NEW A, NEW S, Partly(h, k, B, w, A, S),
         Large(k, B, w, A), NEW b \in B \ A, Around(k, B, w, A, b), NEW e, e = b + w[b],
         NEW g, g.brk = k
  PROVE  InBounds(g, e) /\ ~ Bit0(Header(h, e)) <=> e \in B \ A
<1>1. /\ h \in HeapType /\ Layout(k, B, w) /\ A \in SUBSET B /\ Tags(h.mem, B, w, A)
  BY DEF Partly
<1>2. /\ k \in Nat /\ \A x \in B : /\ x \in Nat /\ w[x] \in Nat /\ x >= 1 /\ w[x] >= 4
                                   /\ x + w[x] <= k - 1
  BY <1>1, InHeap DEF Layout
<1>3. e \in B \cup {k - 1} /\ e > b /\ b >= 1
  <2>1. e \in B \cup {k - 1}
    BY <1>1 DEF Layout
  <2> QED BY <1>2, <2>1
<1>4. e \in B => (~ Bit0(Header(h, e)) <=> e \notin A)
  BY <1>1 DEF Header, Tags
<1>5. e = k - 1 => ~ InBounds(g, e)
  <2>1. ~ (8 * (k - 1) < 8 * k - 57)
    BY <1>2
  <2> QED BY <2>1 DEF InBounds
<1>6. e = k - 1 => e \notin B
  BY <1>2
<1>7. e \in B \ A => InBounds(g, e)
  <2> SUFFICES ASSUME e \in B \ A PROVE InBounds(g, e)
    OBVIOUS
  <2>1. e \in Nat /\ e # 1 /\ e # b /\ w[e] \in Nat /\ e >= 1
    BY <1>2, <1>3
  <2>2. CASE e + w[e] = k - 1
    <3>1. w[e] >= 8
      BY <2>1, <2>2 DEF Large
    <3>2. 8 * e < 8 * k - 57
      BY <1>2, <2>1, <2>2, <3>1
    <3> QED BY <2>1, <3>2 DEF InBounds
  <2>3. CASE e + w[e] # k - 1
    <3>1. e + w[e] # b
      BY <1>2, <1>3, <2>1
    <3>2. e + w[e] \in A
      BY <2>1, <2>3, <3>1 DEF Around
    <3>3. PICK c \in A : c = e + w[e]
      BY <3>2
    <3>4. w[c] >= 8 /\ c \in B
      BY <1>1 DEF Large
    <3>5. c + w[c] <= k - 1 /\ w[c] \in Nat
      BY <1>2, <3>4
    <3>6. 8 * e < 8 * k - 57
      BY <1>2, <2>1, <3>3, <3>4, <3>5
    <3> QED BY <2>1, <3>6 DEF InBounds
  <2> QED BY <2>2, <2>3
<1> QED BY <1>3, <1>4, <1>5, <1>6, <1>7

\* The heap is consistent again, and the blocks of A are still there.
Freed(h, g, w, A) ==
  \E C, v : /\ HeapOk(g, C, v, A)
            /\ \A x \in A : v[x] = w[x]
            /\ Kept(h.mem, g.mem, w, A)

\* The heap after a block has been joined with its neighbours.
LEMMA MergedOk ==
  ASSUME NEW h, NEW k, NEW B, NEW w, NEW A, NEW S, Partly(h, k, B, w, A, S),
         Large(k, B, w, A), NEW b \in B \ A, Around(k, B, w, A, b), w[b] >= 8,
         NEW p \in B \ A, NEW e \in B \cup {k - 1}, p <= b, b + w[b] <= e,
         e = k - 1 \/ e \in A,
         \A x \in B : p <= x /\ x < e => x \notin A,
         p = b => \A x \in B \ A : x + w[x] # b,
         S = Outside(B \ A, p, e), Bit1(h.mem[p]), NEW n, n = e - p,
         NEW g, g = add_to_free_list(Tagged(h, p, n), p)
  PROVE  Freed(h, g, w, A)
<1>1. Layout(k, B, w) /\ A \in SUBSET B
  BY DEF Partly
<1>2. /\ k \in Nat /\ k - 1 \in Nat /\ w \in [Nat -> Nat] /\ B \in SUBSET Nat
      /\ \A x \in B : x \in Nat /\ w[x] \in Nat /\ w[x] >= 4 /\ x + w[x] <= k - 1
      /\ \A x, y \in B : x < y => x + w[x] <= y
  BY <1>1, InHeap DEF Layout
<1>3. b \in Nat /\ p \in Nat /\ e \in Nat /\ p < e /\ b < e /\ w[b] \in Nat /\ n \in Nat /\ n >= w[b]
      /\ p + n = e
  <2>1. b \in Nat /\ p \in Nat /\ e \in Nat /\ w[b] \in Nat
    BY <1>2
  <2> QED BY <2>1
<1>4. PICK C, v : C = Join(B, p, e) /\ v = JoinWords(w, p, n)
  OBVIOUS
<1>5. /\ Consistent(g, C, v, A) /\ g.brk = k
      /\ Kept(h.mem, g.mem, w, A) /\ \A x \in A : v[x] = w[x]
  <2>1. Joinable(h, k, B, w, A, S, p, e)
    BY <1>3 DEF Joinable
  <2>2. Joined(h, g, k, B, w, A, p, e)
    BY <2>1, MergedIs
  <2> QED BY <1>4, <2>2 DEF Joined
<1>6. /\ v[p] = n
      /\ \A x \in C : x \in B /\ (x <= p \/ e <= x) /\ (x = p \/ v[x] = w[x])
  <2>1. v[p] = n
    BY <1>3, <1>4 DEF JoinWords
  <2>2. \A x \in C : x \in B /\ (x <= p \/ e <= x)
    BY <1>4 DEF Join
  <2>3. \A x \in C : x = p \/ v[x] = w[x]
    BY <1>2, <1>4, <2>2 DEF JoinWords
  <2> QED BY <2>1, <2>2, <2>3
<1>7. Merged(k, C, v, A)
  <2> SUFFICES ASSUME NEW c \in C \ A PROVE c + v[c] = k - 1 \/ c + v[c] \in A
    BY DEF Merged
  <2>1. CASE c = p
    BY <1>3, <1>6, <2>1
  <2>2. CASE c # p
    <3>1. c \in B \ A /\ v[c] = w[c] /\ (c < p \/ e <= c) /\ c \in Nat
      <4>1. c \in C /\ c \in B \ A
        BY <1>6
      <4>2. v[c] = w[c] /\ (c <= p \/ e <= c)
        BY <1>6, <2>2, <4>1
      <4>3. c \in Nat
        BY <1>2, <4>1
      <4> QED BY <1>3, <2>2, <4>1, <4>2, <4>3
    <3>2. c # b
      BY <1>3, <3>1
    <3>3. c + w[c] # b
      <4>1. ASSUME c + w[c] = b PROVE FALSE
        <5>1. p # b
          BY <3>1, <4>1
        <5>2. c < b /\ c < p /\ p < b
          BY <1>2, <1>3, <3>1, <4>1, <5>1
        <5>3. c + w[c] <= p
          BY <1>2, <3>1, <5>2
        <5> QED BY <1>2, <1>3, <3>1, <4>1, <5>2, <5>3
      <4> QED BY <4>1
    <3> QED BY <3>1, <3>2, <3>3 DEF Around
  <2> QED BY <2>1, <2>2
<1>8. Large(k, C, v, A)
  <2>1. \A c \in A : v[c] >= 8
    BY <1>5 DEF Large
  <2>2. ASSUME NEW c \in C \ A, c + v[c] = k - 1 PROVE c = 1 \/ v[c] >= 8
    <3>1. CASE c = p
      BY <1>3, <1>6, <3>1
    <3>2. CASE c # p
      BY <1>6, <2>2, <3>2 DEF Large
    <3> QED BY <3>1, <3>2
  <2> QED BY <2>1, <2>2 DEF Large
<1> QED BY <1>5, <1>7, <1>8 DEF HeapOk, Freed

LEMMA FreedAgain ==
  ASSUME NEW h, NEW f, NEW g, NEW w, NEW A, Kept(h.mem, f.mem, w, A), Freed(f, g, w, A)
  PROVE  Freed(h, g, w, A)
BY KeptAgain DEF Freed

\* coalesce by its steps.
LEMMA CoalesceForm ==
  ASSUME NEW h, NEW b, NEW e, e = NextBlock(h, b),
         NEW h1, h1 = IF PrevFree(h, b) THEN remove_from_free_list(h, PrevAt(h, b)) ELSE h,
         NEW h2, h2 = IF InBounds(h, e) /\ ~ Bit0(Header(h1, e))
                      THEN remove_from_free_list(h1, e) ELSE h1,
         NEW h3, h3 = remove_from_free_list(h2, b),
         NEW p, p = IF PrevFree(h, b) THEN PrevAt(h, b) ELSE b,
         NEW size, size = Size(h, b)
                            + (IF PrevFree(h, b) THEN Size(h1, PrevAt(h, b)) ELSE 0)
                            + (IF InBounds(h, e) /\ ~ Bit0(Header(h1, e))
                               THEN Size(h2, e) ELSE 0)
  PROVE  coalesce(h, b) =
           IF size = Size(h, b) THEN h2
           ELSE add_to_free_list(Store(Store(h3, p, Toggle1(size)), p + size \div 8 - 1, size), p)
BY SMTT(20) DEF coalesce, PrevFree, PrevAt

LEMMA PartlySize ==
  ASSUME NEW h, NEW k, NEW B, NEW w, NEW A, NEW S, Partly(h, k, B, w, A, S), NEW b \in B
  PROVE  Size(h, b) = 8 * w[b]
<1>1. h \in HeapType /\ Layout(h.brk, B, w) /\ Tags(h.mem, B, w, A)
  BY DEF Partly
<1>2. BlockIs(h, w, b)
  BY <1>1, TagValues
<1> QED BY <1>2 DEF BlockIs

LEMMA CoalesceOk ==
  ASSUME NEW h, NEW B, NEW w, NEW A, Consistent(h, B, w, A), NEW b \in B \ A,
         Around(h.brk, B, w, A, b), Large(h.brk, B, w, A), w[b] >= 8,
         NEW g, g = coalesce(h, b)
  PROVE  Freed(h, g, w, A)
<1>1. /\ h \in HeapType /\ Layout(h.brk, B, w) /\ A \in SUBSET B
      /\ Tags(h.mem, B, w, A) /\ Chain(h, B \ A)
  BY DEF Consistent
<1>2. PICK k, m, e, q, T : /\ k = h.brk /\ m = h.mem /\ e = b + w[b] /\ q = PrevAt(h, b)
                           /\ T = B \ A
  OBVIOUS
<1>3. Partly(h, k, B, w, A, T)
  BY <1>1, <1>2 DEF Partly
<1>4. BlockIs(h, w, b)
  BY <1>1, TagValues
<1>5. /\ Size(h, b) = 8 * w[b] /\ NextBlock(h, b) = e /\ e \in Nat /\ b \in Nat /\ w[b] \in Nat
  BY <1>2, <1>4 DEF BlockIs
<1>6. /\ k \in Nat /\ Layout(k, B, w)
      /\ \A x \in B : x \in Nat /\ w[x] \in Nat /\ w[x] >= 4 /\ x + w[x] <= k - 1
                      /\ x + w[x] \in B \cup {k - 1}
      /\ \A x, y \in B : x < y => x + w[x] <= y
  BY <1>1, <1>2, InHeap DEF Layout
<1>7. PICK h1 : h1 = IF PrevFree(h, b) THEN remove_from_free_list(h, q) ELSE h
  OBVIOUS
<1>8. PICK p : p = IF PrevFree(h, b) THEN q ELSE b
  OBVIOUS
<1>9. /\ PrevFree(h, b) => q \in T /\ q + w[q] = b
      /\ ~ PrevFree(h, b) => Bit1(m[b])
  BY <1>2, PrevIs
<1>10. /\ PrevFree(h, b) => Partly(h1, k, B, w, A, T \ {p}) /\ Size(h1, q) = 8 * w[q] /\ q < b
       /\ ~ PrevFree(h, b) => h1 = h
       /\ Kept(m, h1.mem, w, A)
       /\ p \in T /\ p <= b /\ p \in Nat
  <2>1. CASE PrevFree(h, b)
    <3>1. q \in T /\ q + w[q] = b /\ p = q
      BY <1>8, <1>9, <2>1
    <3>2. Partly(h1, k, B, w, A, T \ {q}) /\ Kept(h.mem, h1.mem, w, A)
      BY <1>3, <1>7, <2>1, <3>1, Removed
    <3>3. q \in B
      BY <1>2, <3>1
    <3>4. Size(h1, q) = 8 * w[q]
      BY <3>2, <3>3, PartlySize
    <3>5. q < b /\ q \in Nat
      BY <1>5, <1>6, <3>1, <3>3
    <3> QED BY <1>2, <1>5, <2>1, <3>1, <3>2, <3>4, <3>5
  <2>2. CASE ~ PrevFree(h, b)
    <3>1. h1 = h /\ p = b
      BY <1>7, <1>8, <2>2
    <3>2. Kept(m, m, w, A)
      BY DEF Kept
    <3> QED BY <1>2, <1>5, <2>2, <3>1, <3>2
  <2> QED BY <2>1, <2>2
<1>11. Bit1(m[p]) /\ (p = b => \A x \in B \ A : x + w[x] # b)
  <2>1. CASE PrevFree(h, b)
    <3>1. q \in T /\ q \in B /\ p = q /\ q < b /\ q \in Nat
      BY <1>2, <1>8, <1>9, <1>10, <2>1
    <3>2. CASE q = 1
      BY <1>1, <1>2, <1>5, <3>1, <3>2 DEF Tags
    <3>3. CASE q # 1
      <4>1. PICK x \in B : x + w[x] = q
        BY <1>6, <3>1, <3>3 DEF Layout
      <4>2. x # b /\ x + w[x] # k - 1 /\ x + w[x] # b
        BY <1>5, <1>6, <3>1, <4>1
      <4>3. x \in A
        BY <1>2, <3>1, <4>1, <4>2 DEF Around
      <4>4. Bit1(m[q])
        BY <1>1, <1>2, <4>1, <4>3 DEF Tags
      <4> QED BY <1>5, <3>1, <4>4
    <3> QED BY <3>2, <3>3
  <2>2. CASE ~ PrevFree(h, b)
    <3>1. p = b /\ Bit1(m[b])
      BY <1>8, <1>9, <2>2
    <3>2. \A x \in B \ A : x + w[x] # b
      BY <1>1, <1>2, <3>1 DEF Tags
    <3> QED BY <3>1, <3>2
  <2> QED BY <2>1, <2>2
<1>12. PICK h2 : h2 = IF InBounds(h, e) /\ ~ Bit0(Header(h1, e))
                      THEN remove_from_free_list(h1, e) ELSE h1
  OBVIOUS
<1>13. InBounds(h, e) /\ ~ Bit0(Header(h1, e)) <=> e \in T
  <2>1. \E S : Partly(h1, k, B, w, A, S)
    BY <1>3, <1>10
  <2>2. PICK S : Partly(h1, k, B, w, A, S)
    BY <2>1
  <2>3. Around(k, B, w, A, b) /\ Large(k, B, w, A)
    BY <1>2
  <2> QED BY <1>2, <2>2, <2>3, NextIs
<1>14. PICK R : R = IF PrevFree(h, b) THEN T \ {p} ELSE T
  OBVIOUS
<1>15. Partly(h1, k, B, w, A, R) /\ b \in R /\ (e \in T => e \in R /\ e # b)
  <2>1. Partly(h1, k, B, w, A, R)
    BY <1>3, <1>10, <1>14
  <2>2. b < e
    BY <1>2, <1>5
  <2>3. PrevFree(h, b) => p # b /\ p # e
    BY <1>5, <1>8, <1>10, <2>2
  <2>4. e # b
    BY <1>5, <2>2
  <2>5. b \in T
    BY <1>2
  <2> QED BY <1>14, <2>1, <2>3, <2>4, <2>5
<1>16. PICK Q, d : /\ Q = IF e \in T THEN R \ {e} ELSE R
                   /\ d = IF e \in T THEN e + w[e] ELSE e
  OBVIOUS
<1>17. /\ Partly(h2, k, B, w, A, Q) /\ Kept(m, h2.mem, w, A) /\ b \in Q
       /\ e \in T => Size(h2, e) = 8 * w[e] /\ w[e] \in Nat /\ w[e] >= 4
  <2>1. CASE e \in T
    <3>1. h2 = remove_from_free_list(h1, e) /\ Q = R \ {e} /\ e \in R
      BY <1>12, <1>13, <1>15, <1>16, <2>1
    <3>2. Partly(h2, k, B, w, A, Q) /\ Kept(h1.mem, h2.mem, w, A)
      BY <1>15, <3>1, Removed
    <3>3. e \in B
      BY <1>2, <2>1
    <3>4. Size(h2, e) = 8 * w[e]
      BY <3>2, <3>3, PartlySize
    <3>5. Kept(m, h2.mem, w, A)
      BY <1>10, <3>2, KeptAgain
    <3> QED BY <1>6, <1>15, <2>1, <3>1, <3>2, <3>3, <3>4, <3>5
  <2>2. CASE e \notin T
    <3>1. h2 = h1 /\ Q = R
      BY <1>12, <1>13, <1>16, <2>2
    <3> QED BY <1>10, <1>15, <2>2, <3>1
  <2> QED BY <2>1, <2>2
<1>18. PICK h3 : h3 = remove_from_free_list(h2, b)
  OBVIOUS
<1>19. Partly(h3, k, B, w, A, Q \ {b}) /\ Kept(m, h3.mem, w, A)
  <2>1. Partly(h3, k, B, w, A, Q \ {b}) /\ Kept(h2.mem, h3.mem, w, A)
    BY <1>17, <1>18, Removed
  <2> QED BY <1>17, <2>1, KeptAgain
<1>20. PICK n, size : n = d - p /\ size = Size(h, b)
                            + (IF PrevFree(h, b) THEN Size(h1, q) ELSE 0)
                            + (IF InBounds(h, e) /\ ~ Bit0(Header(h1, e))
                               THEN Size(h2, e) ELSE 0)
  OBVIOUS
<1>21. g = IF size = Size(h, b) THEN h2
           ELSE add_to_free_list(Store(Store(h3, p, Toggle1(size)), p + size \div 8 - 1, size), p)
  BY <1>2, <1>5, <1>7, <1>8, <1>12, <1>18, <1>20, CoalesceForm
<1>22. /\ size = 8 * n /\ n \in Nat
       /\ size = Size(h, b) <=> ~ PrevFree(h, b) /\ e \notin T
  <2>1. PrevFree(h, b) => /\ Size(h1, q) = 8 * w[q] /\ p = q /\ q + w[q] = b
                          /\ q \in Nat /\ w[q] \in Nat /\ w[q] >= 4
    BY <1>2, <1>6, <1>8, <1>9, <1>10
  <2>2. ~ PrevFree(h, b) => p = b
    BY <1>8
  <2>3. PICK i \in Nat : /\ i = IF PrevFree(h, b) THEN w[q] ELSE 0
                         /\ i = 0 <=> ~ PrevFree(h, b)
                         /\ p + i = b
                         /\ (IF PrevFree(h, b) THEN Size(h1, q) ELSE 0) = 8 * i
    BY <1>5, <2>1, <2>2
  <2>4. PICK j \in Nat : /\ j = IF e \in T THEN w[e] ELSE 0
                         /\ j = 0 <=> e \notin T
                         /\ d = e + j
                         /\ (IF InBounds(h, e) /\ ~ Bit0(Header(h1, e)) THEN Size(h2, e) ELSE 0) = 8 * j
    BY <1>5, <1>13, <1>16, <1>17
  <2>5. size = 8 * w[b] + 8 * i + 8 * j
    BY <1>5, <1>20, <2>3, <2>4
  <2>6. n = w[b] + i + j
    BY <1>2, <1>5, <1>10, <1>20, <2>3, <2>4
  <2>7. size = 8 * n /\ n \in Nat
    BY <1>5, <2>5, <2>6
  <2>8. size = Size(h, b) <=> i = 0 /\ j = 0
    BY <1>5, <2>5
  <2> QED BY <2>3, <2>4, <2>7, <2>8
<1>23. CASE ~ PrevFree(h, b) /\ e \notin T
  <2>1. g = h /\ p = b
    BY <1>8, <1>10, <1>12, <1>13, <1>21, <1>22, <1>23
  <2>2. Merged(k, B, w, A)
    <3> SUFFICES ASSUME NEW x \in B \ A PROVE x + w[x] = k - 1 \/ x + w[x] \in A
      BY DEF Merged
    <3>1. CASE x = b
      BY <1>2, <1>6, <1>23, <3>1
    <3>2. CASE x # b
      BY <1>2, <1>11, <2>1, <3>2 DEF Around
    <3> QED BY <3>1, <3>2
  <2>3. HeapOk(g, B, w, A)
    BY <1>2, <2>1, <2>2 DEF HeapOk
  <2>4. Kept(h.mem, g.mem, w, A)
    BY <2>1 DEF Kept
  <2> QED BY <2>3, <2>4 DEF Freed
<1>24. CASE PrevFree(h, b) \/ e \in T
  <2>1. g = add_to_free_list(Tagged(h3, p, n), p)
    BY <1>21, <1>22, <1>24 DEF Tagged
  <2>2. /\ d \in B \cup {k - 1} /\ d \in Nat /\ b + w[b] <= d
        /\ d = k - 1 \/ d \in A
    <3>1. CASE e \in T
      <4>1. e \in B /\ d = e + w[e] /\ d \in B \cup {k - 1} /\ d \in Nat /\ e <= d
        BY <1>2, <1>5, <1>6, <1>16, <3>1
      <4>2. e # b /\ d # b
        BY <1>2, <1>5, <4>1
      <4>3. d = k - 1 \/ d \in A
        BY <1>2, <3>1, <4>1, <4>2 DEF Around
      <4> QED BY <1>2, <4>1, <4>3
    <3>2. CASE e \notin T
      BY <1>2, <1>5, <1>6, <1>16, <3>2
    <3> QED BY <3>1, <3>2
  <2>3. \A x \in B : x = p \/ x = b \/ (e \in T /\ x = e) \/ x + w[x] <= p \/ d <= x
    <3> TAKE x \in B
    <3>1. x = b \/ x + w[x] <= b \/ e <= x
      BY <1>2, <1>5, <1>6
    <3>2. x + w[x] <= b => x + w[x] <= p \/ x = p
      <4>1. CASE PrevFree(h, b)
        <5>1. p \in B /\ p + w[p] = b
          BY <1>2, <1>8, <1>9, <4>1
        <5>2. x = p \/ x + w[x] <= p \/ p + w[p] <= x
          BY <1>6, <5>1
        <5> QED BY <1>5, <1>6, <5>1, <5>2
      <4>2. CASE ~ PrevFree(h, b)
        BY <1>8, <4>2
      <4> QED BY <4>1, <4>2
    <3>3. e <= x => d <= x \/ (e \in T /\ x = e)
      <4>1. CASE e \in T
        <5>1. e \in B /\ d = e + w[e]
          BY <1>2, <1>16, <4>1
        <5>2. x = e \/ e + w[e] <= x \/ x + w[x] <= e
          BY <1>6, <5>1
        <5> QED BY <1>5, <1>6, <4>1, <5>1, <5>2
      <4>2. CASE e \notin T
        BY <1>16, <4>2
      <4> QED BY <4>1, <4>2
    <3> QED BY <3>1, <3>2, <3>3
  <2>4. \A x \in B : p <= x /\ x < d => x \notin A
    <3> SUFFICES ASSUME NEW x \in B, p <= x, x < d PROVE x \notin A
      OBVIOUS
    <3>1. ~ (x + w[x] <= p) /\ ~ (d <= x)
      BY <1>6, <1>10, <2>2
    <3> QED BY <1>2, <1>10, <2>3, <3>1
  <2>5. Q \ {b} = Outside(B \ A, p, d)
    <3>1. ASSUME NEW x \in T
          PROVE  x \in Q \ {b} <=> x < p \/ d <= x
      <4>1. x \in B /\ x \in Nat /\ w[x] \in Nat /\ w[x] >= 4
        BY <1>2, <1>6
      <4>2. ~ (p < p \/ d <= p) /\ ~ (b < p \/ d <= b) /\ (e \in T => ~ (e < p \/ d <= e))
        <5>1. p <= b /\ b < d /\ p \in Nat /\ d \in Nat
          BY <1>2, <1>5, <1>10, <2>2
        <5>2. e \in T => e < d
          BY <1>5, <1>16, <1>17
        <5>3. b < e
          BY <1>2, <1>5
        <5> QED BY <1>5, <5>1, <5>2, <5>3
      <4>3. x \in Q \ {b} <=> x # b /\ x # p /\ (e \in T => x # e)
        <5>1. x \in R \ {b} <=> x # b /\ x # p
          BY <1>8, <1>14
        <5> QED BY <1>16, <5>1
      <4>4. x + w[x] <= p => x < p
        BY <1>10, <4>1
      <4> QED BY <2>3, <4>1, <4>2, <4>3, <4>4
    <3>2. Q \in SUBSET T
      BY <1>14, <1>16
    <3>3. \A x : x \in Q \ {b} <=> x \in T /\ (x < p \/ d <= x)
      BY <3>1, <3>2
    <3> QED BY <1>2, <3>3 DEF Outside
  <2>6. Bit1(h3.mem[p])
    <3>2. Tags(h3.mem, B, w, A)
      BY <1>19 DEF Partly
    <3>3. CASE p = 1
      BY <3>2, <3>3 DEF Tags
    <3>4. CASE p # 1
      <4>1. PICK x \in B : x + w[x] = p
        BY <1>2, <1>6, <1>10, <3>4 DEF Layout
      <4>2. x \in A
        BY <1>1, <1>2, <1>11, <4>1 DEF Tags
      <4> QED BY <3>2, <4>1, <4>2 DEF Tags
    <3> QED BY <3>3, <3>4
  <2>7. /\ Large(k, B, w, A) /\ Around(k, B, w, A, b) /\ p \in B \ A
    BY <1>2, <1>10
  <2>8. Freed(h3, g, w, A)
    BY <1>10, <1>11, <1>19, <1>20, <2>1, <2>2, <2>4, <2>5, <2>6, <2>7, MergedOk
  <2> QED BY <1>2, <1>19, <2>8, FreedAgain
<1> QED BY <1>23, <1>24

LEMMA FreeOk ==
  ASSUME NEW h, NEW B, NEW w, NEW A, HeapOk(h, B, w, A), NEW b \in A
  PROVE  Freed(h, free(h, b + 1), w, A \ {b})
<1>1. /\ Consistent(h, B, w, A) /\ Merged(h.brk, B, w, A) /\ Large(h.brk, B, w, A)
      /\ A \in SUBSET B
  BY DEF HeapOk, Consistent
<1>2. PICK D : D = A \ {b}
  OBVIOUS
<1>3. PICK g : /\ Consistent(g, B, w, A \ {b}) /\ g.brk = h.brk
               /\ Kept(h.mem, g.mem, w, A \ {b})
               /\ free(h, b + 1) = coalesce(g, b)
  BY <1>1, MarkedIs
<1>4. b \in B \ D /\ w[b] >= 8
  BY <1>1, <1>2 DEF Large
<1>5. Around(g.brk, B, w, D, b)
  <2> SUFFICES ASSUME NEW x \in B \ D, x # b, x + w[x] # h.brk - 1
               PROVE  x + w[x] \in D \cup {b}
    BY <1>3 DEF Around
  <2>1. x \in B \ A
    BY <1>2
  <2> QED BY <1>1, <1>2, <2>1 DEF Merged
<1>6. Large(g.brk, B, w, D)
  <2>1. \A x \in D : w[x] >= 8
    BY <1>1, <1>2 DEF Large
  <2>2. ASSUME NEW x \in B \ D, x + w[x] = h.brk - 1 PROVE x = 1 \/ w[x] >= 8
    <3>1. x = b \/ x \in B \ A
      BY <1>2
    <3> QED BY <1>1, <1>4, <2>2, <3>1 DEF Large
  <2> QED BY <1>3, <2>1, <2>2 DEF Large
<1>7. Freed(g, coalesce(g, b), w, D)
  BY <1>2, <1>3, <1>4, <1>5, <1>6, CoalesceOk
<1> QED BY <1>2, <1>3, <1>7, FreedAgain

\* Only words of block b other than its header have changed.
Written(h, g, w, b) ==
  /\ g \in HeapType /\ g.brk = h.brk /\ g.free_block_pointer = h.free_block_pointer
  /\ \A a \in Address : a \notin (b + 1) .. (b + w[b] - 1) => g.mem[a] = h.mem[a]

LEMMA WriteOk ==
  ASSUME NEW h, NEW B, NEW w, NEW A, HeapOk(h, B, w, A), NEW b \in A,
         NEW g, Written(h, g, w, b)
  PROVE  HeapOk(g, B, w, A) /\ Kept(h.mem, g.mem, w, A \ {b})
<1>1. /\ h \in HeapType /\ Layout(h.brk, B, w) /\ A \in SUBSET B
      /\ Tags(h.mem, B, w, A) /\ Chain(h, B \ A)
      /\ Merged(h.brk, B, w, A) /\ Large(h.brk, B, w, A)
  BY DEF HeapOk, Consistent
<1>2. /\ g \in HeapType /\ g.brk = h.brk /\ g.free_block_pointer = h.free_block_pointer
      /\ \A a \in Address : a \notin (b + 1) .. (b + w[b] - 1) => g.mem[a] = h.mem[a]
  BY DEF Written
<1>3. \A a \in TagWords(h.brk, B, w, A) : g.mem[a] = h.mem[a]
  <2> TAKE a \in TagWords(h.brk, B, w, A)
  <2>1. a \in Address
    BY <1>1, LinksAreNoTags
  <2>2. a \notin (b + 1) .. (b + w[b] - 1)
    BY <1>1, PayloadApart
  <2> QED BY <1>2, <2>1, <2>2
<1>4. Tags(g.mem, B, w, A)
  BY <1>1, <1>3, TagsSame
<1>5. Apart(B \ A)
  BY <1>1, BlocksAreApart
<1>6. \A a \in LinkWords(B \ A) : g.mem[a] = h.mem[a]
  <2> TAKE a \in LinkWords(B \ A)
  <2>1. a \in Address
    BY <1>5 DEF Apart, LinkWords
  <2>2. a \notin (b + 1) .. (b + w[b] - 1)
    BY <1>1, PayloadApart
  <2> QED BY <1>2, <2>1, <2>2
<1>7. Chain(g, B \ A)
  BY <1>1, <1>2, <1>5, <1>6, ChainKept
<1>8. Kept(h.mem, g.mem, w, A \ {b})
  <2> SUFFICES ASSUME NEW c \in A \ {b}, NEW a \in (c + 1) .. (c + w[c] - 1)
               PROVE  g.mem[a] = h.mem[a]
    BY DEF Kept
  <2>1. a \in Address
    BY <1>1, PayloadApart
  <2>2. a \notin (b + 1) .. (b + w[b] - 1)
    <3>1. /\ b \in B /\ c \in B /\ b # c /\ b \in Nat /\ c \in Nat /\ w[b] \in Nat /\ w[c] \in Nat
      BY <1>1, InHeap
    <3>2. b + w[b] <= c \/ c + w[c] <= b
      BY <1>1, <3>1, BlocksApart
    <3> QED BY <3>1, <3>2
  <2> QED BY <1>2, <2>1, <2>2
<1> QED BY <1>1, <1>2, <1>4, <1>7, <1>8 DEF HeapOk, Consistent

\* The first heap: one free block.
LEMMA InitOk ==
  \E w : HeapOk(mm_init, {1}, w, {})
<1>1. PICK n \in Nat : InitialSize = 8 * n /\ n % 2 = 0 /\ n >= 4
  <2>1. PICK q \in Nat : q = InitialSize \div 16
    BY AllocatorAssumption
  <2>2. InitialSize = 16 * q /\ q >= 2
    BY <2>1, AllocatorAssumption
  <2>3. PICK n \in Nat : n = 2 * q
    OBVIOUS
  <2>4. n % 2 = 0
    BY <2>3
  <2> QED BY <2>2, <2>3, <2>4
<1>2. PICK k : k = n + 2
  OBVIOUS
<1>3. /\ k \in Nat /\ k % 2 = 0 /\ 8 * k <= MaxHeap /\ k - 2 = n /\ k - 1 = n + 1
      /\ (InitialSize + 16) \div 8 = k
  <2>1. InitialSize + 16 = 8 * k
    BY <1>1, <1>2
  <2>2. 8 * k <= MaxHeap
    BY <2>1, AllocatorAssumption
  <2> QED BY <1>1, <1>2, <2>1, <2>2
<1>4. \A a \in Nat : a < k => a \in Address
  <2>1. k <= MaxHeap \div 8
    BY <1>3, AllocatorAssumption
  <2> QED BY <1>3, <2>1, AllocatorAssumption DEF Address
<1>5. PICK w : w = [x \in Nat |-> n]
  OBVIOUS
<1>6. PICK x : x = Toggle1(8 * n)
  OBVIOUS
<1>7. /\ x \in Nat /\ SizeIn(x) = 8 * n /\ ~ Bit0(x) /\ Bit1(x) /\ ~ Bit1(1)
  <2>1. x = 8 * n + 2
    BY <1>1, <1>6, NewWords
  <2>2. SizeIn(8 * n + 2) = 8 * n /\ ~ Bit0(8 * n + 2) /\ Bit1(8 * n + 2)
    BY <1>1, NewWords
  <2>3. ~ Bit1(4 * 0 + 1)
    BY WordOf
  <2> QED BY <1>1, <2>1, <2>2, <2>3
<1>8. PICK m : m = [[a \in Address |-> 0] EXCEPT ![0] = 1, ![1] = x, ![n] = 8 * n, ![n + 1] = 1]
  OBVIOUS
<1>9. /\ m \in [Address -> Nat] /\ m[1] = x /\ m[n] = 8 * n /\ m[n + 1] = 1 /\ m[2] = 0 /\ m[3] = 0
  <2>1. 1 \in Address /\ 2 \in Address /\ 3 \in Address /\ n \in Address /\ n + 1 \in Address
    BY <1>1, <1>2, <1>4
  <2> QED BY <1>1, <1>7, <1>8, <2>1
<1>10. /\ mm_init \in HeapType /\ mm_init.mem = m /\ mm_init.brk = k
       /\ mm_init.free_block_pointer = 1
  <2>1. mm_sbrk(Empty, InitialSize + 16) =
          [mem |-> [a \in Address |-> 0], brk |-> k, free_block_pointer |-> NULL]
    BY <1>3 DEF mm_sbrk, Empty
  <2>2. PICK h : h = mm_sbrk(Empty, InitialSize + 16)
    OBVIOUS
  <2>3. h.mem = [a \in Address |-> 0] /\ h.brk = k /\ h \in HeapType
    BY <1>3, <2>1, <2>2 DEF HeapType, NULL
  <2>4. m = [h.mem EXCEPT ![0] = 1, ![1] = Toggle1(InitialSize),
                          ![h.brk - 2] = InitialSize, ![h.brk - 1] = 1]
    BY <1>1, <1>3, <1>6, <1>8, <2>3
  <2>5. mm_init = [h EXCEPT !.mem = m, !.free_block_pointer = 1]
    BY <2>2, <2>4 DEF mm_init
  <2> QED BY <1>9, <2>3, <2>5 DEF HeapType
<1>12. Layout(k, {1}, w)
  <2>1. Even(k) /\ Even(n) /\ Even(1 + 1)
    BY <1>1, <1>3, EvenFacts DEF Even
  <2>2. w[1] = n /\ w \in [Nat -> Nat] /\ 1 + n = k - 1
    BY <1>1, <1>3, <1>5
  <2> QED BY <1>1, <1>3, <2>1, <2>2 DEF Layout
<1>13. Tags(m, {1}, w, {})
  <2>1. w[1] = n /\ 1 + n = n + 1 /\ 1 + n - 1 = n
    BY <1>1, <1>5
  <2> QED BY <1>7, <1>9, <2>1 DEF Tags
<1>14. Chain(mm_init, {1})
  <2>1. PICK F : F = <<1>>
    OBVIOUS
  <2>2. F \in Seq({1}) /\ Len(F) = 1 /\ F[1] = 1
    BY <2>1
  <2>3. Lists(F, {1})
    BY <2>2 DEF Lists
  <2>4. Nth(F, 1) = 1 /\ Nth(F, 0) = NULL /\ Nth(F, 2) = NULL
    BY <2>2 DEF Nth
  <2>5. Linked(m, 1, F)
    BY <1>9, <2>2, <2>4 DEF Linked, NULL
  <2> QED BY <1>10, <2>3, <2>5 DEF Chain
<1>15. Merged(k, {1}, w, {}) /\ Large(k, {1}, w, {})
  BY <1>1, <1>3, <1>5 DEF Merged, Large
<1>16. {1} \ {} = {1} /\ {} \in SUBSET {1}
  OBVIOUS
<1> QED BY <1>10, <1>12, <1>13, <1>14, <1>15, <1>16 DEF HeapOk, Consistent

-----------------------------------------------------------------------------
(* The client.                                                             *)

\* The client holds the blocks of A, each once, and each has room for what it
\* asked for.
LiveOk(L, w, A) ==
  /\ \A l \in L : /\ l.ptr \in Nat /\ l.size \in Nat /\ l.value \in Nat /\ l.size > 0
                  /\ \E b \in A : l.ptr = b + 1 /\ l.size + 8 <= 8 * w[b]
  /\ \A l, k \in L : l.ptr = k.ptr => l = k
  /\ \A b \in A : \E l \in L : l.ptr = b + 1

\* What is known of the words at the beginning of blocks of L.
Claims(m, K, L) ==
  \A k \in K : /\ k.size \in Nat
               /\ \E l \in L : l.ptr = k.ptr /\ k.size <= l.size
               /\ \A a \in Words(k) : m[a] = k.value

Good(h, L, K) ==
  \E B, w, A : HeapOk(h, B, w, A) /\ LiveOk(L, w, A) /\ Claims(h.mem, K, L)

LEMMA WordsFit ==
  ASSUME NEW s \in Nat, NEW t \in Nat, s <= t
  PROVE  /\ WordsOf(s) \in Nat /\ WordsOf(t) \in Nat /\ WordsOf(s) <= WordsOf(t)
         /\ s > 0 => WordsOf(s) >= 1
         /\ WordsOf(0) = 0
         /\ \A n \in Nat : t + 8 <= 8 * n => WordsOf(s) + 1 <= n
         /\ \A n \in Nat : t <= 8 * n => WordsOf(s) <= n
<1>1. PICK p, q \in Nat : p = (s + 7) \div 8 /\ q = (t + 7) \div 8
  OBVIOUS
<1>2. 8 * p <= s + 7 /\ s + 7 < 8 * p + 8 /\ 8 * q <= t + 7 /\ t + 7 < 8 * q + 8
  BY <1>1
<1>3. p <= q /\ (s > 0 => p >= 1)
  BY <1>2
<1>4. \A n \in Nat : t + 8 <= 8 * n => p + 1 <= n
  BY <1>2
<1>5. \A n \in Nat : t <= 8 * n => p <= n
  BY <1>2
<1>6. WordsOf(0) = 0
  BY DEF WordsOf
<1> QED BY <1>1, <1>3, <1>4, <1>5, <1>6 DEF WordsOf

\* Where the words are that a claim is about.
LEMMA ClaimIs ==
  ASSUME NEW h, NEW B, NEW w, NEW A, HeapOk(h, B, w, A), NEW L, LiveOk(L, w, A),
         NEW m, NEW K, Claims(m, K, L), NEW k \in K
  PROVE  \E b \in A : k.ptr = b + 1 /\ Words(k) \in SUBSET ((b + 1) .. (b + w[b] - 1))
<1>1. PICK l \in L : k.size \in Nat /\ l.ptr = k.ptr /\ k.size <= l.size
  BY DEF Claims
<1>2. PICK b \in A : l.ptr = b + 1 /\ l.size + 8 <= 8 * w[b] /\ l.size \in Nat
  BY DEF LiveOk
<1>3. b \in Nat /\ w[b] \in Nat
  BY InHeap DEF HeapOk, Consistent
<1>4. WordsOf(k.size) \in Nat /\ WordsOf(k.size) + 1 <= w[b]
  BY <1>1, <1>2, <1>3, WordsFit
<1>5. Words(k) = (b + 1) .. (b + 1 + WordsOf(k.size) - 1)
  BY <1>1, <1>2 DEF Words
<1> QED BY <1>1, <1>2, <1>3, <1>4, <1>5

\* A block of the client holds what it asked for.
LEMMA LiveIs ==
  ASSUME NEW h, NEW B, NEW w, NEW A, HeapOk(h, B, w, A), NEW L, LiveOk(L, w, A), NEW l \in L
  PROVE  \E b \in A : /\ l.ptr = b + 1 /\ l.size + 8 <= 8 * w[b]
                      /\ Words(l) \in SUBSET ((b + 1) .. (b + w[b] - 1))
                      /\ Words(l) \in SUBSET Address
                      /\ b \in Nat /\ w[b] \in Nat /\ b >= 1
<1>1. PICK b \in A : l.ptr = b + 1 /\ l.size + 8 <= 8 * w[b] /\ l.size \in Nat
  BY DEF LiveOk
<1>2. Layout(h.brk, B, w) /\ A \in SUBSET B
  BY DEF HeapOk, Consistent
<1>3. b \in Nat /\ w[b] \in Nat /\ b >= 1
  BY <1>2, InHeap DEF Layout
<1>4. WordsOf(l.size) \in Nat /\ WordsOf(l.size) + 1 <= w[b]
  BY <1>1, <1>3, WordsFit
<1>5. Words(l) = (b + 1) .. (b + 1 + WordsOf(l.size) - 1)
  BY <1>1 DEF Words
<1>6. Words(l) \in SUBSET ((b + 1) .. (b + w[b] - 1))
  BY <1>3, <1>4, <1>5
<1>7. Words(l) \in SUBSET Address
  BY <1>2, <1>6, PayloadApart
<1> QED BY <1>1, <1>3, <1>6, <1>7

\* The block that k is about is one of S.
About(k, A, S) == \A b \in A : k.ptr = b + 1 => b \in S

\* Claims about blocks whose words are kept stay true.
LEMMA ClaimsKept ==
  ASSUME NEW h, NEW B, NEW w, NEW A, HeapOk(h, B, w, A), NEW L, LiveOk(L, w, A),
         NEW m, NEW K, Claims(m, K, L), NEW S, NEW n, Kept(m, n, w, S),
         NEW k \in K, About(k, A, S)
  PROVE  \A a \in Words(k) : n[a] = k.value
<1>1. PICK b \in A : k.ptr = b + 1 /\ Words(k) \in SUBSET ((b + 1) .. (b + w[b] - 1))
  BY ClaimIs
<1>2. b \in S
  BY <1>1 DEF About
<1>3. \A a \in Words(k) : n[a] = m[a]
  BY <1>1, <1>2 DEF Kept
<1> QED BY <1>3 DEF Claims

LEMMA AllClaimsKept ==
  ASSUME NEW h, NEW B, NEW w, NEW A, HeapOk(h, B, w, A), NEW L, LiveOk(L, w, A),
         NEW m, NEW K, Claims(m, K, L), NEW n, Kept(m, n, w, A)
  PROVE  \A k \in K : \A a \in Words(k) : n[a] = k.value
<1> TAKE k \in K
<1>1. PICK b \in A : k.ptr = b + 1 /\ Words(k) \in SUBSET ((b + 1) .. (b + w[b] - 1))
  BY ClaimIs
<1>2. \A a \in Words(k) : n[a] = m[a]
  BY <1>1 DEF Kept
<1> QED BY <1>2 DEF Claims

LEMMA MallocGood ==
  ASSUME NEW h, NEW L, NEW K, Good(h, L, K),
         NEW size \in Nat, size > 40, size + 23 < SizeRange, NEW value \in Nat,
         NEW r, r = malloc(h, size), r.ptr # NULL,
         NEW l, l.ptr = r.ptr, l.size = size, l.value = value
  PROVE  Good(r.heap, L \cup {l}, K) /\ \A k \in L : k.ptr # l.ptr
<1>1. PICK B, w, A : HeapOk(h, B, w, A) /\ LiveOk(L, w, A) /\ Claims(h.mem, K, L)
  BY DEF Good
<1>2. PICK p, n \in Nat : /\ p >= 1 /\ r.ptr = p + 1 /\ size + 8 <= 8 * n
                          /\ Allocates(h, w, A, r.heap, p, n)
  BY <1>1, MallocOk
<1>3. PICK C, v : /\ HeapOk(r.heap, C, v, A \cup {p}) /\ p \notin A /\ v[p] >= n
                  /\ \A x \in A : v[x] = w[x]
                  /\ Kept(h.mem, r.heap.mem, w, A)
  BY <1>2 DEF Allocates
<1>4. v[p] \in Nat /\ p \in Nat /\ \A b \in A : b \in Nat
  <2>1. Layout(r.heap.brk, C, v) /\ A \cup {p} \in SUBSET C
    BY <1>3 DEF HeapOk, Consistent
  <2> QED BY <2>1, InHeap
<1>5. \A k \in L : k.ptr # l.ptr
  <2> SUFFICES ASSUME NEW k \in L, k.ptr = l.ptr PROVE FALSE
    OBVIOUS
  <2>1. PICK b \in A : k.ptr = b + 1
    BY <1>1 DEF LiveOk
  <2> QED BY <1>2, <1>3, <1>4, <2>1
<1>6. LiveOk(L \cup {l}, v, A \cup {p})
  <2>1. /\ l.ptr \in Nat /\ l.size \in Nat /\ l.value \in Nat /\ l.size > 0
        /\ l.ptr = p + 1 /\ l.size + 8 <= 8 * v[p]
    BY <1>2, <1>3, <1>4
  <2>2. \A k \in L : /\ k.ptr \in Nat /\ k.size \in Nat /\ k.value \in Nat /\ k.size > 0
                     /\ \E b \in A : k.ptr = b + 1 /\ k.size + 8 <= 8 * v[b]
    BY <1>1, <1>3 DEF LiveOk
  <2>3. \A j, k \in L : j.ptr = k.ptr => j = k
    BY <1>1 DEF LiveOk
  <2>4. \A b \in A : \E k \in L : k.ptr = b + 1
    BY <1>1 DEF LiveOk
  <2>5. \A k \in L \cup {l} : /\ k.ptr \in Nat /\ k.size \in Nat /\ k.value \in Nat /\ k.size > 0
                              /\ \E b \in A \cup {p} : k.ptr = b + 1 /\ k.size + 8 <= 8 * v[b]
    BY <2>1, <2>2
  <2>6. \A j, k \in L \cup {l} : j.ptr = k.ptr => j = k
    BY <1>5, <2>3
  <2>7. \A b \in A \cup {p} : \E k \in L \cup {l} : k.ptr = b + 1
    BY <2>1, <2>4
  <2> QED BY <2>5, <2>6, <2>7 DEF LiveOk
<1>7. Claims(r.heap.mem, K, L \cup {l})
  <2>1. \A k \in K : \A a \in Words(k) : r.heap.mem[a] = k.value
    BY <1>1, <1>3, AllClaimsKept
  <2> QED BY <1>1, <2>1 DEF Claims
<1> QED BY <1>3, <1>5, <1>6, <1>7 DEF Good

LEMMA FewerClaims ==
  ASSUME NEW h, NEW L, NEW K, Good(h, L, K), NEW J \in SUBSET K
  PROVE  Good(h, L, J)
BY DEF Good, Claims

LEMMA AddClaim ==
  ASSUME NEW h, NEW L, NEW K, Good(h, L, K), NEW l \in L,
         NEW k, k.ptr = l.ptr, k.size \in Nat, k.size <= l.size,
         \A a \in Words(k) : h.mem[a] = k.value
  PROVE  Good(h, L, K \cup {k})
BY DEF Good, Claims

LEMMA FreeGood ==
  ASSUME NEW h, NEW L, NEW K, Good(h, L, K), NEW l \in L
  PROVE  Good(free(h, l.ptr), L \ {l}, {k \in K : k.ptr # l.ptr})
<1>1. PICK B, w, A : HeapOk(h, B, w, A) /\ LiveOk(L, w, A) /\ Claims(h.mem, K, L)
  BY DEF Good
<1>2. PICK b \in A : l.ptr = b + 1
  BY <1>1 DEF LiveOk
<1>3. PICK g, D, J : g = free(h, l.ptr) /\ D = A \ {b} /\ J = {k \in K : k.ptr # l.ptr}
  OBVIOUS
<1>4. Freed(h, g, w, A \ {b})
  BY <1>1, <1>2, <1>3, FreeOk
<1>5. PICK C, v : HeapOk(g, C, v, D) /\ (\A x \in D : v[x] = w[x]) /\ Kept(h.mem, g.mem, w, D)
  BY <1>3, <1>4 DEF Freed
<1>6. \A x \in A : x \in Nat
  BY <1>1, InHeap DEF HeapOk, Consistent
<1>7. LiveOk(L \ {l}, v, D)
  <2>1. ASSUME NEW k \in L \ {l}
        PROVE  /\ k.ptr \in Nat /\ k.size \in Nat /\ k.value \in Nat /\ k.size > 0
               /\ \E x \in D : k.ptr = x + 1 /\ k.size + 8 <= 8 * v[x]
    <3>1. /\ k.ptr \in Nat /\ k.size \in Nat /\ k.value \in Nat /\ k.size > 0 /\ k.ptr # l.ptr
      BY <1>1 DEF LiveOk
    <3>2. PICK x \in A : k.ptr = x + 1 /\ k.size + 8 <= 8 * w[x]
      BY <1>1 DEF LiveOk
    <3>3. x \in D
      BY <1>2, <1>3, <3>1, <3>2
    <3> QED BY <1>5, <3>1, <3>2, <3>3
  <2>2. \A x \in D : \E k \in L \ {l} : k.ptr = x + 1
    <3> TAKE x \in D
    <3>1. PICK k \in L : k.ptr = x + 1
      BY <1>1, <1>3 DEF LiveOk
    <3>2. k # l
      BY <1>2, <1>3, <1>6, <3>1
    <3> QED BY <3>1, <3>2
  <2>3. \A j, k \in L \ {l} : j.ptr = k.ptr => j = k
    BY <1>1 DEF LiveOk
  <2> QED BY <2>1, <2>2, <2>3 DEF LiveOk
<1>8. Claims(g.mem, J, L \ {l})
  <2> SUFFICES ASSUME NEW k \in J
               PROVE  /\ k.size \in Nat
                      /\ \E j \in L \ {l} : j.ptr = k.ptr /\ k.size <= j.size
                      /\ \A a \in Words(k) : g.mem[a] = k.value
    BY DEF Claims
  <2>1. k \in K /\ k.ptr # l.ptr
    BY <1>3
  <2>2. k.size \in Nat /\ \E j \in L \ {l} : j.ptr = k.ptr /\ k.size <= j.size
    BY <1>1, <2>1 DEF Claims
  <2>3. About(k, A, D)
    BY <1>2, <1>3, <2>1 DEF About
  <2>4. \A a \in Words(k) : g.mem[a] = k.value
    BY <1>1, <1>5, <2>1, <2>3, ClaimsKept
  <2> QED BY <2>2, <2>4
<1> QED BY <1>3, <1>5, <1>7, <1>8 DEF Good

\* The client, or memcpy and memset for it, write into the words W of a block.
WrittenIn(h, g, W) ==
  /\ g \in HeapType /\ g.brk = h.brk /\ g.free_block_pointer = h.free_block_pointer
  /\ \A a \in Address : a \notin W => g.mem[a] = h.mem[a]

LEMMA WriteGood ==
  ASSUME NEW h, NEW L, NEW K, Good(h, L, K), NEW l \in L, NEW W \in SUBSET Words(l),
         NEW g, WrittenIn(h, g, W),
         NEW J \in SUBSET K, \A k \in J : k.ptr # l.ptr \/ Words(k) \cap W = {}
  PROVE  Good(g, L, J)
<1>1. PICK B, w, A : HeapOk(h, B, w, A) /\ LiveOk(L, w, A) /\ Claims(h.mem, K, L)
  BY DEF Good
<1>2. PICK b \in A : l.ptr = b + 1 /\ Words(l) \in SUBSET ((b + 1) .. (b + w[b] - 1))
  BY <1>1, LiveIs
<1>3. Written(h, g, w, b)
  BY <1>2 DEF Written, WrittenIn
<1>4. HeapOk(g, B, w, A) /\ Kept(h.mem, g.mem, w, A \ {b})
  BY <1>1, <1>3, WriteOk
<1>5. Claims(g.mem, J, L)
  <2> SUFFICES ASSUME NEW k \in J PROVE \A a \in Words(k) : g.mem[a] = k.value
    BY <1>1 DEF Claims
  <2>1. CASE k.ptr # l.ptr
    <3>1. About(k, A, A \ {b})
      BY <1>2, <2>1 DEF About
    <3> QED BY <1>1, <1>4, <3>1, ClaimsKept
  <2>2. CASE k.ptr = l.ptr
    <3>1. Words(k) \cap W = {}
      BY <2>2
    <3>2. PICK x \in A : k.ptr = x + 1 /\ Words(k) \in SUBSET ((x + 1) .. (x + w[x] - 1))
      BY <1>1, ClaimIs
    <3>3. \A a \in Words(k) : a \in Address
      BY <1>1, <3>2, PayloadApart DEF HeapOk, Consistent
    <3>4. \A a \in Words(k) : g.mem[a] = h.mem[a]
      BY <3>1, <3>3 DEF WrittenIn
    <3> QED BY <1>1, <3>4 DEF Claims
  <2> QED BY <2>1, <2>2
<1> QED BY <1>1, <1>4, <1>5 DEF Good

LEMMA GoodFacts ==
  ASSUME NEW h, NEW L, NEW K, Good(h, L, K)
  PROVE  /\ h \in HeapType
         /\ \A k \in K : \A a \in Words(k) : h.mem[a] = k.value
         /\ \A l \in L : /\ l.ptr \in Nat /\ l.ptr # NULL /\ l.size \in Nat /\ l.size > 0 /\ l.value \in Nat
                         /\ Words(l) \in SUBSET Address
<1>1. PICK B, w, A : HeapOk(h, B, w, A) /\ LiveOk(L, w, A) /\ Claims(h.mem, K, L)
  BY DEF Good
<1>2. h \in HeapType
  BY <1>1 DEF HeapOk, Consistent
<1>3. \A k \in K : \A a \in Words(k) : h.mem[a] = k.value
  BY <1>1 DEF Claims
<1>4. ASSUME NEW l \in L
      PROVE  /\ l.ptr \in Nat /\ l.ptr # NULL /\ l.size \in Nat /\ l.size > 0 /\ l.value \in Nat
             /\ Words(l) \in SUBSET Address
  <2>1. l.ptr \in Nat /\ l.size \in Nat /\ l.size > 0 /\ l.value \in Nat
    BY <1>1 DEF LiveOk
  <2>2. Words(l) \in SUBSET Address /\ l.ptr # NULL
    <3>1. PICK b \in A : l.ptr = b + 1 /\ Words(l) \in SUBSET Address /\ b \in Nat
      BY <1>1, LiveIs
    <3> QED BY <3>1 DEF NULL
  <2> QED BY <2>1, <2>2
<1> QED BY <1>2, <1>3, <1>4

\* g is h after value has been written into the words of W.
IsSet(h, g, W, value) ==
  WrittenIn(h, g, W) /\ \A a \in Address : a \in W => g.mem[a] = value

LEMMA SetIs ==
  ASSUME NEW h \in HeapType, NEW from \in Nat, NEW n \in Nat, NEW value \in Nat
  PROVE  IsSet(h, Set(h, from, n, value), from .. (from + n - 1), value)
<1>. PICK g : g = Set(h, from, n, value)
  OBVIOUS
<1>1. PICK W : W = from .. (from + n - 1)
  OBVIOUS
<1>2. PICK m : m = [a \in Address |-> IF a \in W THEN value ELSE h.mem[a]]
  OBVIOUS
<1>3. g = [h EXCEPT !.mem = m]
  BY <1>1, <1>2 DEF Set
<1>4. m \in [Address -> Nat] /\ \A a \in Address : m[a] = IF a \in W THEN value ELSE h.mem[a]
  BY <1>2 DEF HeapType
<1>5. /\ g \in HeapType /\ g.mem = m /\ g.brk = h.brk /\ g.free_block_pointer = h.free_block_pointer
  BY <1>3, <1>4 DEF HeapType
<1> QED BY <1>1, <1>4, <1>5 DEF WrittenIn, IsSet

\* g is h after n words have been copied.
IsCopied(h, g, to, from, n) ==
  /\ WrittenIn(h, g, to .. (to + n - 1))
  /\ \A i \in Nat : i < n /\ to + i \in Address => g.mem[to + i] = h.mem[from + i]

Readable(from, n) == \A i \in Nat : i < n => from + i \in Address

LEMMA CopyIs ==
  ASSUME NEW h \in HeapType, NEW to \in Nat, NEW from \in Nat, NEW bytes, WordsOf(bytes) \in Nat,
         Readable(from, WordsOf(bytes))
  PROVE  IsCopied(h, Copy(h, to, from, bytes), to, from, WordsOf(bytes))
<1>. PICK g : g = Copy(h, to, from, bytes)
  OBVIOUS
<1>0. \A i \in Nat : i < WordsOf(bytes) => from + i \in Address
  BY DEF Readable
<1>1. PICK W : W = to .. (to + WordsOf(bytes) - 1)
  OBVIOUS
<1>2. PICK m : m = [a \in Address |-> IF a \in W THEN h.mem[from + a - to] ELSE h.mem[a]]
  OBVIOUS
<1>3. g = [h EXCEPT !.mem = m]
  BY <1>1, <1>2 DEF Copy
<1>4. \A a \in W : \E i \in Nat : i < WordsOf(bytes) /\ a = to + i /\ from + a - to = from + i
  <2> TAKE a \in W
  <2>1. a - to \in Nat /\ a - to < WordsOf(bytes) /\ a = to + (a - to)
    BY <1>1
  <2> QED BY <2>1
<1>5. \A a \in Address : m[a] = IF a \in W THEN h.mem[from + a - to] ELSE h.mem[a]
  BY <1>2
<1>6. m \in [Address -> Nat]
  <2>1. \A a \in W : h.mem[from + a - to] \in Nat
    <3> TAKE a \in W
    <3>1. from + a - to \in Address
      BY <1>0, <1>4
    <3> QED BY <3>1 DEF HeapType
  <2>2. \A a \in Address : m[a] \in Nat
    BY <1>5, <2>1 DEF HeapType
  <2> QED BY <1>2, <2>2
<1>7. /\ g \in HeapType /\ g.mem = m /\ g.brk = h.brk /\ g.free_block_pointer = h.free_block_pointer
  BY <1>3, <1>6 DEF HeapType
<1>8. ASSUME NEW i \in Nat, i < WordsOf(bytes), to + i \in Address
      PROVE  m[to + i] = h.mem[from + i]
  <2>1. to + i \in W
    BY <1>1, <1>8
  <2>2. from + (to + i) - to = from + i
    OBVIOUS
  <2> QED BY <1>5, <1>8, <2>1, <2>2
<1>9. WrittenIn(h, g, W)
  BY <1>5, <1>7 DEF WrittenIn
<1> QED BY <1>1, <1>7, <1>8, <1>9 DEF IsCopied

LEMMA FillGood ==
  ASSUME NEW h, NEW L, NEW K, Good(h, L, K), NEW l \in L, NEW n \in Nat,
         NEW r, r.heap = h, r.ptr = l.ptr,
         \A a \in Words(l) : a < l.ptr + n => h.mem[a] = l.value,
         NEW g, g = Fill(r, n, l.size, l.value)
  PROVE  Good(g, L, {k \in K : k.ptr # l.ptr} \cup {l})
<1>1. PICK J : J = {k \in K : k.ptr # l.ptr}
  OBVIOUS
<1>2. /\ h \in HeapType /\ l.ptr \in Nat /\ l.ptr # NULL /\ l.size \in Nat /\ l.value \in Nat
      /\ Words(l) \in SUBSET Address
  BY GoodFacts
<1>3. PICK s \in Nat : s = WordsOf(l.size)
  BY <1>2, WordsFit
<1>4. Words(l) = l.ptr .. (l.ptr + s - 1)
  BY <1>3 DEF Words
<1>5. J \in SUBSET K
  BY <1>1
<1>6. CASE n >= s
  <2>1. g = h
    BY <1>3, <1>6 DEF Fill
  <2>2. \A a \in Words(l) : h.mem[a] = l.value
    BY <1>2, <1>3, <1>4, <1>6
  <2>3. Good(g, L, J)
    BY <1>5, <2>1, FewerClaims
  <2>4. l.size <= l.size
    BY <1>2
  <2> QED BY <1>1, <1>2, <2>1, <2>2, <2>3, <2>4, AddClaim
<1>7. CASE n < s
  <2>1. PICK i \in Nat : i = s - n
    BY <1>3, <1>7
  <2>2. PICK p \in Nat : p = l.ptr + n
    BY <1>2
  <2>3. g = Set(h, p, i, l.value)
    <3>1. ~ (n >= WordsOf(l.size)) /\ r.ptr # NULL
      BY <1>2, <1>3, <1>7
    <3> QED BY <1>3, <2>1, <2>2, <3>1 DEF Fill
  <2>4. PICK W : W = p .. (p + i - 1)
    OBVIOUS
  <2>5. WrittenIn(h, g, W) /\ \A a \in Address : a \in W => g.mem[a] = l.value
    <3>1. IsSet(h, g, p .. (p + i - 1), l.value)
      BY <1>2, <2>3, SetIs
    <3> QED BY <2>4, <3>1 DEF IsSet
  <2>6. \A a \in Nat : /\ a \in W <=> l.ptr + n <= a /\ a < l.ptr + s
                       /\ a \in Words(l) <=> l.ptr <= a /\ a < l.ptr + s
    <3>1. p + i = l.ptr + s
      BY <1>2, <1>3, <2>1, <2>2
    <3>2. \A a \in Nat : a \in W <=> p <= a /\ a < p + i
      BY <2>4
    <3>3. \A a \in Nat : a \in Words(l) <=> l.ptr <= a /\ a < l.ptr + s
      BY <1>2, <1>3, <1>4
    <3> QED BY <2>2, <3>1, <3>2, <3>3
  <2>7. W \in SUBSET Words(l)
    <3>1. \A a \in W : a \in Nat
      BY <2>4
    <3>2. \A a \in Nat : l.ptr + n <= a => l.ptr <= a
      BY <1>2
    <3> QED BY <2>6, <3>1, <3>2
  <2>8. Good(g, L, J)
    <3>1. \A k \in J : k.ptr # l.ptr \/ Words(k) \cap W = {}
      BY <1>1
    <3> QED BY <1>5, <2>5, <2>7, <3>1, WriteGood
  <2>9. \A a \in Words(l) : g.mem[a] = l.value
    <3> TAKE a \in Words(l)
    <3>1. a \in Address /\ a \in Nat
      BY <1>2, <1>4
    <3>2. CASE a < l.ptr + n
      <4>1. a \notin W
        BY <1>2, <2>6, <3>1, <3>2
      <4> QED BY <2>5, <3>1, <3>2, <4>1 DEF WrittenIn
    <3>3. CASE ~ (a < l.ptr + n)
      <4>1. a \in W
        BY <1>2, <2>6, <3>1, <3>3
      <4> QED BY <2>5, <3>1, <4>1
    <3> QED BY <3>2, <3>3
  <2>10. l.size <= l.size
    BY <1>2
  <2> QED BY <1>1, <1>2, <2>8, <2>9, <2>10, AddClaim
<1> QED BY <1>3, <1>6, <1>7

LEMMA LiveRoom ==
  ASSUME NEW h, NEW L, NEW K, Good(h, L, K), NEW l \in L
  PROVE  \E n \in Nat : /\ Size(h, l.ptr - 1) = 8 * n /\ l.size + 8 <= 8 * n
                        /\ \A i \in Nat : i < n => l.ptr + i \in Address
<1>1. PICK B, w, A : HeapOk(h, B, w, A) /\ LiveOk(L, w, A) /\ Claims(h.mem, K, L)
  BY DEF Good
<1>2. PICK b \in A : l.ptr = b + 1 /\ l.size + 8 <= 8 * w[b] /\ b \in Nat /\ w[b] \in Nat
  BY <1>1, LiveIs
<1>3. /\ h \in HeapType /\ Layout(h.brk, B, w) /\ Tags(h.mem, B, w, A) /\ b \in B
  BY <1>1 DEF HeapOk, Consistent
<1>4. BlockIs(h, w, b)
  BY <1>3, TagValues
<1>5. l.ptr - 1 = b
  BY <1>2
<1>6. Size(h, l.ptr - 1) = 8 * w[b]
  BY <1>4, <1>5 DEF BlockIs
<1>7. ASSUME NEW i \in Nat, i < w[b] PROVE l.ptr + i \in Address
  <2>1. h.brk \in Nat /\ b + w[b] < h.brk
    BY <1>3, InHeap DEF Layout
  <2>2. l.ptr + i \in Nat /\ l.ptr + i < h.brk
    BY <1>2, <1>7, <2>1
  <2> QED BY <1>3, <2>2, InHeap
<1> QED BY <1>2, <1>6, <1>7

\* realloc's copy: the beginning of the new block l is that of the old one.
Start(l, old) == [ptr |-> l.ptr, size |-> IF l.size < old.size THEN l.size ELSE old.size,
                  value |-> l.value]

Copied(h, ptr, old, size) ==
  Copy(h, ptr, old, LET n == Size(h, old - 1) IN IF size > n THEN n ELSE size)

LEMMA CopyGood ==
  ASSUME NEW h, NEW L, NEW K, Good(h, L, K), NEW old \in K, old \in L,
         NEW l \in L, l.value = old.value, \A k \in K : k.ptr # l.ptr,
         NEW g, g = Copied(h, l.ptr, old.ptr, l.size)
  PROVE  Good(g, L, K \cup {Start(l, old)})
<1>1. /\ h \in HeapType /\ l.ptr \in Nat /\ l.size \in Nat /\ old.ptr \in Nat /\ old.size \in Nat
      /\ Words(l) \in SUBSET Address
      /\ \A a \in Words(old) : h.mem[a] = old.value
  BY GoodFacts
<1>2. PICK n \in Nat : /\ Size(h, old.ptr - 1) = 8 * n /\ old.size + 8 <= 8 * n
                       /\ \A i \in Nat : i < n => old.ptr + i \in Address
  BY LiveRoom
<1>3. PICK bytes \in Nat : /\ bytes = IF l.size > 8 * n THEN 8 * n ELSE l.size
                           /\ bytes <= l.size /\ bytes <= 8 * n
  BY <1>1, <1>2
<1>4. PICK k : k = Start(l, old)
  OBVIOUS
<1>5. /\ k.ptr = l.ptr /\ k.value = l.value /\ k.size \in Nat
      /\ k.size <= l.size /\ k.size <= old.size /\ k.size <= bytes
  BY <1>1, <1>2, <1>3, <1>4 DEF Start
<1>6. PICK s, t, u, v \in Nat : /\ s = WordsOf(bytes) /\ t = WordsOf(k.size)
                                /\ u = WordsOf(l.size) /\ v = WordsOf(old.size)
                                /\ s <= n /\ s <= u /\ t <= s /\ t <= v
  <2>1. /\ WordsOf(bytes) \in Nat /\ WordsOf(l.size) \in Nat /\ WordsOf(bytes) <= WordsOf(l.size)
    BY <1>1, <1>3, WordsFit
  <2>2. WordsOf(k.size) \in Nat /\ WordsOf(k.size) <= WordsOf(bytes)
    BY <1>3, <1>5, WordsFit
  <2>3. WordsOf(old.size) \in Nat /\ WordsOf(k.size) <= WordsOf(old.size)
    BY <1>1, <1>5, WordsFit
  <2>4. WordsOf(bytes) <= n
    <3>1. bytes <= bytes
      BY <1>3
    <3> QED BY <1>2, <1>3, <3>1, WordsFit
  <2> QED BY <2>1, <2>2, <2>3, <2>4
<1>7. /\ Words(l) = l.ptr .. (l.ptr + u - 1)
      /\ Words(old) = old.ptr .. (old.ptr + v - 1)
      /\ Words(k) = l.ptr .. (l.ptr + t - 1)
  BY <1>5, <1>6 DEF Words
<1>8. PICK W : W = l.ptr .. (l.ptr + s - 1)
  OBVIOUS
<1>b. \A a \in Nat : /\ a \in W <=> l.ptr <= a /\ a < l.ptr + s
                     /\ a \in Words(l) <=> l.ptr <= a /\ a < l.ptr + u
                     /\ a \in Words(old) <=> old.ptr <= a /\ a < old.ptr + v
                     /\ a \in Words(k) <=> l.ptr <= a /\ a < l.ptr + t
  <2>1. PICK p, o \in Nat : p = l.ptr /\ o = old.ptr
    BY <1>1
  <2>2. \A a \in Nat : /\ a \in p .. (p + s - 1) <=> p <= a /\ a < p + s
                       /\ a \in p .. (p + u - 1) <=> p <= a /\ a < p + u
                       /\ a \in o .. (o + v - 1) <=> o <= a /\ a < o + v
                       /\ a \in p .. (p + t - 1) <=> p <= a /\ a < p + t
    OBVIOUS
  <2> QED BY <1>7, <1>8, <2>1, <2>2
<1>9. /\ WrittenIn(h, g, W)
      /\ \A i \in Nat : i < s /\ l.ptr + i \in Address => g.mem[l.ptr + i] = h.mem[old.ptr + i]
  <2>1. g = Copy(h, l.ptr, old.ptr, bytes)
    BY <1>2, <1>3 DEF Copied
  <2>2. Readable(old.ptr, s)
    BY <1>2, <1>6 DEF Readable
  <2>3. IsCopied(h, Copy(h, l.ptr, old.ptr, bytes), l.ptr, old.ptr, WordsOf(bytes))
    BY <1>1, <1>6, <2>2, CopyIs
  <2>4. IsCopied(h, g, l.ptr, old.ptr, s)
    BY <1>6, <2>1, <2>3
  <2> QED BY <1>8, <2>4 DEF IsCopied
<1>10. Good(g, L, K)
  <2>1. W \in SUBSET Words(l)
    <3>1. \A a \in W : a \in Nat
      BY <1>1, <1>8
    <3>2. \A a \in Nat : a < l.ptr + s => a < l.ptr + u
      BY <1>1, <1>6
    <3> QED BY <1>b, <3>1, <3>2
  <2>2. \A j \in K : j.ptr # l.ptr \/ Words(j) \cap W = {}
    OBVIOUS
  <2>3. K \in SUBSET K
    OBVIOUS
  <2> QED BY <1>9, <2>1, <2>2, <2>3, WriteGood
<1>11. \A a \in Words(k) : g.mem[a] = k.value
  <2> TAKE a \in Words(k)
  <2>1. PICK i \in Nat : i < t /\ a = l.ptr + i
    <3>0. a \in Nat
      BY <1>1, <1>7
    <3>1. l.ptr <= a /\ a < l.ptr + t
      BY <1>b, <3>0
    <3>2. a - l.ptr \in Nat /\ a - l.ptr < t /\ a = l.ptr + (a - l.ptr)
      BY <1>1, <1>6, <3>0, <3>1
    <3> QED BY <3>2
  <2>2. l.ptr + i \in Words(l) /\ i < s
    <3>1. l.ptr + i \in Nat /\ l.ptr <= l.ptr + i /\ l.ptr + i < l.ptr + u /\ i < s
      BY <1>1, <1>6, <2>1
    <3> QED BY <1>b, <3>1
  <2>3. old.ptr + i \in Words(old)
    <3>1. old.ptr + i \in Nat /\ old.ptr <= old.ptr + i /\ old.ptr + i < old.ptr + v
      BY <1>1, <1>6, <2>1
    <3> QED BY <1>b, <3>1
  <2>4. g.mem[l.ptr + i] = h.mem[old.ptr + i]
    BY <1>1, <1>9, <2>2
  <2> QED BY <1>1, <1>5, <2>1, <2>3, <2>4
<1> QED BY <1>4, <1>5, <1>10, <1>11, AddClaim

-----------------------------------------------------------------------------
(* The actions.                                                            *)

\* The client's own view: everything it holds has kept its value.
Sound(h, L) == Good(h, L, L)

LEMMA MallocFails ==
  ASSUME NEW h, NEW L, NEW K, Good(h, L, K),
         NEW size \in Nat, size = 0 \/ (size > 40 /\ size + 23 < SizeRange),
         NEW r, r = malloc(h, size)
  PROVE  /\ r.ptr = NULL => r.heap = h
         /\ r.ptr # NULL => size > 40 /\ size + 23 < SizeRange
<1>1. PICK B, w, A : HeapOk(h, B, w, A)
  BY DEF Good
<1>2. \/ r.ptr = NULL /\ r.heap = h
      \/ \E p, n \in Nat : /\ p >= 1 /\ r.ptr = p + 1 /\ size + 8 <= 8 * n
                           /\ Allocates(h, w, A, r.heap, p, n)
  BY <1>1, MallocOk
<1>3. r.ptr = NULL => r.heap = h
  BY <1>2 DEF NULL
<1>4. size = 0 => r.ptr = NULL
  BY DEF malloc
<1> QED BY <1>3, <1>4

LEMMA MallocStep ==
  ASSUME NEW h, NEW L, Sound(h, L),
         NEW size \in Nat, size = 0 \/ (size > 40 /\ size + 23 < SizeRange), NEW value \in Nat,
         NEW r, r = malloc(h, size)
  PROVE  Sound(Fill(r, 0, size, value), L \cup Block(r.ptr, size, value))
<1>. Good(h, L, L)
  BY DEF Sound
<1>1. CASE r.ptr = NULL
  <2>1. Fill(r, 0, size, value) = h
    BY <1>1, MallocFails DEF Fill
  <2>2. L \cup Block(r.ptr, size, value) = L
    BY <1>1 DEF Block
  <2> QED BY <2>1, <2>2 DEF Sound
<1>2. CASE r.ptr # NULL
  <2>1. size > 40 /\ size + 23 < SizeRange
    BY <1>2, MallocFails
  <2>2. PICK l : l = [ptr |-> r.ptr, size |-> size, value |-> value]
    OBVIOUS
  <2>3. l.ptr = r.ptr /\ l.size = size /\ l.value = value
    BY <2>2
  <2>4. Good(r.heap, L \cup {l}, L) /\ \A k \in L : k.ptr # l.ptr
    BY <1>2, <2>1, <2>3, MallocGood
  <2>5. PICK M, g : M = L \cup {l} /\ g = Fill(r, 0, l.size, l.value)
    OBVIOUS
  <2>6. l.ptr \in Nat
    BY <2>4, GoodFacts
  <2>7. \A a \in Words(l) : a < l.ptr + 0 => r.heap.mem[a] = l.value
    <3>1. \A a \in Words(l) : ~ (a < l.ptr + 0)
      BY <2>6 DEF Words
    <3> QED BY <3>1
  <2>8. Good(g, M, {k \in L : k.ptr # l.ptr} \cup {l})
    <3>1. Good(r.heap, M, L) /\ l \in M /\ 0 \in Nat
      BY <2>4, <2>5
    <3> QED BY <2>3, <2>5, <2>7, <3>1, FillGood
  <2>9. {k \in L : k.ptr # l.ptr} \cup {l} = M
    BY <2>4, <2>5
  <2>10. L \cup Block(r.ptr, size, value) = M
    BY <1>2, <2>2, <2>5 DEF Block
  <2> QED BY <2>3, <2>5, <2>8, <2>9, <2>10 DEF Sound
<1> QED BY <1>1, <1>2

LEMMA CallocIsMalloc ==
  ASSUME NEW h, NEW L, Sound(h, L), NEW nmemb \in Nat, NEW size \in Nat,
         NEW bytes \in Nat, bytes = nmemb * size, bytes < SizeRange,
         bytes = 0 \/ (bytes > 40 /\ bytes + 23 < SizeRange),
         NEW r, r = malloc(h, bytes), NEW c, c = calloc(h, nmemb, size)
  PROVE  c.ptr = r.ptr /\ c.heap = Fill(r, 0, bytes, 0)
<1>1. (size * nmemb) % SizeRange = bytes
  BY AllocatorAssumption
<1>2. c = IF r.ptr = NULL THEN r
          ELSE [r EXCEPT !.heap = Set(@, r.ptr, WordsOf(bytes), 0)]
  BY <1>1 DEF calloc
<1>3. CASE r.ptr = NULL
  BY <1>2, <1>3 DEF Fill
<1>4. CASE r.ptr # NULL
  <2>1. Good(h, L, L)
    BY DEF Sound
  <2>2. bytes > 40 /\ bytes + 23 < SizeRange
    BY <1>4, <2>1, MallocFails
  <2>3. WordsOf(bytes) \in Nat /\ ~ (0 >= WordsOf(bytes))
    <3>1. bytes <= bytes
      OBVIOUS
    <3> QED BY <2>2, <3>1, WordsFit
  <2>4. r.ptr \in Nat
    <3>1. PICK l : l = [ptr |-> r.ptr, size |-> bytes, value |-> 0]
      OBVIOUS
    <3>2. l.ptr = r.ptr /\ l.size = bytes /\ l.value = 0 /\ 0 \in Nat
      BY <3>1
    <3>3. Good(r.heap, L \cup {l}, L)
      BY <1>4, <2>1, <2>2, <3>2, MallocGood
    <3> QED BY <3>2, <3>3, GoodFacts
  <2>5. PICK q, z : q = Set(r.heap, r.ptr, WordsOf(bytes), 0) /\ z = Fill(r, 0, bytes, 0)
    OBVIOUS
  <2>6. z = q
    <3>1. r.ptr + 0 = r.ptr /\ WordsOf(bytes) - 0 = WordsOf(bytes)
      BY <2>3, <2>4
    <3> QED BY <1>4, <2>3, <2>5, <3>1 DEF Fill
  <2>7. \E x, p : r = [heap |-> x, ptr |-> p]
    BY DEF malloc
  <2>8. c = [r EXCEPT !.heap = q]
    BY <1>2, <1>4, <2>5
  <2> QED BY <2>5, <2>6, <2>7, <2>8
<1> QED BY <1>3, <1>4

LEMMA FreeStep ==
  ASSUME NEW h, NEW L, Sound(h, L), NEW l \in L
  PROVE  Sound(free(h, l.ptr), L \ {l})
<1>. Good(h, L, L)
  BY DEF Sound
<1>1. PICK B, w, A : HeapOk(h, B, w, A) /\ LiveOk(L, w, A)
  BY DEF Good
<1>2. {k \in L : k.ptr # l.ptr} = L \ {l}
  BY <1>1 DEF LiveOk
<1>3. PICK g, J : g = free(h, l.ptr) /\ J = {k \in L : k.ptr # l.ptr}
  OBVIOUS
<1>4. Good(g, L \ {l}, J)
  BY <1>3, FreeGood, SMTT(30)
<1> QED BY <1>2, <1>3, <1>4 DEF Sound

\* What realloc returns for a block that the client holds.
Moves(h, old, size, r, c) ==
  /\ size = 0 => c.ptr = NULL /\ c.heap = free(h, old)
  /\ size # 0 /\ r.ptr = NULL => c.ptr = NULL /\ c.heap = free(r.heap, old)
  /\ size # 0 /\ r.ptr # NULL =>
       c.ptr = r.ptr /\ c.heap = free(Copied(r.heap, r.ptr, old, size), old)

LEMMA ReallocCases ==
  ASSUME NEW h, NEW old, old # NULL, NEW size
  PROVE  Moves(h, old, size, malloc(h, size), realloc(h, old, size))
<1>. PICK r, c : r = malloc(h, size) /\ c = realloc(h, old, size)
  OBVIOUS
<1> SUFFICES Moves(h, old, size, r, c)
  OBVIOUS
<1>1. CASE size = 0
  <2>1. c = [heap |-> free(h, old), ptr |-> NULL]
    BY <1>1 DEF realloc
  <2> QED BY <1>1, <2>1 DEF Moves
<1>2. CASE size # 0 /\ r.ptr = NULL
  <2>1. c = [heap |-> free(r.heap, old), ptr |-> r.ptr]
    BY <1>2 DEF realloc
  <2> QED BY <1>2, <2>1 DEF Moves
<1>3. CASE size # 0 /\ r.ptr # NULL
  <2>1. c = [heap |-> free(Copied(r.heap, r.ptr, old, size), old), ptr |-> r.ptr]
    BY <1>3 DEF realloc, Copied
  <2> QED BY <1>3, <2>1 DEF Moves
<1> QED BY <1>1, <1>2, <1>3

\* The new block beside the old ones.
Room(g, L, l) == Good(g, L \cup {l}, L) /\ \A k \in L : k.ptr # l.ptr

LEMMA MallocRoom ==
  ASSUME NEW h, NEW L, Good(h, L, L),
         NEW size \in Nat, size > 40, size + 23 < SizeRange, NEW value \in Nat,
         NEW r, r = malloc(h, size), r.ptr # NULL
  PROVE  Room(r.heap, L, [ptr |-> r.ptr, size |-> size, value |-> value])
<1>1. PICK l : l = [ptr |-> r.ptr, size |-> size, value |-> value]
  OBVIOUS
<1>2. l.ptr = r.ptr /\ l.size = size /\ l.value = value
  BY <1>1
<1>3. Good(r.heap, L \cup {l}, L) /\ \A k \in L : k.ptr # l.ptr
  BY <1>2, MallocGood
<1> QED BY <1>1, <1>3 DEF Room

\* The copy, the free and the client's store, once malloc has found a block.
LEMMA MovedStep ==
  ASSUME NEW h, NEW L, Sound(h, L), NEW old \in L,
         NEW size \in Nat, size > 40, size + 23 < SizeRange,
         NEW r, r = malloc(h, size), r.ptr # NULL,
         NEW c, c.ptr = r.ptr,
         c.heap = free(Copied(r.heap, r.ptr, old.ptr, size), old.ptr)
  PROVE  Sound(Fill(c, WordsOf(old.size), size, old.value),
               (L \ {old}) \cup Block(r.ptr, size, old.value))
<1>. Good(h, L, L)
  BY DEF Sound
<1>1. PICK l : l = [ptr |-> r.ptr, size |-> size, value |-> old.value]
  OBVIOUS
<1>2. l.ptr = r.ptr /\ l.size = size /\ l.value = old.value
  BY <1>1
<1>3. /\ old.value \in Nat /\ old.size \in Nat /\ old.ptr \in Nat /\ old.ptr # NULL
  BY GoodFacts
<1>4. Good(r.heap, L \cup {l}, L) /\ \A k \in L : k.ptr # l.ptr
  <2>1. PICK value \in Nat : value = old.value
    BY <1>3
  <2>2. Room(r.heap, L, [ptr |-> r.ptr, size |-> size, value |-> value])
    BY MallocRoom
  <2>3. Room(r.heap, L, l)
    BY <1>1, <2>1, <2>2
  <2> QED BY <2>3 DEF Room
<1>5. PICK M, N : M = L \cup {l} /\ N = (L \ {old}) \cup {l}
  OBVIOUS
<1>6. PICK k : k = Start(l, old)
  OBVIOUS
<1>7. k.ptr = l.ptr /\ k.value = l.value /\ k.size = IF size < old.size THEN size ELSE old.size
  BY <1>2, <1>6 DEF Start
<1>8. PICK g : g = Copied(r.heap, l.ptr, old.ptr, l.size)
  OBVIOUS
<1>9. Good(g, M, L \cup {k})
  <2>1. Good(r.heap, M, L) /\ l \in M /\ old \in M
    BY <1>4, <1>5
  <2> QED BY <1>2, <1>4, <1>6, <1>8, <2>1, CopyGood
<1>10. PICK f : f = free(g, old.ptr)
  OBVIOUS
<1>11. old.ptr # l.ptr
  BY <1>4
<1>12. PICK J : J = {j \in L \cup {k} : j.ptr # old.ptr}
  OBVIOUS
<1>13. Good(f, M \ {old}, J)
  <2>1. old \in M
    BY <1>5
  <2> QED BY <1>9, <1>10, <1>12, <2>1, FreeGood
<1>14. M \ {old} = N /\ l \in N /\ k \in J
  BY <1>5, <1>7, <1>11, <1>12
<1>15. PICK s, n \in Nat : s = WordsOf(old.size) /\ n = WordsOf(size)
  <2>1. size <= size /\ old.size <= old.size
    BY <1>3
  <2> QED BY <1>3, <2>1, WordsFit
<1>16. l.ptr \in Nat /\ (\A a \in Words(k) : f.mem[a] = l.value)
  BY <1>7, <1>13, <1>14, GoodFacts
<1>17. \A a \in Words(l) : a < l.ptr + s => f.mem[a] = l.value
  <2> TAKE a \in Words(l)
  <2> SUFFICES ASSUME a < l.ptr + s PROVE a \in Words(k)
    BY <1>16
  <2>1. PICK p \in Nat : p = l.ptr
    BY <1>16
  <2>2. a \in p .. (p + n - 1)
    BY <1>2, <1>15, <2>1 DEF Words
  <2>3. a \in p .. (p + s - 1)
    BY <1>15, <2>1, <2>2
  <2>4. Words(k) = p .. (p + n - 1) \/ Words(k) = p .. (p + s - 1)
    BY <1>7, <1>15, <2>1 DEF Words
  <2> QED BY <2>2, <2>3, <2>4
<1>18. f = c.heap
  BY <1>2, <1>8, <1>10
<1>19. PICK z : z = Fill(c, s, l.size, l.value)
  OBVIOUS
<1>20. Good(z, N, {j \in J : j.ptr # l.ptr} \cup {l})
  <2>1. Good(f, N, J)
    BY <1>13, <1>14
  <2> QED BY <1>2, <1>14, <1>15, <1>17, <1>18, <1>19, <2>1, FillGood
<1>21. {j \in J : j.ptr # l.ptr} \cup {l} = N
  <2>1. PICK B, w, A : HeapOk(h, B, w, A) /\ LiveOk(L, w, A)
    BY DEF Good
  <2>2. \A j \in L : j.ptr = old.ptr => j = old
    BY <2>1 DEF LiveOk
  <2> QED BY <1>4, <1>5, <1>7, <1>12, <2>2
<1>22. z = Fill(c, WordsOf(old.size), size, old.value)
  BY <1>2, <1>15, <1>19
<1>23. N = (L \ {old}) \cup Block(r.ptr, size, old.value)
  BY <1>1, <1>5 DEF Block
<1> QED BY <1>20, <1>21, <1>22, <1>23 DEF Sound

LEMMA ReallocStep ==
  ASSUME NEW h, NEW L, Sound(h, L), NEW old \in L,
         NEW size \in Nat, size = 0 \/ (size > 40 /\ size + 23 < SizeRange),
         NEW c, c = realloc(h, old.ptr, size)
  PROVE  Sound(Fill(c, WordsOf(old.size), size, old.value),
               (L \ {old}) \cup Block(c.ptr, size, old.value))
<1>. Good(h, L, L)
  BY DEF Sound
<1>1. PICK r : r = malloc(h, size)
  OBVIOUS
<1>2. old.ptr # NULL
  BY GoodFacts
<1>3. Moves(h, old.ptr, size, r, c)
  BY <1>1, <1>2, ReallocCases
<1>4. CASE size = 0 \/ r.ptr = NULL
  <2>1. c.ptr = NULL /\ c.heap = free(h, old.ptr)
    <3>1. r.ptr = NULL => r.heap = h
      BY <1>1, MallocFails
    <3> QED BY <1>4, <1>3, <3>1 DEF Moves
  <2>2. Fill(c, WordsOf(old.size), size, old.value) = free(h, old.ptr)
    BY <2>1 DEF Fill
  <2>3. (L \ {old}) \cup Block(c.ptr, size, old.value) = L \ {old}
    BY <2>1 DEF Block
  <2>4. Sound(free(h, old.ptr), L \ {old})
    BY FreeStep
  <2>5. PICK x, N : x = free(h, old.ptr) /\ N = L \ {old}
    OBVIOUS
  <2> QED BY <2>2, <2>3, <2>4, <2>5
<1>5. CASE size # 0 /\ r.ptr # NULL
  <2>1. c.ptr = r.ptr /\ c.heap = free(Copied(r.heap, r.ptr, old.ptr, size), old.ptr)
    BY <1>5, <1>3 DEF Moves
  <2>2. size > 40 /\ size + 23 < SizeRange
    BY <1>5
  <2>3. Sound(Fill(c, WordsOf(old.size), size, old.value),
              (L \ {old}) \cup Block(r.ptr, size, old.value))
    BY <1>1, <1>5, <2>1, <2>2, MovedStep
  <2> QED BY <2>1, <2>3
<1> QED BY <1>4, <1>5

\* Initially the client holds nothing.
LEMMA InitStep == Sound(mm_init, {})
<1>1. PICK w : HeapOk(mm_init, {1}, w, {})
  BY InitOk
<1>2. LiveOk({}, w, {}) /\ Claims(mm_init.mem, {}, {})
  BY DEF LiveOk, Claims
<1> QED BY <1>1, <1>2 DEF Sound, Good

-----------------------------------------------------------------------------
(* The inductive invariant.                                                *)

AllocInv == Sound(heap, live)

LEMMA RequestIs ==
  ASSUME LargeRequests, NEW size \in Requests
  PROVE  size \in Nat /\ size < SizeRange /\ (size = 0 \/ (size > 40 /\ size + 23 < SizeRange))
BY AllocatorAssumption DEF LargeRequests

LEMMA NextAllocInv ==
  ASSUME LargeRequests, AllocInv, Next
  PROVE  AllocInv'
<1>1. PICK h, L : h = heap /\ L = live
  OBVIOUS
<1>2. PICK g, N : g = heap' /\ N = live'
  OBVIOUS
<1>3. Sound(h, L)
  BY <1>1 DEF AllocInv
<1> SUFFICES Sound(g, N)
  BY <1>2 DEF AllocInv
<1>4. CASE Malloc
  <2>0. PICK size \in Requests, value \in Values : \E r :
          /\ r = malloc(h, size)
          /\ g = Fill(r, 0, size, value)
          /\ N = L \cup Block(r.ptr, size, value)
    BY <1>1, <1>2, <1>4 DEF Malloc
  <2>1. PICK r :
          /\ r = malloc(h, size)
          /\ g = Fill(r, 0, size, value)
          /\ N = L \cup Block(r.ptr, size, value)
    BY <2>0
  <2>2. value \in Nat
    BY AllocatorAssumption
  <2>3. Sound(Fill(r, 0, size, value), L \cup Block(r.ptr, size, value))
    BY <1>3, <2>1, <2>2, RequestIs, MallocStep
  <2> QED BY <2>1, <2>3
<1>5. CASE Calloc
  <2>0. PICK nmemb \in {1, 2}, size \in Requests : \E c :
          /\ c = calloc(h, nmemb, size)
          /\ nmemb * size \in Requests
          /\ g = c.heap
          /\ N = L \cup Block(c.ptr, nmemb * size, 0)
    BY <1>1, <1>2, <1>5 DEF Calloc
  <2>1. PICK c :
          /\ c = calloc(h, nmemb, size)
          /\ nmemb * size \in Requests
          /\ g = c.heap
          /\ N = L \cup Block(c.ptr, nmemb * size, 0)
    BY <2>0
  <2>2. PICK bytes \in Requests : bytes = nmemb * size
    BY <2>1
  <2>3. PICK r : r = malloc(h, bytes)
    OBVIOUS
  <2>4. /\ bytes \in Nat /\ bytes < SizeRange
        /\ bytes = 0 \/ (bytes > 40 /\ bytes + 23 < SizeRange)
    BY RequestIs
  <2>5. size \in Nat /\ nmemb \in Nat
    BY RequestIs
  <2>6. c.ptr = r.ptr /\ c.heap = Fill(r, 0, bytes, 0)
    BY <1>3, <2>1, <2>2, <2>3, <2>4, <2>5, CallocIsMalloc
  <2>7. Sound(Fill(r, 0, bytes, 0), L \cup Block(r.ptr, bytes, 0))
    <3>1. PICK value \in Nat : value = 0
      OBVIOUS
    <3>2. Sound(Fill(r, 0, bytes, value), L \cup Block(r.ptr, bytes, value))
      BY <1>3, <2>3, <2>4, MallocStep
    <3> QED BY <3>1, <3>2
  <2> QED BY <2>1, <2>2, <2>6, <2>7
<1>6. CASE Free
  <2>1. PICK old \in L : g = free(h, old.ptr) /\ N = L \ {old}
    BY <1>1, <1>2, <1>6 DEF Free
  <2>2. Sound(free(h, old.ptr), L \ {old})
    BY <1>3, FreeStep
  <2> QED BY <2>1, <2>2
<1>7. CASE Realloc
  <2>0. PICK old \in L \cup {[ptr |-> NULL, size |-> 0, value |-> 0]}, size \in Requests : \E c :
          /\ c = realloc(h, old.ptr, size)
          /\ g = Fill(c, WordsOf(old.size), size, old.value)
          /\ N = (L \ {old}) \cup Block(c.ptr, size, old.value)
    BY <1>1, <1>2, <1>7 DEF Realloc
  <2>1. PICK c :
          /\ c = realloc(h, old.ptr, size)
          /\ g = Fill(c, WordsOf(old.size), size, old.value)
          /\ N = (L \ {old}) \cup Block(c.ptr, size, old.value)
    BY <2>0
  <2>2. size \in Nat /\ (size = 0 \/ (size > 40 /\ size + 23 < SizeRange))
    BY RequestIs
  <2>3. CASE old \in L
    <3>1. Sound(Fill(c, WordsOf(old.size), size, old.value),
                (L \ {old}) \cup Block(c.ptr, size, old.value))
      BY <1>3, <2>1, <2>2, <2>3, ReallocStep
    <3> QED BY <2>1, <3>1
  <2>4. CASE old \notin L
    <3>1. old.ptr = NULL /\ old.size = 0 /\ old.value = 0
      BY <2>4
    <3>2. c = malloc(h, size)
      BY <2>1, <3>1 DEF realloc
    <3>3. WordsOf(0) = 0
      <4>1. 0 \in Nat /\ 0 <= 0
        OBVIOUS
      <4> QED BY <4>1, WordsFit
    <3>4. Sound(Fill(c, 0, size, 0), L \cup Block(c.ptr, size, 0))
      <4>1. PICK value \in Nat : value = 0
        OBVIOUS
      <4>2. Sound(Fill(c, 0, size, value), L \cup Block(c.ptr, size, value))
        BY <1>3, <2>2, <3>2, MallocStep
      <4> QED BY <4>1, <4>2
    <3>5. L \ {old} = L
      BY <2>4
    <3> QED BY <2>1, <3>1, <3>3, <3>4, <3>5
  <2> QED BY <2>3, <2>4
<1> QED BY <1>4, <1>5, <1>6, <1>7 DEF Next

\* Every heap that the allocator leaves is made up of blocks with right tags,
\* a right free list and no two free neighbours, and holds the client's data.
THEOREM AllocatorInv == ASSUME LargeRequests PROVE Spec => []AllocInv
<1>1. Init => AllocInv
  BY InitStep DEF Init, AllocInv
<1>2. AllocInv /\ [Next]_vars => AllocInv'
  <2>1. CASE Next
    BY <2>1, NextAllocInv
  <2>2. CASE UNCHANGED vars
    BY <2>2 DEF vars, AllocInv
  <2> QED BY <2>1, <2>2
<1> QED BY <1>1, <1>2, PTL DEF Spec

\* ContentsKept: what the client has stored is there when it looks.
THEOREM AllocatorContentsKept == ASSUME LargeRequests PROVE Spec => []ContentsKept
<1>1. AllocInv => ContentsKept
  BY GoodFacts DEF AllocInv, Sound, ContentsKept
<1> QED BY <1>1, AllocatorInv, PTL

-----------------------------------------------------------------------------
(* The walk over the headers.                                              *)

Prefix(f, n, a, s) ==
  f \in [0 .. n -> Nat] /\ f[0] = a /\ \A i \in Nat : i < n => f[i + 1] = s[f[i]]

\* A function can be iterated.
LEMMA Iterates ==
  ASSUME NEW a \in Nat, NEW s \in [Nat -> Nat]
  PROVE  \E g \in [Nat -> Nat] : g[0] = a /\ \A n \in Nat : g[n + 1] = s[g[n]]
<1> DEFINE Bad == {n \in Nat : ~ \E f : Prefix(f, n, a, s)}
<1>1. Bad = {}
  <2> SUFFICES ASSUME Bad # {} PROVE FALSE
    OBVIOUS
  <2>1. PICK n \in Bad : \A k \in Bad : n <= k
    <3>1. Bad \in SUBSET Nat
      OBVIOUS
    <3> HIDE DEF Bad
    <3> QED BY <3>1, NatMin
  <2>2. n \in Nat /\ ~ \E f : Prefix(f, n, a, s)
    BY <2>1
  <2>3. CASE n = 0
    <3>1. PICK f : f = [i \in 0 .. 0 |-> a]
      OBVIOUS
    <3>2. f \in [0 .. n -> Nat] /\ f[0] = a
      BY <2>3, <3>1
    <3>3. Prefix(f, n, a, s)
      BY <2>3, <3>2 DEF Prefix
    <3> QED BY <2>2, <3>3
  <2>4. CASE n # 0
    <3>1. PICK m \in Nat : n = m + 1
      <4>1. n - 1 \in Nat /\ n = (n - 1) + 1
        BY <2>2, <2>4
      <4> QED BY <4>1
    <3>2. m \notin Bad
      BY <2>1, <3>1
    <3>3. PICK f : Prefix(f, m, a, s)
      BY <3>2
    <3>4. PICK e : e = [i \in 0 .. n |-> IF i = n THEN s[f[m]] ELSE f[i]]
      OBVIOUS
    <3>5. /\ f \in [0 .. m -> Nat] /\ f[0] = a /\ f[m] \in Nat
          /\ \A i \in Nat : i < m => f[i + 1] = s[f[i]]
      <4>1. m \in 0 .. m /\ 0 \in 0 .. m
        OBVIOUS
      <4> QED BY <3>3, <4>1 DEF Prefix
    <3>6. e[n] = s[f[m]] /\ \A i \in 0 .. m : e[i] = f[i]
      BY <2>2, <3>1, <3>4
    <3>7. e \in [0 .. n -> Nat]
      <4>1. \A i \in 0 .. n : i = n \/ i \in 0 .. m
        BY <3>1
      <4>2. \A i \in 0 .. m : f[i] \in Nat
        BY <3>5
      <4>3. s[f[m]] \in Nat
        BY <3>5
      <4> QED BY <3>4, <4>1, <4>2, <4>3
    <3>8. \A i \in Nat : i < n => e[i + 1] = s[e[i]]
      <4> TAKE i \in Nat
      <4>1. CASE i < m
        <5>1. i \in 0 .. m /\ i + 1 \in 0 .. m
          BY <4>1
        <5> QED BY <3>5, <3>6, <4>1, <5>1
      <4>2. CASE i = m
        BY <3>1, <3>6, <4>2
      <4> QED BY <3>1, <4>1, <4>2
    <3>9. e[0] = a
      <4>1. 0 \in 0 .. m
        OBVIOUS
      <4> QED BY <3>5, <3>6, <4>1
    <3>10. Prefix(e, n, a, s)
      BY <3>7, <3>8, <3>9 DEF Prefix
    <3> QED BY <2>2, <3>10
  <2> QED BY <2>3, <2>4
<1>2. \A n \in Nat : \E f : Prefix(f, n, a, s)
  BY <1>1
<1>3. ASSUME NEW n \in Nat, NEW m \in Nat, NEW f, NEW e, n <= m, Prefix(f, n, a, s), Prefix(e, m, a, s)
      PROVE  e[n] = f[n]
  <2> DEFINE Off == {i \in 0 .. n : e[i] # f[i]}
  <2>1. Off = {}
    <3> SUFFICES ASSUME Off # {} PROVE FALSE
      OBVIOUS
    <3>1. PICK i \in Off : \A k \in Off : i <= k
      <4>1. Off \in SUBSET Nat
        OBVIOUS
      <4> HIDE DEF Off
      <4> QED BY <4>1, NatMin
    <3>2. i \in 0 .. n /\ e[i] # f[i]
      BY <3>1
    <3>3. i # 0
      BY <1>3, <3>2 DEF Prefix
    <3>4. PICK j \in Nat : i = j + 1
      <4>1. i - 1 \in Nat /\ i = (i - 1) + 1
        BY <3>2, <3>3
      <4> QED BY <4>1
    <3>5. j \in 0 .. n /\ j < n /\ j < m /\ j \notin Off
      BY <1>3, <3>1, <3>2, <3>4
    <3>6. e[j] = f[j]
      BY <3>5
    <3>7. e[j + 1] = s[e[j]] /\ f[j + 1] = s[f[j]]
      BY <1>3, <3>5 DEF Prefix
    <3> QED BY <3>2, <3>4, <3>6, <3>7
  <2> QED BY <2>1
<1> DEFINE c(n) == CHOOSE f : Prefix(f, n, a, s)
<1>4. \A n \in Nat : Prefix(c(n), n, a, s)
  BY <1>2
<1> HIDE DEF c
<1>5. PICK g : g = [n \in Nat |-> c(n)[n]]
  OBVIOUS
<1>6. \A n \in Nat : g[n] = c(n)[n] /\ g[n] \in Nat
  <2> TAKE n \in Nat
  <2>1. c(n) \in [0 .. n -> Nat]
    BY <1>4 DEF Prefix
  <2> QED BY <1>5, <2>1
<1>7. g[0] = a
  BY <1>4, <1>6 DEF Prefix
<1>8. \A n \in Nat : g[n + 1] = s[g[n]]
  <2> TAKE n \in Nat
  <2>1. PICK e, f : e = c(n + 1) /\ f = c(n)
    OBVIOUS
  <2>2. Prefix(e, n + 1, a, s) /\ Prefix(f, n, a, s) /\ n + 1 \in Nat /\ n <= n + 1
    BY <1>4, <2>1
  <2>3. e[n] = f[n]
    BY <1>3, <2>2
  <2>4. e[n + 1] = s[e[n]]
    BY <2>2 DEF Prefix
  <2> QED BY <1>6, <2>1, <2>2, <2>3, <2>4
<1>9. g \in [Nat -> Nat]
  BY <1>5, <1>6
<1> QED BY <1>7, <1>8, <1>9

\* The n-th block, and the epilogue after the last one.
Visits(g, k, B, w) ==
  /\ g \in [Nat -> Nat] /\ g[0] = 1
  /\ \A n \in Nat : g[n] \in B \cup {k - 1}
  /\ \A n \in Nat : g[n + 1] = IF g[n] \in B THEN g[n] + w[g[n]] ELSE g[n]

LEMMA Visited ==
  ASSUME NEW k, NEW B, NEW w, Layout(k, B, w)
  PROVE  \E g : Visits(g, k, B, w)
<1>1. PICK s : s = [b \in Nat |-> IF b \in B THEN b + w[b] ELSE b]
  OBVIOUS
<1>2. s \in [Nat -> Nat]
  BY <1>1, InHeap
<1>3. PICK g \in [Nat -> Nat] : g[0] = 1 /\ \A n \in Nat : g[n + 1] = s[g[n]]
  <2>1. PICK a \in Nat : a = 1
    OBVIOUS
  <2>2. \E g \in [Nat -> Nat] : g[0] = a /\ \A n \in Nat : g[n + 1] = s[g[n]]
    BY <1>2, Iterates
  <2> QED BY <2>1, <2>2
<1>4. \A n \in Nat : g[n + 1] = IF g[n] \in B THEN g[n] + w[g[n]] ELSE g[n]
  BY <1>1, <1>3
<1> DEFINE Bad == {n \in Nat : g[n] \notin B \cup {k - 1}}
<1>5. Bad = {}
  <2> SUFFICES ASSUME Bad # {} PROVE FALSE
    OBVIOUS
  <2>1. PICK n \in Bad : \A m \in Bad : n <= m
    <3>1. Bad \in SUBSET Nat
      OBVIOUS
    <3> HIDE DEF Bad
    <3> QED BY <3>1, NatMin
  <2>2. n \in Nat /\ g[n] \notin B \cup {k - 1}
    BY <2>1
  <2>3. n # 0
    BY <1>3, <2>2 DEF Layout
  <2>4. PICK m \in Nat : n = m + 1
    <3>1. n - 1 \in Nat /\ n = (n - 1) + 1
      BY <2>2, <2>3
    <3> QED BY <3>1
  <2>5. g[m] \in B \cup {k - 1}
    BY <2>1, <2>4
  <2> QED BY <1>4, <2>2, <2>4, <2>5 DEF Layout
<1> QED BY <1>3, <1>4, <1>5 DEF Visits

LEMMA VisitsAll ==
  ASSUME NEW k, NEW B, NEW w, Layout(k, B, w), NEW g, Visits(g, k, B, w)
  PROVE  /\ g[k \div 4] = k - 1 /\ k \div 4 \in Nat
         /\ \A b \in B : \E n \in 0 .. (k \div 4) : g[n] = b
<1>1. /\ k \in Nat /\ k >= 6 /\ k - 1 \in Nat
      /\ \A b \in B : b \in Nat /\ w[b] \in Nat /\ w[b] >= 4 /\ b + w[b] <= k - 1 /\ b >= 1
  BY InHeap DEF Layout
<1>2. /\ g[0] = 1
      /\ \A n \in Nat : g[n] \in Nat /\ g[n] \in B \cup {k - 1}
      /\ \A n \in Nat : g[n + 1] = IF g[n] \in B THEN g[n] + w[g[n]] ELSE g[n]
  BY DEF Visits
<1> DEFINE Bad == {n \in Nat : ~ (g[n] = k - 1 \/ g[n] >= 1 + 4 * n)}
<1>3. Bad = {}
  <2> SUFFICES ASSUME Bad # {} PROVE FALSE
    OBVIOUS
  <2>1. PICK n \in Bad : \A m \in Bad : n <= m
    <3>1. Bad \in SUBSET Nat
      OBVIOUS
    <3> HIDE DEF Bad
    <3> QED BY <3>1, NatMin
  <2>2. n \in Nat /\ ~ (g[n] = k - 1 \/ g[n] >= 1 + 4 * n)
    BY <2>1
  <2>3. n # 0
    BY <1>2, <2>2
  <2>4. PICK m \in Nat : n = m + 1
    <3>1. n - 1 \in Nat /\ n = (n - 1) + 1
      BY <2>2, <2>3
    <3> QED BY <3>1
  <2>5. g[m] = k - 1 \/ g[m] >= 1 + 4 * m
    BY <2>1, <2>4
  <2>6. CASE g[m] \notin B
    <3>1. g[m] = k - 1 /\ g[n] = g[m]
      BY <1>2, <2>4, <2>6
    <3> QED BY <2>2, <3>1
  <2>7. CASE g[m] \in B
    <3>1. PICK b \in B : b = g[m]
      BY <2>7
    <3>2. g[n] = b + w[b]
      BY <1>2, <2>4, <3>1
    <3>3. b # k - 1
      BY <1>1
    <3>4. b >= 1 + 4 * m /\ b \in Nat /\ w[b] \in Nat /\ w[b] >= 4
      BY <1>1, <2>5, <3>1, <3>3
    <3>5. b + w[b] >= 1 + 4 * (m + 1)
      BY <3>4
    <3> QED BY <2>2, <2>4, <3>2, <3>5
  <2> QED BY <2>6, <2>7
<1>4. \A n \in Nat : g[n] = k - 1 \/ g[n] >= 1 + 4 * n
  BY <1>3
<1>5. PICK q \in Nat : q = k \div 4 /\ k <= 4 * q + 3
  BY <1>1
<1>6. ASSUME NEW n \in Nat, g[n] \in B PROVE n < q
  <2>1. PICK b \in B : b = g[n]
    BY <1>6
  <2>2. b # k - 1 /\ b \in Nat /\ b + 4 <= k - 1
    BY <1>1
  <2>3. b >= 1 + 4 * n
    BY <1>4, <2>1, <2>2
  <2>4. 1 + 4 * n + 4 <= k - 1
    BY <1>1, <2>2, <2>3
  <2> QED BY <1>1, <1>5, <2>4
<1>7. g[q] = k - 1
  <2>1. ~ (q < q)
    BY <1>5
  <2> QED BY <1>2, <1>6, <2>1
<1> DEFINE Off == {b \in B : \A n \in Nat : g[n] # b}
<1>8. Off = {}
  <2> SUFFICES ASSUME Off # {} PROVE FALSE
    OBVIOUS
  <2>1. PICK c \in Off : \A b \in Off : c <= b
    <3>1. Off \in SUBSET Nat
      BY <1>1
    <3> HIDE DEF Off
    <3> QED BY <3>1, NatMin
  <2>2. c \in B /\ (\A n \in Nat : g[n] # c)
    BY <2>1
  <2>3. c # 1
    BY <1>2, <2>2
  <2>4. PICK b \in B : b + w[b] = c
    BY <2>2, <2>3 DEF Layout
  <2>5. ~ (c <= b)
    BY <1>1, <2>2, <2>4
  <2>6. PICK n \in Nat : g[n] = b
    BY <2>1, <2>5
  <2>7. g[n + 1] = c /\ n + 1 \in Nat
    BY <1>2, <2>4, <2>6
  <2> QED BY <2>2, <2>7
<1>9. ASSUME NEW b \in B PROVE \E n \in 0 .. q : g[n] = b
  <2>1. PICK n \in Nat : g[n] = b
    BY <1>8
  <2>2. n < q
    BY <1>6, <2>1
  <2> QED BY <1>5, <2>1, <2>2
<1> QED BY <1>5, <1>7, <1>9

LEMMA WalkIs ==
  ASSUME NEW B, NEW w, NEW A, HeapOk(heap, B, w, A), NEW g, Visits(g, heap.brk, B, w)
  PROVE  \A n \in Nat : Walk[n] = g[n]
<1>1. PICK h, k : h = heap /\ k = h.brk
  OBVIOUS
<1>2. h \in HeapType /\ Layout(k, B, w) /\ Tags(h.mem, B, w, A)
  BY <1>1 DEF HeapOk, Consistent
<1>3. /\ k \in Nat /\ k - 1 \in Nat
      /\ \A b \in B : b \in Nat /\ w[b] \in Nat /\ w[b] >= 4 /\ b + w[b] <= k - 1
  BY <1>2, InHeap DEF Layout
<1>4. /\ g \in [Nat -> Nat] /\ g[0] = 1
      /\ \A n \in Nat : g[n] \in B \cup {k - 1}
      /\ \A n \in Nat : g[n + 1] = IF g[n] \in B THEN g[n] + w[g[n]] ELSE g[n]
  BY <1>1 DEF Visits
<1> DEFINE Step(b) == IF b >= k - 1 \/ Size(h, b) = 0 THEN b ELSE NextBlock(h, b)
           After(l, n) == IF n = 0 THEN 1 ELSE Step(l[n - 1])
           Is(l) == l = [n \in Nat |-> After(l, n)]
<1>5. \A b \in B : Step(b) = b + w[b]
  <2> TAKE b \in B
  <2>1. BlockIs(h, w, b)
    BY <1>1, <1>2, TagValues
  <2>2. Size(h, b) = 8 * w[b] /\ NextBlock(h, b) = b + w[b]
    BY <2>1 DEF BlockIs
  <2>3. ~ (b >= k - 1) /\ 8 * w[b] # 0
    BY <1>3
  <2> QED BY <2>2, <2>3
<1>6. Step(k - 1) = k - 1
  BY <1>3
<1>7. ASSUME NEW n \in Nat PROVE After(g, n) = g[n]
  <2> HIDE DEF Step
  <2>1. CASE n = 0
    BY <1>4, <2>1
  <2>2. CASE n # 0
    <3>1. PICK m \in Nat : n = m + 1 /\ n - 1 = m
      <4>1. n - 1 \in Nat /\ n = (n - 1) + 1
        BY <2>2
      <4> QED BY <4>1
    <3>2. After(g, n) = Step(g[m])
      BY <2>2, <3>1
    <3>3. k - 1 \notin B
      BY <1>3
    <3>4. g[n] = IF g[m] \in B THEN g[m] + w[g[m]] ELSE g[m]
      BY <1>4, <3>1
    <3>5. g[m] \in B \/ g[m] = k - 1
      BY <1>4
    <3> HIDE DEF After
    <3> QED BY <1>5, <1>6, <3>2, <3>3, <3>4, <3>5
  <2> QED BY <2>1, <2>2
<1>8. Is(g)
  <2> HIDE DEF After
  <2> QED BY <1>4, <1>7
<1>9. Walk = CHOOSE l : Is(l)
  BY <1>1 DEF Walk
<1>10. PICK l : l = Walk
  OBVIOUS
<1>11. Is(l)
  <2> HIDE DEF Is
  <2> QED BY <1>8, <1>9, <1>10
<1>12. \A n \in Nat : l[n] = After(l, n)
  <2>1. \A n \in Nat : [i \in Nat |-> After(l, i)][n] = After(l, n)
    OBVIOUS
  <2> HIDE DEF After
  <2> QED BY <1>11, <2>1
<1> HIDE DEF Step
<1> DEFINE Bad == {n \in Nat : l[n] # g[n]}
<1>13. Bad = {}
  <2> SUFFICES ASSUME Bad # {} PROVE FALSE
    OBVIOUS
  <2>1. PICK n \in Bad : \A i \in Bad : n <= i
    <3>1. Bad \in SUBSET Nat
      OBVIOUS
    <3> HIDE DEF Bad
    <3> QED BY <3>1, NatMin
  <2>2. n \in Nat /\ l[n] # g[n]
    BY <2>1
  <2>3. n # 0 => n - 1 \in Nat /\ n - 1 \notin Bad
    BY <2>1, <2>2
  <2>4. n # 0 => l[n - 1] = g[n - 1]
    BY <2>3
  <2>5. After(l, n) = After(g, n)
    BY <2>4
  <2> HIDE DEF After
  <2> QED BY <1>7, <1>12, <2>2, <2>5
<1> QED BY <1>10, <1>13

\* The walk finds the blocks, and the headers say which are free.
LEMMA BlocksAre ==
  ASSUME NEW B, NEW w, NEW A, HeapOk(heap, B, w, A)
  PROVE  /\ Walk[MaxBlocks] = Epilogue /\ Blocks = B
         /\ \A b \in B : BlockIs(heap, w, b) /\ (IsFree(b) <=> b \notin A)
<1>1. PICK h, k : h = heap /\ k = h.brk
  OBVIOUS
<1>2. h \in HeapType /\ Layout(k, B, w) /\ Tags(h.mem, B, w, A)
  BY <1>1 DEF HeapOk, Consistent
<1>3. PICK g : Visits(g, k, B, w)
  BY <1>2, Visited
<1>4. \A n \in Nat : Walk[n] = g[n]
  BY <1>1, <1>3, WalkIs
<1>5. PICK q : q = k \div 4
  OBVIOUS
<1>6. g[q] = k - 1 /\ q \in Nat /\ \A b \in B : \E n \in 0 .. q : g[n] = b
  BY <1>2, <1>3, <1>5, VisitsAll
<1>7. MaxBlocks = q /\ Epilogue = k - 1
  BY <1>1, <1>5 DEF MaxBlocks, Epilogue
<1>8. Walk[MaxBlocks] = Epilogue
  BY <1>4, <1>6, <1>7
<1>9. k - 1 \notin B
  <2>1. k \in Nat /\ \A b \in B : b \in Nat /\ b + 4 <= k - 1
    BY <1>2, InHeap DEF Layout
  <2> QED BY <2>1
<1>10. Blocks = B
  <2>1. Blocks = {Walk[n] : n \in 0 .. q} \ {k - 1}
    BY <1>7 DEF Blocks
  <2>2. \A n \in 0 .. q : Walk[n] = g[n] /\ g[n] \in B \cup {k - 1}
    BY <1>3, <1>4, <1>6 DEF Visits
  <2> QED BY <1>6, <1>9, <2>1, <2>2
<1>11. \A b \in B : BlockIs(h, w, b) /\ (IsFree(b) <=> b \notin A)
  <2> TAKE b \in B
  <2>1. BlockIs(h, w, b)
    BY <1>1, <1>2, TagValues
  <2>2. IsFree(b) <=> b \notin A
    BY <1>1, <1>2 DEF IsFree, Header, Tags
  <2> QED BY <2>1, <2>2
<1> QED BY <1>1, <1>8, <1>10, <1>11

LEMMA InvTile == AllocInv => BlocksTile
<1> SUFFICES ASSUME AllocInv PROVE BlocksTile
  OBVIOUS
<1>1. PICK B, w, A : HeapOk(heap, B, w, A) /\ LiveOk(live, w, A)
  BY DEF AllocInv, Sound, Good
<1>2. /\ Walk[MaxBlocks] = Epilogue /\ Blocks = B
      /\ \A b \in B : BlockIs(heap, w, b) /\ (IsFree(b) <=> b \notin A)
  BY <1>1, BlocksAre
<1>3. Layout(heap.brk, B, w) /\ A \in SUBSET B
  BY <1>1 DEF HeapOk, Consistent
<1>4. \A b \in B : Size(heap, b) >= 32 /\ Size(heap, b) % 16 = 0
  <2> TAKE b \in B
  <2>1. Size(heap, b) = 8 * w[b] /\ w[b] \in Nat /\ w[b] >= 4 /\ w[b] % 2 = 0
    BY <1>2, <1>3 DEF BlockIs, Layout, Even
  <2>2. PICK n \in Nat : n = w[b]
    BY <2>1
  <2>3. n % 2 = 0 /\ n >= 4 => 8 * n >= 32 /\ (8 * n) % 16 = 0
    OBVIOUS
  <2> QED BY <2>1, <2>2, <2>3
<1>5. {b + 1 : b \in {c \in B : ~ IsFree(c)}} = {l.ptr : l \in live}
  <2>1. {c \in B : ~ IsFree(c)} = A
    BY <1>2, <1>3
  <2>2. \A l \in live : \E b \in A : l.ptr = b + 1
    BY <1>1 DEF LiveOk
  <2>3. \A b \in A : \E l \in live : l.ptr = b + 1
    BY <1>1 DEF LiveOk
  <2> QED BY <2>1, <2>2, <2>3
<1>6. \A l \in live : l.size + 8 <= Size(heap, l.ptr - 1)
  <2> TAKE l \in live
  <2>1. PICK b \in A : l.ptr = b + 1 /\ l.size + 8 <= 8 * w[b]
    BY <1>1 DEF LiveOk
  <2>2. Size(heap, b) = 8 * w[b] /\ b \in Nat
    BY <1>2, <1>3 DEF BlockIs
  <2>3. l.ptr - 1 = b
    BY <2>1, <2>2
  <2> QED BY <2>1, <2>2, <2>3
<1> QED BY <1>2, <1>4, <1>5, <1>6 DEF BlocksTile

LEMMA InvTags == AllocInv => TagsRight
<1> SUFFICES ASSUME AllocInv PROVE TagsRight
  OBVIOUS
<1>1. PICK B, w, A : HeapOk(heap, B, w, A)
  BY DEF AllocInv, Sound, Good
<1>2. /\ Blocks = B
      /\ \A b \in B : BlockIs(heap, w, b) /\ (IsFree(b) <=> b \notin A)
  BY <1>1, BlocksAre
<1>3. Tags(heap.mem, B, w, A)
  BY <1>1 DEF HeapOk, Consistent
<1> SUFFICES ASSUME NEW b \in B
             PROVE  /\ Bit1(Header(heap, NextBlock(heap, b))) <=> ~ IsFree(b)
                    /\ IsFree(b) => Header(heap, NextBlock(heap, b) - 1) = Size(heap, b)
                    /\ b = 1 => Bit1(Header(heap, b))
  BY <1>2 DEF TagsRight
<1>4. /\ NextBlock(heap, b) = b + w[b] /\ Size(heap, b) = 8 * w[b]
      /\ b \in Nat /\ w[b] \in Nat
  BY <1>2 DEF BlockIs
<1>5. Bit1(heap.mem[b + w[b]]) <=> ~ IsFree(b)
  BY <1>2, <1>3 DEF Tags
<1>6. IsFree(b) => heap.mem[b + w[b] - 1] = 8 * w[b]
  BY <1>2, <1>3 DEF Tags
<1>7. b = 1 => Bit1(heap.mem[b])
  BY <1>3 DEF Tags
<1>8. /\ Header(heap, NextBlock(heap, b)) = heap.mem[b + w[b]]
      /\ Header(heap, NextBlock(heap, b) - 1) = heap.mem[b + w[b] - 1]
      /\ Header(heap, b) = heap.mem[b]
  BY <1>4 DEF Header
<1>9. Bit1(Header(heap, NextBlock(heap, b))) <=> ~ IsFree(b)
  BY <1>5, <1>8, Zenon
<1>10. IsFree(b) => Header(heap, NextBlock(heap, b) - 1) = Size(heap, b)
  BY <1>4, <1>6, <1>8
<1>11. b = 1 => Bit1(Header(heap, b))
  BY <1>7, <1>8, Zenon
<1> QED BY <1>9, <1>10, <1>11, Zenon

LEMMA InvCoalesced == AllocInv => Coalesced
<1> SUFFICES ASSUME AllocInv PROVE Coalesced
  OBVIOUS
<1>1. PICK B, w, A : HeapOk(heap, B, w, A)
  BY DEF AllocInv, Sound, Good
<1>2. /\ Blocks = B
      /\ \A b \in B : BlockIs(heap, w, b) /\ (IsFree(b) <=> b \notin A)
  BY <1>1, BlocksAre
<1>3. Merged(heap.brk, B, w, A) /\ A \in SUBSET B
  BY <1>1 DEF HeapOk, Consistent
<1>4. \A b \in B : NextBlock(heap, b) = b + w[b]
  BY <1>2 DEF BlockIs
<1> QED BY <1>2, <1>3, <1>4 DEF Coalesced, Merged, Epilogue

LEMMA InvList == AllocInv => FreeListExact
<1> SUFFICES ASSUME AllocInv PROVE FreeListExact
  OBVIOUS
<1>1. PICK B, w, A : HeapOk(heap, B, w, A)
  BY DEF AllocInv, Sound, Good
<1>2. Blocks = B /\ \A b \in B : IsFree(b) <=> b \notin A
  BY <1>1, BlocksAre
<1>3. Layout(heap.brk, B, w) /\ Chain(heap, B \ A)
  BY <1>1 DEF HeapOk, Consistent
<1>4. PICK F, S : S = B \ A /\ Lists(F, S) /\ Linked(heap.mem, heap.free_block_pointer, F)
  BY <1>3 DEF Chain
<1>5. Apart(S)
  BY <1>3, <1>4, BlocksAreApart
<1>6. PICK l : l = FreeBlock(heap)
  OBVIOUS
<1>7. \A n \in Nat : l[n] = Nth(F, n + 1)
  BY <1>4, <1>5, <1>6, FreeBlockIs
<1>8. PICK q \in Nat, len \in Nat : q = MaxBlocks /\ len = Len(F) /\ len <= q
  <2>1. S \in SUBSET B
    BY <1>4
  <2>2. Len(F) \in Nat /\ heap.brk \div 4 \in Nat /\ Len(F) <= heap.brk \div 4
    BY <1>3, <1>4, <2>1, ListFits
  <2> QED BY <2>2 DEF MaxBlocks
<1>9. PICK Nodes : Nodes = {n \in 0 .. q : l[n] # NULL}
  OBVIOUS
<1>10. \A n \in Nat : l[n] = IF n < len THEN F[n + 1] ELSE NULL
  <2> TAKE n \in Nat
  <2>1. n < len <=> n + 1 \in 1 .. Len(F)
    BY <1>8
  <2> QED BY <1>7, <2>1 DEF Nth
<1>11. \A n \in Nat : n < len => F[n + 1] \in S /\ F[n + 1] # NULL
  <2> TAKE n \in Nat
  <2> SUFFICES ASSUME n < len PROVE F[n + 1] \in S /\ F[n + 1] # NULL
    OBVIOUS
  <2>1. n + 1 \in 1 .. Len(F)
    BY <1>8
  <2>2. F[n + 1] \in S
    BY <1>4, <2>1 DEF Lists
  <2> QED BY <1>5, <2>2 DEF Apart, NULL
<1>12. \A n \in Nat : n \in Nodes <=> n < len
  BY <1>8, <1>9, <1>10, <1>11
<1>13. Nodes \in SUBSET Nat
  BY <1>8, <1>9
<1>14. l[q] = NULL
  BY <1>8, <1>10
<1>15. {l[n] : n \in Nodes} = S
  <2>1. \A n \in Nodes : l[n] \in S
    BY <1>10, <1>11, <1>12, <1>13
  <2>2. ASSUME NEW b \in S PROVE \E n \in Nodes : l[n] = b
    <3>1. PICK i \in 1 .. Len(F) : F[i] = b
      BY <1>4 DEF Lists
    <3>2. i - 1 \in Nat /\ i - 1 < len /\ (i - 1) + 1 = i
      BY <1>8, <3>1
    <3>3. i - 1 \in Nodes /\ l[i - 1] = b
      BY <1>10, <1>12, <3>1, <3>2
    <3> QED BY <3>3
  <2> QED BY <2>1, <2>2
<1>16. S = {b \in B : IsFree(b)}
  BY <1>2, <1>4
<1>17. ASSUME NEW n \in Nodes
       PROVE  prev_node(heap, l[n]) = IF n = 0 THEN NULL ELSE l[n - 1]
  <2>1. n \in Nat /\ n < len /\ l[n] = F[n + 1]
    BY <1>10, <1>12, <1>13
  <2>2. n + 1 \in 1 .. Len(F) /\ (n + 1) - 1 = n
    BY <1>8, <2>1
  <2>3. heap.mem[F[n + 1] + 2] = Nth(F, n)
    BY <1>4, <2>2 DEF Linked
  <2>4. CASE n = 0
    <3>1. n \notin 1 .. Len(F)
      BY <2>4
    <3> QED BY <2>1, <2>3, <2>4, <3>1 DEF prev_node, Nth
  <2>5. CASE n # 0
    <3>1. n - 1 \in Nat /\ (n - 1) + 1 = n
      BY <2>1, <2>5
    <3>2. l[n - 1] = Nth(F, n)
      BY <1>7, <3>1
    <3> QED BY <2>1, <2>3, <2>5, <3>2 DEF prev_node
  <2> QED BY <2>4, <2>5
<1> QED BY <1>2, <1>6, <1>8, <1>9, <1>14, <1>15, <1>16, <1>17 DEF FreeListExact

LEMMA InvApart == AllocInv => NoOverlap
<1> SUFFICES ASSUME AllocInv PROVE NoOverlap
  OBVIOUS
<1>1. PICK B, w, A : HeapOk(heap, B, w, A) /\ LiveOk(live, w, A)
  BY DEF AllocInv, Sound, Good
<1>2. PICK k : k = heap.brk
  OBVIOUS
<1>3. Layout(k, B, w) /\ A \in SUBSET B
  BY <1>1, <1>2 DEF HeapOk, Consistent
<1>4. /\ k \in Nat
      /\ \A b \in B : b \in Nat /\ w[b] \in Nat /\ b >= 1 /\ b + w[b] <= k - 1 /\ (b + 1) % 2 = 0
  BY <1>3, InHeap DEF Layout, Even
<1> SUFFICES ASSUME NEW l \in live
             PROVE  /\ Words(l) \in SUBSET (1 .. (k - 1 - 1)) /\ l.ptr % 2 = 0
                    /\ \A m \in live \ {l} : Words(l) \cap Words(m) = {}
  BY <1>2 DEF NoOverlap, Epilogue
<1>5. PICK b \in A : l.ptr = b + 1 /\ Words(l) \in SUBSET ((b + 1) .. (b + w[b] - 1))
  BY <1>1, LiveIs
<1>6. Words(l) \in SUBSET (1 .. (k - 1 - 1))
  <2>1. b \in Nat /\ w[b] \in Nat /\ b >= 1 /\ b + w[b] <= k - 1
    BY <1>3, <1>4
  <2>2. \A a \in (b + 1) .. (b + w[b] - 1) : a \in 1 .. (k - 1 - 1)
    BY <1>4, <2>1
  <2> QED BY <1>5, <2>2
<1>7. l.ptr % 2 = 0
  BY <1>3, <1>4, <1>5
<1>8. ASSUME NEW m \in live \ {l} PROVE Words(l) \cap Words(m) = {}
  <2>1. PICK c \in A : m.ptr = c + 1 /\ Words(m) \in SUBSET ((c + 1) .. (c + w[c] - 1))
    BY <1>1, LiveIs
  <2>2. m.ptr # l.ptr
    BY <1>1 DEF LiveOk
  <2>3. b # c /\ b \in B /\ c \in B
    BY <1>3, <1>5, <2>1, <2>2
  <2>4. b + w[b] <= c \/ c + w[c] <= b
    BY <1>3, <2>3, BlocksApart
  <2>5. b \in Nat /\ w[b] \in Nat /\ c \in Nat /\ w[c] \in Nat
    BY <1>4, <2>3
  <2>6. \A a \in (b + 1) .. (b + w[b] - 1) : a \notin (c + 1) .. (c + w[c] - 1)
    BY <2>4, <2>5
  <2> QED BY <1>5, <2>1, <2>6
<1> QED BY <1>6, <1>7, <1>8

-----------------------------------------------------------------------------
(* The theorems.                                                           *)

\* BlocksTile: the headers lead from the prologue to the epilogue through
\* blocks of legal sizes, and the allocated ones are the client's, each large
\* enough for what it asked for.
THEOREM AllocatorBlocksTile == ASSUME LargeRequests PROVE Spec => []BlocksTile
BY AllocatorInv, InvTile, PTL

\* TagsRight: the flags and footers that free and coalesce go by tell the truth.
THEOREM AllocatorTagsRight == ASSUME LargeRequests PROVE Spec => []TagsRight
BY AllocatorInv, InvTags, PTL

\* FreeListExact: the list that search goes through holds every free block,
\* only free blocks, each once, with right links in both directions.
THEOREM AllocatorFreeListExact == ASSUME LargeRequests PROVE Spec => []FreeListExact
BY AllocatorInv, InvList, PTL

\* Coalesced: free leaves no two free blocks side by side.
THEOREM AllocatorCoalesced == ASSUME LargeRequests PROVE Spec => []Coalesced
BY AllocatorInv, InvCoalesced, PTL

\* NoOverlap: what malloc hands out lies within the heap, apart from all that
\* it has handed out before, and is aligned to 16 bytes.  Requests of 40 bytes
\* or less break this.
THEOREM AllocatorNoOverlap == ASSUME LargeRequests PROVE Spec => []NoOverlap
BY AllocatorInv, InvApart, PTL
=============================================================================
