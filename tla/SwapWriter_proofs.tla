-------------------------- MODULE SwapWriter_proofs --------------------------
(***************************************************************************)
(* Proofs about the swap_writer of suspend.c, for arrays of extents and    *)
(* swap areas of any size.  The first part is about alloc_swap(): in       *)
(* whatever order the kernel hands out swap pages, its array of extents    *)
(* stays exact.                                                            *)
(***************************************************************************)
EXTENDS SwapReader, FiniteSetTheorems, TLAPS

Extent == [start : Nat, end : Nat]
Array == [Slots -> Extent]

(* The first n extents of array e are sorted with gaps between them, except *)
(* for one in the last slot; they have no page in common, and are the set P *)
(* of swap pages.                                                           *)
Ordered(e, n) ==
    /\ \A s \in 0..(n - 1) : e[s].start < e[s].end
    /\ \A s, t \in 0..(n - 1) :
           s < t /\ t < max_extents => e[s].end < e[t].start

Apart(e, n) ==
    \A s, t \in 0..(n - 1) :
        s # t => e[s].end <= e[t].start \/ e[t].end <= e[s].start

Holds(e, n, P) ==
    \A p \in Pages :
        p \in P <=> \E s \in 0..(n - 1) : e[s].start <= p /\ p < e[s].end

Exact(e, n, P) == Ordered(e, n) /\ Apart(e, n) /\ Holds(e, n, P)

-------------------------------------------------------------------------------
(* Facts about arrays.                                                      *)

(* What the slots of an array hold. *)
LEMMA SlotTypes ==
    ASSUME NEW e \in Array, NEW t \in Slots
    PROVE  /\ t \in Nat /\ t <= max_extents
           /\ e[t].start \in Nat /\ e[t].end \in Nat
BY SwapAssumption DEF Array, Extent, Slots

(* Sorted extents have no page in common. *)
LEMMA OrderedApart ==
    ASSUME NEW e \in Array, NEW n \in 0..max_extents, Ordered(e, n)
    PROVE  Apart(e, n)
<1> SUFFICES ASSUME NEW s \in 0..(n - 1), NEW t \in 0..(n - 1), s # t
             PROVE  e[s].end <= e[t].start \/ e[t].end <= e[s].start
  BY DEF Apart
<1>1. n \in Nat /\ n <= max_extents /\ max_extents \in Nat
  BY SwapAssumption
<1>2. s \in Slots /\ t \in Slots
  BY <1>1 DEF Slots
<1>3. /\ e[s].start \in Nat /\ e[s].end \in Nat
      /\ e[t].start \in Nat /\ e[t].end \in Nat
  BY <1>2, SlotTypes, Zenon
<1>4. CASE s < t
  BY <1>1, <1>3, <1>4 DEF Ordered
<1>5. CASE t < s
  BY <1>1, <1>3, <1>5 DEF Ordered
<1> QED BY <1>1, <1>4, <1>5

(* A page next to one extent and to no other is added to it. *)
LEMMA GrownExact ==
    ASSUME NEW e \in Array, NEW f \in Array, NEW n \in 1..max_extents, NEW P,
           Exact(e, n, P), NEW p \in Pages, NEW m \in 0..(n - 1),
           \A t \in 0..(n - 1) : t # m => f[t] = e[t],
           \/ /\ p = e[m].start - 1
              /\ f[m].start = p /\ f[m].end = e[m].end
              /\ m > 0 => e[m - 1].end < p
           \/ /\ p = e[m].end
              /\ f[m].start = e[m].start /\ f[m].end = p + 1
              /\ m + 1 < n => p + 1 < e[m + 1].start
    PROVE  Exact(f, n, P \cup {p})
<1>1. /\ n \in Nat /\ max_extents \in Nat /\ n <= max_extents /\ m \in Nat
      /\ \A t \in 0..(n - 1) : t \in Slots /\ t \in Nat /\ t < max_extents
      /\ p \in Nat
  BY SwapAssumption DEF Slots, Pages
<1>2. \A t \in 0..(n - 1) : /\ e[t].start \in Nat /\ e[t].end \in Nat
                            /\ f[t].start \in Nat /\ f[t].end \in Nat
  BY <1>1, SlotTypes, Zenon
<1>3. /\ \A s \in 0..(n - 1) : e[s].start < e[s].end
      /\ \A s, t \in 0..(n - 1) : s < t => e[s].end < e[t].start
  BY <1>1 DEF Exact, Ordered
<1>4. \A s \in 0..(n - 1) : f[s].start < f[s].end
  BY <1>1, <1>2, <1>3
<1>5. ASSUME NEW s \in 0..(n - 1), NEW t \in 0..(n - 1), s < t
      PROVE  f[s].end < f[t].start
  <2>1. CASE s # m /\ t # m
    BY <2>1, <1>3, <1>5
  <2>2. CASE s = m
    <3>1. m + 1 \in 0..(n - 1) /\ (t = m + 1 \/ m + 1 < t)
      BY <2>2, <1>1, <1>5
    <3>2. f[t] = e[t] /\ e[m + 1].start <= e[t].start
      <4>1. CASE t = m + 1
        BY <4>1, <2>2, <1>1, <1>2
      <4>2. CASE m + 1 < t
        BY <4>2, <3>1, <2>2, <1>1, <1>2, <1>3
      <4> QED BY <3>1, <4>1, <4>2
    <3>3. e[m].end < e[m + 1].start
      BY <3>1, <1>1, <1>3
    <3> QED BY <3>1, <3>2, <3>3, <2>2, <1>1, <1>2
  <2>3. CASE t = m
    <3>1. m - 1 \in 0..(n - 1) /\ (s = m - 1 \/ s < m - 1) /\ m > 0
      BY <2>3, <1>1, <1>5
    <3>2. f[s] = e[s] /\ e[s].end <= e[m - 1].end
      <4>1. CASE s = m - 1
        BY <4>1, <2>3, <1>1, <1>2
      <4>2. CASE s < m - 1
        BY <4>2, <3>1, <2>3, <1>1, <1>2, <1>3
      <4> QED BY <3>1, <4>1, <4>2
    <3>3. e[m - 1].end < e[m].start
      BY <3>1, <1>1, <1>3
    <3> QED BY <3>1, <3>2, <3>3, <2>3, <1>1, <1>2
  <2> QED BY <2>1, <2>2, <2>3
<1>6. Ordered(f, n)
  BY <1>4, <1>5 DEF Ordered
<1>7. Holds(f, n, P \cup {p})
  <2> SUFFICES ASSUME NEW q \in Pages
               PROVE  q \in P \cup {p} <=>
                        \E s \in 0..(n - 1) : f[s].start <= q /\ q < f[s].end
    BY DEF Holds
  <2>1. q \in P <=> \E s \in 0..(n - 1) : e[s].start <= q /\ q < e[s].end
    BY DEF Exact, Holds
  <2>2. q \in Nat
    BY DEF Pages
  <2>3. \A s \in 0..(n - 1) : s # m =>
          (e[s].start <= q /\ q < e[s].end <=> f[s].start <= q /\ q < f[s].end)
    OBVIOUS
  <2>4. f[m].start <= q /\ q < f[m].end <=>
          q = p \/ (e[m].start <= q /\ q < e[m].end)
    BY <1>1, <1>2, <1>3, <2>2
  <2> QED BY <2>1, <2>3, <2>4
<1> QED BY <1>6, <1>7, <1>1, OrderedApart DEF Exact

(* A page between two extents joins them: extents c - 1 and c become one,   *)
(* and the later ones are pulled forward.                                   *)
Joined(e, f, n, c, p) ==
    /\ c \in 1..(n - 1)
    /\ e[c - 1].end = p /\ e[c].start = p + 1
    /\ f[c - 1].start = e[c - 1].start /\ f[c - 1].end = e[c].end
    /\ \A t \in 0..(n - 2) : /\ t < c - 1 => f[t] = e[t]
                             /\ t >= c => f[t] = e[t + 1]

(* They are exact then, with the page added. *)
LEMMA MergedExact ==
    ASSUME NEW e \in Array, NEW f \in Array, NEW n \in 1..max_extents, NEW P,
           Exact(e, n, P), NEW p \in Pages, NEW c, Joined(e, f, n, c, p)
    PROVE  Exact(f, n - 1, P \cup {p})
<1> USE DEF Joined
<1>1. /\ n \in Nat /\ max_extents \in Nat /\ n <= max_extents /\ c \in Nat
      /\ c >= 1 /\ c < n /\ c - 1 \in 0..(n - 2)
      /\ \A t \in 0..(n - 1) : t \in Slots /\ t \in Nat /\ t < max_extents
      /\ \A t \in 0..(n - 2) : t \in 0..(n - 1) /\ t + 1 \in 0..(n - 1)
      /\ p \in Nat /\ n - 1 \in 0..max_extents
      /\ (n - 1) - 1 = n - 2
  BY SwapAssumption DEF Slots, Pages
<1>2. \A t \in 0..(n - 1) : /\ e[t].start \in Nat /\ e[t].end \in Nat
                            /\ f[t].start \in Nat /\ f[t].end \in Nat
  BY <1>1, SlotTypes, Zenon
<1>3. /\ \A s \in 0..(n - 1) : e[s].start < e[s].end
      /\ \A s, t \in 0..(n - 1) : s < t => e[s].end < e[t].start
  BY <1>1 DEF Exact, Ordered
<1>4. \A s \in 0..(n - 2) : f[s].start < f[s].end
  BY <1>1, <1>2, <1>3
<1>5. ASSUME NEW s \in 0..(n - 2), NEW t \in 0..(n - 2), s < t
      PROVE  f[s].end < f[t].start
  <2> DEFINE u == IF s < c - 1 THEN s ELSE s + 1
             v == IF t <= c - 1 THEN t ELSE t + 1
  <2>1. u \in 0..(n - 1) /\ v \in 0..(n - 1) /\ u < v
    BY <1>1, <1>5
  <2>2. f[s].end = e[u].end
    BY <1>1
  <2>3. f[t].start = e[v].start
    BY <1>1
  <2> HIDE DEF u, v
  <2> QED BY <2>1, <2>2, <2>3, <1>3
<1>6. Ordered(f, n - 1)
  BY <1>1, <1>4, <1>5 DEF Ordered
<1>7. Holds(f, n - 1, P \cup {p})
  <2> SUFFICES ASSUME NEW q \in Pages
               PROVE  q \in P \cup {p} <=>
                        \E s \in 0..(n - 2) : f[s].start <= q /\ q < f[s].end
    BY <1>1 DEF Holds
  <2>1. q \in P <=> \E s \in 0..(n - 1) : e[s].start <= q /\ q < e[s].end
    BY DEF Exact, Holds
  <2>2. q \in Nat
    BY DEF Pages
  <2>3. f[c - 1].start <= q /\ q < f[c - 1].end <=>
          \/ q = p
          \/ e[c - 1].start <= q /\ q < e[c - 1].end
          \/ e[c].start <= q /\ q < e[c].end
    BY <1>1, <1>2, <1>3, <2>2
  <2>4. ASSUME NEW s \in 0..(n - 1), e[s].start <= q, q < e[s].end
        PROVE  \E t \in 0..(n - 2) : f[t].start <= q /\ q < f[t].end
    <3>1. CASE s < c - 1
      BY <3>1, <2>4, <1>1
    <3>2. CASE s = c - 1 \/ s = c
      BY <3>2, <2>3, <2>4, <1>1
    <3>3. CASE s > c
      <4>1. s - 1 \in 0..(n - 2) /\ s - 1 >= c /\ (s - 1) + 1 = s
        BY <3>3, <1>1
      <4> QED BY <4>1, <2>4
    <3> QED BY <3>1, <3>2, <3>3, <1>1
  <2>5. ASSUME NEW t \in 0..(n - 2), f[t].start <= q, q < f[t].end
        PROVE  q = p \/ \E s \in 0..(n - 1) : e[s].start <= q /\ q < e[s].end
    <3>1. CASE t < c - 1
      BY <3>1, <2>5, <1>1
    <3>2. CASE t = c - 1
      BY <3>2, <2>3, <2>5, <1>1
    <3>3. CASE t >= c
      BY <3>3, <2>5, <1>1
    <3> QED BY <3>1, <3>2, <3>3, <1>1
  <2>6. \E t \in 0..(n - 2) : f[t].start <= p /\ p < f[t].end
    <3>1. f[c - 1].start <= p /\ p < f[c - 1].end
      BY <1>1, <1>2, <1>3
    <3> QED BY <3>1, <1>1
  <2> QED BY <2>1, <2>4, <2>5, <2>6
<1> QED BY <1>6, <1>7, <1>1, OrderedApart DEF Exact

(* A page next to no extent becomes one of its own, in its place; the later *)
(* ones are pushed backwards.                                               *)
LEMMA InsertedExact ==
    ASSUME NEW e \in Array, NEW f \in Array, NEW n \in 1..(max_extents - 1),
           NEW P, Exact(e, n, P), NEW p \in Pages, NEW m \in 0..n,
           \A s \in 0..(m - 1) : e[s].end < p,
           \A s \in m..(n - 1) : p + 1 < e[s].start,
           \A t \in 0..n : /\ t < m => f[t] = e[t]
                           /\ t > m => f[t] = e[t - 1],
           f[m].start = p, f[m].end = p + 1
    PROVE  Exact(f, n + 1, P \cup {p})
<1>1. /\ n \in Nat /\ max_extents \in Nat /\ n < max_extents /\ m \in Nat
      /\ m <= n
      /\ \A t \in 0..n : t \in Slots /\ t \in Nat /\ t < max_extents
      /\ \A t \in 0..(n - 1) : t \in 0..n
      /\ p \in Nat /\ n + 1 \in 0..max_extents
      /\ (n + 1) - 1 = n
  BY SwapAssumption DEF Slots, Pages
<1>2. \A t \in 0..n : /\ e[t].start \in Nat /\ e[t].end \in Nat
                      /\ f[t].start \in Nat /\ f[t].end \in Nat
  BY <1>1, SlotTypes, Zenon
<1>3. /\ \A s \in 0..(n - 1) : e[s].start < e[s].end
      /\ \A s, t \in 0..(n - 1) : s < t => e[s].end < e[t].start
  BY <1>1 DEF Exact, Ordered
<1>4. ASSUME NEW s \in 0..n PROVE f[s].start < f[s].end
  <2>1. CASE s < m
    BY <2>1, <1>1, <1>3
  <2>2. CASE s = m
    BY <2>2, <1>1
  <2>3. CASE s > m
    BY <2>3, <1>1, <1>3
  <2> QED BY <2>1, <2>2, <2>3, <1>1
<1>5. ASSUME NEW s \in 0..n, NEW t \in 0..n, s < t
      PROVE  f[s].end < f[t].start
  <2>1. CASE t < m
    BY <2>1, <1>1, <1>3, <1>5
  <2>2. CASE t = m
    BY <2>2, <1>1, <1>5
  <2>3. CASE t > m /\ s = m
    BY <2>3, <1>1, <1>5
  <2>4. CASE t > m /\ s < m
    <3>1. s \in 0..(n - 1) /\ t - 1 \in 0..(n - 1) /\ s < t - 1
      BY <2>4, <1>1
    <3> QED BY <3>1, <2>4, <1>3
  <2>5. CASE t > m /\ s > m
    <3>1. s - 1 \in 0..(n - 1) /\ t - 1 \in 0..(n - 1) /\ s - 1 < t - 1
      BY <2>5, <1>1, <1>5
    <3> QED BY <3>1, <2>5, <1>3
  <2> QED BY <2>1, <2>2, <2>3, <2>4, <2>5, <1>1
<1>6. Ordered(f, n + 1)
  BY <1>1, <1>4, <1>5 DEF Ordered
<1>7. Holds(f, n + 1, P \cup {p})
  <2> SUFFICES ASSUME NEW q \in Pages
               PROVE  q \in P \cup {p} <=>
                        \E s \in 0..n : f[s].start <= q /\ q < f[s].end
    BY <1>1 DEF Holds
  <2>1. q \in P <=> \E s \in 0..(n - 1) : e[s].start <= q /\ q < e[s].end
    BY DEF Exact, Holds
  <2>2. q \in Nat
    BY DEF Pages
  <2>3. f[m].start <= q /\ q < f[m].end <=> q = p
    BY <1>1, <2>2
  <2>4. ASSUME NEW s \in 0..(n - 1), e[s].start <= q, q < e[s].end
        PROVE  \E t \in 0..n : f[t].start <= q /\ q < f[t].end
    <3>1. CASE s < m
      BY <3>1, <2>4, <1>1
    <3>2. CASE s >= m
      <4>1. s + 1 \in 0..n /\ s + 1 > m /\ (s + 1) - 1 = s
        BY <3>2, <1>1
      <4> QED BY <4>1, <2>4
    <3> QED BY <3>1, <3>2, <1>1
  <2>5. ASSUME NEW t \in 0..n, f[t].start <= q, q < f[t].end
        PROVE  q = p \/ \E s \in 0..(n - 1) : e[s].start <= q /\ q < e[s].end
    <3>1. CASE t < m
      BY <3>1, <2>5, <1>1
    <3>2. CASE t = m
      BY <3>2, <2>3, <2>5
    <3>3. CASE t > m
      BY <3>3, <2>5, <1>1
    <3> QED BY <3>1, <3>2, <3>3, <1>1
  <2>6. \E t \in 0..n : f[t].start <= p /\ p < f[t].end
    BY <1>1
  <2> QED BY <2>1, <2>4, <2>5, <2>6
<1> QED BY <1>6, <1>7, <1>1, OrderedApart DEF Exact

(* When there is no room left the new extent is put at the end, in the last *)
(* slot, where it need not be in order.                                     *)
LEMMA AppendedExact ==
    ASSUME NEW e \in Array, NEW f \in Array, NEW P,
           Exact(e, max_extents, P), NEW p \in Pages, p \notin P,
           \A t \in 0..(max_extents - 1) : f[t] = e[t],
           f[max_extents].start = p, f[max_extents].end = p + 1
    PROVE  Exact(f, max_extents + 1, P \cup {p})
<1> DEFINE n == max_extents
<1>1. /\ n \in Nat /\ n > 0
      /\ \A t \in 0..n : t \in Slots /\ t \in Nat
      /\ \A t \in 0..(n - 1) : t \in 0..n /\ t < n /\ t # n
      /\ \A t \in 0..n : t = n \/ t \in 0..(n - 1)
      /\ p \in Nat /\ n \in 0..n
      /\ (n + 1) - 1 = n
  BY SwapAssumption DEF Slots, Pages
<1> HIDE DEF n
<1>2. \A t \in 0..n : /\ e[t].start \in Nat /\ e[t].end \in Nat
                      /\ f[t].start \in Nat /\ f[t].end \in Nat
  BY <1>1, SlotTypes, Zenon
<1>3. /\ \A s \in 0..(n - 1) : e[s].start < e[s].end
      /\ \A s, t \in 0..(n - 1) : s < t => e[s].end < e[t].start
      /\ \A s, t \in 0..(n - 1) :
           s # t => e[s].end <= e[t].start \/ e[t].end <= e[s].start
      /\ \A s \in 0..(n - 1) : f[s] = e[s]
      /\ f[n].start = p /\ f[n].end = p + 1
  BY <1>1 DEF Exact, Ordered, Apart, n
<1>4. Ordered(f, n + 1)
  <2>1. \A s \in 0..n : f[s].start < f[s].end
    BY <1>1, <1>3
  <2>2. \A s, t \in 0..n : s < t /\ t < n => f[s].end < f[t].start
    BY <1>1, <1>3
  <2> QED BY <1>1, <2>1, <2>2 DEF Ordered, n
<1>5. \A s \in 0..(n - 1) : e[s].end <= p \/ p < e[s].start
  BY <1>1, <1>2 DEF Exact, Holds, n
<1>6. Apart(f, n + 1)
  <2>1. ASSUME NEW s \in 0..n, NEW t \in 0..n, s # t
        PROVE  f[s].end <= f[t].start \/ f[t].end <= f[s].start
    <3>1. CASE s = n
      <4>1. t \in 0..(n - 1) /\ e[t].start \in Nat /\ e[t].end \in Nat
        BY <1>1, <1>2, <2>1, <3>1
      <4> QED BY <1>1, <1>3, <1>5, <3>1, <4>1
    <3>2. CASE t = n
      <4>1. s \in 0..(n - 1) /\ e[s].start \in Nat /\ e[s].end \in Nat
        BY <1>1, <1>2, <2>1, <3>2
      <4> QED BY <1>1, <1>3, <1>5, <3>2, <4>1
    <3>3. CASE s # n /\ t # n
      BY <1>1, <1>3, <2>1, <3>3
    <3> QED BY <3>1, <3>2, <3>3
  <2> QED BY <1>1, <2>1 DEF Apart
<1>7. Holds(f, n + 1, P \cup {p})
  <2> SUFFICES ASSUME NEW q \in Pages
               PROVE  q \in P \cup {p} <=>
                        \E s \in 0..n : f[s].start <= q /\ q < f[s].end
    BY <1>1 DEF Holds
  <2>1. q \in P <=> \E s \in 0..(n - 1) : e[s].start <= q /\ q < e[s].end
    BY DEF Exact, Holds, n
  <2>2. f[n].start <= q /\ q < f[n].end <=> q = p
    BY <1>1, <1>3 DEF Pages
  <2> QED BY <1>1, <1>3, <2>1, <2>2
<1> QED BY <1>4, <1>6, <1>7 DEF Exact, n

-------------------------------------------------------------------------------
(* The invariant of alloc_swap().                                           *)

Alive == pc \in {"prealloc", "initial", "alloc", "search", "place", "ready"}

(* The number of extents in the array; alloc_swap() has its own counter. *)
Count == IF pc = "prealloc" THEN nr_extents ELSE nr

Taken == Pages \ (free \cup meta)

(* Each variable has a value of its kind. *)
TypeInv ==
    /\ pc \in {"prealloc", "initial", "alloc", "search", "place", "ready",
               "saved", "failed"}
    /\ options \in Configs
    /\ free \subseteq Pages /\ meta \subseteq Pages
    /\ extents \in Array
    /\ nr \in 0..(max_extents + 1) /\ nr_extents \in 0..max_extents
    /\ total \in Nat /\ asize \in Nat /\ i \in Nat /\ j \in Nat
    /\ offset \in 0..SwapSize
    /\ cur_extent_idx \in Nat /\ cur_offset \in Nat
    /\ swap_needed \in Int /\ written \in Nat
    /\ data \in [Pages -> Nat]

(* A swap page is free, or has the header or an array, or is in the pool;   *)
(* every slot of the array, in use or not, names only pages that were given *)
(* for the image.                                                           *)
OwnInv ==
    /\ meta \cap free = {}
    /\ pool \subseteq Taken
    /\ \A t \in Slots : PagesOf(extents[t]) \subseteq Taken

(* The extents are exact, the page still to be placed left aside. *)
ExactInv == Alive => Exact(extents, Count, pool \ {offset})

(* How many extents there are at each place, and where the cursor is. *)
CursorInv ==
    /\ pc = "prealloc" => nr_extents \in {0, 1}
    /\ pc = "initial" => nr = 0
    /\ pc \in {"alloc", "search", "place", "ready"} => nr >= 1
    /\ pc \in {"prealloc", "initial", "alloc", "ready"} => offset = 0
    /\ pc = "ready" =>
         /\ nr_extents = (IF nr < max_extents THEN nr ELSE max_extents)
         /\ cur_extent_idx < nr_extents
         /\ extents[cur_extent_idx].start <= cur_offset + 1
         /\ cur_offset < extents[cur_extent_idx].end

(* The search of alloc_swap() has left behind only extents that the page    *)
(* does not touch, and ends when there is none that it touches.             *)
SearchInv ==
    pc \in {"search", "place"} =>
        /\ nr <= max_extents
        /\ offset \in pool
        /\ i <= j /\ j < nr
        /\ \A s \in 0..(i - 1) : extents[s].end < offset
        /\ \A s \in (j + 1)..(nr - 1) : offset + 1 < extents[s].start
        /\ pc = "place" =>
             /\ i = j
             /\ extents[i].end < offset \/ offset + 1 < extents[i].start

EInv == TypeInv /\ OwnInv /\ ExactInv /\ CursorInv /\ SearchInv

-------------------------------------------------------------------------------
(* What the parts of the invariant say of the current state. *)
LEMMA ArrayTypes ==
    ASSUME TypeInv
    PROVE  /\ extents \in Array
           /\ \A t \in Slots : /\ extents[t].start \in Nat
                               /\ extents[t].end \in Nat
           /\ nr \in Nat /\ nr_extents \in Nat /\ offset \in Nat
           /\ i \in Nat /\ j \in Nat /\ max_extents \in Nat
           /\ \A t \in 0..(nr - 1) : t \in Slots /\ t \in Nat
           /\ 0 \in Slots /\ max_extents \in Slots
           /\ 0 \notin Pages
<1>1. extents \in Array
  BY DEF TypeInv
<1>2. \A t \in Slots : extents[t].start \in Nat /\ extents[t].end \in Nat
  BY <1>1, SlotTypes, Zenon
<1>3. /\ nr \in Nat /\ nr_extents \in Nat /\ offset \in Nat
      /\ i \in Nat /\ j \in Nat /\ max_extents \in Nat
      /\ nr <= max_extents + 1 /\ max_extents > 0
  BY SwapAssumption DEF TypeInv
<1> QED BY <1>1, <1>2, <1>3, SwapAssumption DEF Slots, Pages

(* Saving fails: nothing but the place changes. *)
LEMMA FailKeepsEInv ==
    ASSUME EInv, Fail, UNCHANGED options
    PROVE  EInv'
<1>1. /\ pc' = "failed"
      /\ UNCHANGED <<options, free, extents, nr, total, asize, offset, i, j,
                     pool, nr_extents, cur_extent_idx, cur_offset,
                     swap_needed, written, data, meta>>
  BY DEF Fail, allocvars, handlevars, diskvars
<1>2. TypeInv'
  BY <1>1 DEF EInv, TypeInv
<1>3. OwnInv'
  BY <1>1 DEF EInv, OwnInv, Taken
<1> QED BY <1>1, <1>2, <1>3
        DEF EInv, ExactInv, Alive, CursorInv, SearchInv

(* preallocate_swap() begins. *)
LEMMA PreallocateKeepsEInv ==
    ASSUME EInv, Preallocate, UNCHANGED options
    PROVE  EInv'
<1>1. /\ pc = "prealloc" /\ swap_needed >= 1
      /\ nr' = nr_extents /\ asize' = 0 /\ total' = Request
      /\ pc' = IF nr_extents <= 0 THEN "initial" ELSE "alloc"
      /\ UNCHANGED <<options, free, extents, offset, i, j, pool, nr_extents,
                     cur_extent_idx, cur_offset, swap_needed, written, data,
                     meta>>
  BY DEF Preallocate, handlevars, diskvars
<1>2. Request \in Nat
  BY <1>1 DEF EInv, TypeInv, Request
<1>3. TypeInv'
  <2>1. nr' \in 0..(max_extents + 1)
    BY <1>1, SwapAssumption DEF EInv, TypeInv
  <2> QED BY <1>1, <1>2, <2>1 DEF EInv, TypeInv
<1>4. OwnInv'
  BY <1>1 DEF EInv, OwnInv, Taken
<1>5. ExactInv'
  <2>1. Exact(extents, nr_extents, pool \ {offset})
    BY <1>1 DEF EInv, ExactInv, Alive, Count
  <2>2. Count' = nr_extents
    BY <1>1 DEF Count
  <2> QED BY <1>1, <2>1, <2>2 DEF ExactInv
<1>6. CursorInv'
  BY <1>1 DEF EInv, TypeInv, CursorInv
<1> QED BY <1>1, <1>3, <1>4, <1>5, <1>6 DEF EInv, SearchInv

(* alloc_swap() has no extent to start from. *)
LEMMA AllocInitialKeepsEInv ==
    ASSUME EInv, AllocInitial, UNCHANGED options
    PROVE  EInv'
<1>1. PICK p \in Pages :
        /\ p \in free /\ free' = free \ {p}
        /\ extents' = [extents EXCEPT ![0] = [start |-> p, end |-> p + 1]]
        /\ pool' = pool \cup {p}
  BY DEF AllocInitial, GetSwapPage, Available
<1>2. /\ pc = "initial" /\ pc' = "alloc" /\ nr' = 1 /\ asize' = 1
      /\ UNCHANGED <<options, total, offset, i, j, nr_extents,
                     cur_extent_idx, cur_offset, swap_needed, written, data,
                     meta>>
  BY DEF AllocInitial, handlevars, diskvars
<1>3. p \in Nat /\ p # 0
  BY DEF Pages
<1>4. /\ extents \in Array /\ 0 \in Slots /\ 0 \notin Pages /\ offset = 0
      /\ nr = 0
  BY <1>2, ArrayTypes DEF EInv, CursorInv
<1>5. /\ extents' \in Array
      /\ extents'[0].start = p /\ extents'[0].end = p + 1
      /\ \A t \in Slots : t # 0 => extents'[t] = extents[t]
  BY <1>1, <1>3, <1>4 DEF Array, Extent
<1>6. TypeInv'
  BY <1>1, <1>2, <1>5, SwapAssumption DEF EInv, TypeInv
<1>7. pool = {}
  <2>1. Exact(extents, 0, pool \ {0}) /\ pool \subseteq Pages
    BY <1>2, <1>4 DEF EInv, ExactInv, Alive, Count, OwnInv, Taken
  <2> QED BY <2>1, <1>4 DEF Exact, Holds
<1>8. OwnInv'
  <2>1. Taken' = Taken \cup {p} /\ p \notin meta
    BY <1>1, <1>2 DEF Taken, EInv, OwnInv
  <2>2. PagesOf(extents'[0]) = {p}
    BY <1>3, <1>5 DEF PagesOf
  <2>3. \A t \in Slots : PagesOf(extents'[t]) \subseteq Taken'
    BY <1>5, <2>1, <2>2 DEF EInv, OwnInv
  <2> QED BY <1>1, <1>2, <2>1, <2>3 DEF EInv, OwnInv
<1>9. Exact(extents', 1, {p})
  <2>1. Ordered(extents', 1)
    BY <1>3, <1>5 DEF Ordered
  <2>2. Apart(extents', 1)
    BY DEF Apart
  <2>3. Holds(extents', 1, {p})
    BY <1>3, <1>5 DEF Holds, Pages
  <2> QED BY <2>1, <2>2, <2>3 DEF Exact
<1>10. ExactInv'
  <2>1. (pool \ {offset})' = {p} /\ Count' = 1
    BY <1>1, <1>2, <1>3, <1>4, <1>7 DEF Count
  <2> QED BY <1>9, <2>1 DEF ExactInv
<1>11. CursorInv'
  BY <1>2, <1>4 DEF CursorInv
<1> QED BY <1>2, <1>6, <1>8, <1>10, <1>11 DEF EInv, SearchInv

(* One more page is taken from the kernel. *)
LEMMA AllocPageKeepsEInv ==
    ASSUME EInv, AllocPage, UNCHANGED options
    PROVE  EInv'
<1>1. PICK p \in Pages : /\ p \in free /\ free' = free \ {p}
                         /\ offset' = p /\ pool' = pool \cup {p}
  BY DEF AllocPage, GetSwapPage, Available
<1>2. /\ pc = "alloc" /\ pc' = "search" /\ i' = 0 /\ j' = nr - 1
      /\ nr <= max_extents /\ nr >= 1
      /\ UNCHANGED <<options, extents, nr, total, asize, nr_extents,
                     cur_extent_idx, cur_offset, swap_needed, written, data,
                     meta>>
  BY DEF AllocPage, AllocMore, handlevars, diskvars, EInv, CursorInv
<1>3. offset = 0 /\ 0 \notin Pages /\ nr \in Nat
  BY <1>2, ArrayTypes DEF EInv, CursorInv
<1>4. p \in 0..SwapSize
  BY DEF Pages
<1>5. TypeInv'
  BY <1>1, <1>2, <1>3, <1>4 DEF EInv, TypeInv
<1>6. OwnInv'
  BY <1>1, <1>2 DEF EInv, OwnInv, Taken
<1>7. ExactInv'
  <2>1. Exact(extents, nr, pool)
    <3>1. pool \ {offset} = pool
      BY <1>3 DEF EInv, OwnInv, Taken
    <3> QED BY <1>2, <3>1 DEF EInv, ExactInv, Alive, Count
  <2>2. (pool \ {offset})' = pool
    BY <1>1 DEF EInv, OwnInv, Taken
  <2> QED BY <1>2, <2>1, <2>2 DEF ExactInv, Count
<1>8. CursorInv'
  BY <1>2 DEF CursorInv
<1>9. SearchInv'
  <2>1. /\ i' <= j' /\ j' < nr'
        /\ 0..(i' - 1) = {} /\ (j' + 1)..(nr' - 1) = {}
    BY <1>2, <1>3
  <2> QED BY <1>1, <1>2, <2>1 DEF SearchInv
<1> QED BY <1>5, <1>6, <1>7, <1>8, <1>9 DEF EInv

-------------------------------------------------------------------------------
(* The middle of the interval of the search lies in it, and before its end  *)
(* if there is more than one extent in it.                                  *)
LEMMA MiddleInside ==
    ASSUME TypeInv, SearchInv, pc = "search"
    PROVE  /\ k \in Nat /\ k \in 0..(nr - 1)
           /\ i <= k /\ k <= j
           /\ i < j => k < j
           /\ i = k => j <= i + 1
BY DEF TypeInv, SearchInv, k

(* The page has found its place in array f of n extents. *)
LEMMA PlacedKeepsEInv ==
    ASSUME EInv, pc \in {"search", "place"},
           NEW f \in Array, NEW n \in 1..(max_extents + 1),
           Exact(f, n, (pool \ {offset}) \cup {offset}),
           \A t \in Slots : PagesOf(f[t]) \subseteq Taken,
           extents' = f, nr' = n, offset' = 0, asize' = asize + 1,
           pc' = "alloc",
           UNCHANGED <<options, free, total, i, j, pool, nr_extents,
                       cur_extent_idx, cur_offset, swap_needed, written, data,
                       meta>>
    PROVE  EInv'
<1>1. TypeInv'
  BY SwapAssumption DEF EInv, TypeInv
<1>2. OwnInv'
  BY DEF EInv, OwnInv, Taken
<1>3. ExactInv'
  <2>1. (pool \ {offset})' = (pool \ {offset}) \cup {offset}
    BY ArrayTypes DEF EInv, OwnInv, Taken, SearchInv
  <2>2. Count' = n
    BY DEF Count
  <2> QED BY <2>1, <2>2 DEF ExactInv
<1>4. CursorInv'
  BY DEF CursorInv
<1> QED BY <1>1, <1>2, <1>3, <1>4 DEF EInv, SearchInv

(* Where the search is, in numbers. *)
LEMMA SearchFacts ==
    ASSUME EInv, pc \in {"search", "place"}
    PROVE  /\ Exact(extents, nr, pool \ {offset})
           /\ nr \in 1..max_extents /\ nr \in Nat
           /\ offset \in Pages /\ offset \in Taken /\ offset \in Nat
           /\ \A t \in 0..(nr - 1) : t \in Slots /\ t < max_extents
           /\ \A s \in 0..(nr - 1) : extents[s].start < extents[s].end
           /\ \A s, t \in 0..(nr - 1) :
                s < t => extents[s].end < extents[t].start
<1>1. Exact(extents, nr, pool \ {offset})
  BY DEF EInv, ExactInv, Alive, Count
<1>2. /\ nr \in 1..max_extents /\ nr \in Nat /\ max_extents \in Nat
      /\ offset \in Pages /\ offset \in Taken /\ offset \in Nat
  BY ArrayTypes, SwapAssumption
  DEF EInv, SearchInv, CursorInv, TypeInv, OwnInv, Taken
<1>3. \A t \in 0..(nr - 1) : t \in Slots /\ t < max_extents
  BY <1>2 DEF Slots
<1> QED BY <1>1, <1>2, <1>3 DEF Exact, Ordered

(* The page precedes extent k: it is added to it, and closes the gap to the *)
(* one before if that ends where the page begins.                           *)
LEMMA MatchStartKeepsEInv ==
    ASSUME EInv, MatchStart, UNCHANGED options
    PROVE  EInv'
<1> DEFINE P == pool \ {offset}
<1>1. pc = "search" /\ offset = extents[k].start - 1
  BY DEF MatchStart
<1>2. /\ k \in Nat /\ k \in 0..(nr - 1)
  BY <1>1, MiddleInside DEF EInv
<1>3. /\ Exact(extents, nr, P)
      /\ nr \in 1..max_extents /\ nr \in Nat
      /\ offset \in Pages /\ offset \in Taken /\ offset \in Nat
      /\ \A t \in 0..(nr - 1) : t \in Slots /\ t < max_extents
      /\ \A s \in 0..(nr - 1) : extents[s].start < extents[s].end
      /\ \A s, t \in 0..(nr - 1) :
           s < t => extents[s].end < extents[t].start
  BY <1>1, SearchFacts
<1>4. /\ extents \in Array
      /\ \A t \in Slots : extents[t].start \in Nat /\ extents[t].end \in Nat
      /\ \A t \in Slots : t \in Nat /\ t <= max_extents
      /\ max_extents \in Nat
  BY ArrayTypes DEF EInv, Slots
<1>5. \A t \in Slots : PagesOf(extents[t]) \subseteq Taken
  BY DEF EInv, OwnInv
<1> HIDE DEF P, k
<1>6. CASE k > 0 /\ extents[k - 1].end = offset
  <2> DEFINE g == [extents EXCEPT ![k - 1].end = extents[k].end,
                                  ![k].start = offset]
             f == PullForward(g, k, nr)
  <2>1. Matched(f, nr - 1)
    BY <1>6 DEF MatchStart
  <2>2. k - 1 \in Slots /\ k \in Slots /\ k \in 1..(nr - 1) /\ k - 1 # k
    BY <1>2, <1>3, <1>6
  <2>3. /\ g \in Array
        /\ g[k - 1].start = extents[k - 1].start
        /\ g[k - 1].end = extents[k].end
        /\ g[k].start = offset /\ g[k].end = extents[k].end
        /\ \A t \in Slots : t # k - 1 /\ t # k => g[t] = extents[t]
    BY <1>3, <1>4, <2>2 DEF Array, Extent
  <2> HIDE DEF g
  <2>4. /\ f \in [Slots -> Extent]
        /\ \A t \in Slots : f[t] = IF k <= t /\ t < nr - 1 THEN g[t + 1]
                                                           ELSE g[t]
    <3>1. \A t \in Slots : k <= t /\ t < nr - 1 => t + 1 \in Slots
      BY <1>2, <1>3, <1>4 DEF Slots
    <3>2. \A t \in Slots : g[t] \in Extent
      BY <2>3 DEF Array
    <3> QED BY <3>1, <3>2 DEF PullForward
  <2> HIDE DEF f
  <2>5. Exact(f, nr - 1, P \cup {offset})
    <3>1. \A t \in 0..(nr - 2) :
            /\ t \in Slots
            /\ t < k - 1 => f[t] = extents[t]
            /\ t >= k => f[t] = extents[t + 1]
      <4> SUFFICES ASSUME NEW t \in 0..(nr - 2)
                   PROVE  /\ t \in Slots
                          /\ t < k - 1 => f[t] = extents[t]
                          /\ t >= k => f[t] = extents[t + 1]
        OBVIOUS
      <4>1. t \in Slots /\ t + 1 \in Slots /\ t < nr - 1 /\ t \in Nat
        BY <1>2, <1>3
      <4>2. CASE t < k - 1
        BY <4>1, <4>2, <2>3, <2>4, <1>2
      <4>3. CASE t >= k
        BY <4>1, <4>3, <2>3, <2>4, <1>2
      <4> QED BY <4>1, <4>2, <4>3, <1>2
    <3>2. f[k - 1] = g[k - 1]
      BY <1>2, <2>2, <2>4
    <3>3. extents[k].start = offset + 1
      BY <1>1, <1>3, <1>4, <2>2
    <3>4. f \in Array
      BY <2>4 DEF Array
    <3>5. Joined(extents, f, nr, k, offset)
      BY <1>6, <2>2, <2>3, <3>1, <3>2, <3>3 DEF Joined
    <3> QED BY <1>3, <1>4, <3>4, <3>5, MergedExact, Zenon
  <2>6. \A t \in Slots : PagesOf(f[t]) \subseteq Taken
    <3>1. ASSUME NEW t \in Slots PROVE PagesOf(g[t]) \subseteq Taken
      <4>1. CASE t # k - 1 /\ t # k
        BY <4>1, <1>5, <2>3
      <4>2. CASE t = k
        <5>1. PagesOf(g[t]) = PagesOf(extents[k]) \cup {offset}
          BY <4>2, <1>1, <1>2, <1>3, <1>4, <2>2, <2>3 DEF PagesOf
        <5> QED BY <5>1, <1>3, <1>5, <2>2
      <4>3. CASE t = k - 1
        <5>1. PagesOf(g[t]) = PagesOf(extents[k - 1]) \cup {offset}
                                \cup PagesOf(extents[k])
          <6>1. /\ extents[k - 1].start < offset
                /\ extents[k].start = offset + 1
                /\ extents[k].end > extents[k].start
            BY <1>1, <1>2, <1>3, <1>4, <1>6, <2>2
          <6> QED BY <4>3, <6>1, <1>3, <1>4, <1>6, <2>2, <2>3 DEF PagesOf
        <5> QED BY <5>1, <1>3, <1>5, <2>2
      <4> QED BY <4>1, <4>2, <4>3
    <3>2. \A t \in Slots : k <= t /\ t < nr - 1 => t + 1 \in Slots
      BY <1>2, <1>3, <1>4 DEF Slots
    <3> QED BY <2>4, <3>1, <3>2
  <2>7. nr - 1 \in 1..(max_extents + 1) /\ f \in Array
    BY <1>3, <1>4, <2>2, <2>4 DEF Array
  <2> QED
    BY <1>1, <2>1, <2>5, <2>6, <2>7, PlacedKeepsEInv
    DEF Matched, handlevars, diskvars, P
<1>7. CASE ~(k > 0 /\ extents[k - 1].end = offset)
  <2> DEFINE f == [extents EXCEPT ![k].start = offset]
  <2>1. Matched(f, nr)
    BY <1>7 DEF MatchStart
  <2>2. k \in Slots
    BY <1>2, <1>3
  <2>3. /\ f \in Array
        /\ f[k].start = offset /\ f[k].end = extents[k].end
        /\ \A t \in Slots : t # k => f[t] = extents[t]
    BY <1>3, <1>4, <2>2 DEF Array, Extent
  <2> HIDE DEF f
  <2>4. k > 0 => extents[k - 1].end < offset
    <3> SUFFICES ASSUME k > 0 PROVE extents[k - 1].end < offset
      OBVIOUS
    <3>1. k - 1 \in 0..(nr - 1) /\ k - 1 < k /\ k - 1 \in Slots
      BY <1>2, <1>3
    <3> QED BY <3>1, <1>1, <1>2, <1>3, <1>4, <1>7, <2>2
  <2>5. Exact(f, nr, P \cup {offset})
    BY <1>1, <1>2, <1>3, <1>4, <2>2, <2>3, <2>4, GrownExact
  <2>6. \A t \in Slots : PagesOf(f[t]) \subseteq Taken
    <3>1. PagesOf(f[k]) = PagesOf(extents[k]) \cup {offset}
      BY <1>1, <1>2, <1>3, <1>4, <2>2, <2>3 DEF PagesOf
    <3> QED BY <3>1, <1>3, <1>5, <2>2, <2>3
  <2>7. nr \in 1..(max_extents + 1)
    BY <1>3, <1>4
  <2> QED
    BY <1>1, <2>1, <2>3, <2>5, <2>6, <2>7, PlacedKeepsEInv
    DEF Matched, handlevars, diskvars, P
<1> QED BY <1>6, <1>7

(* The page follows extent k: it is added to it, and closes the gap to the  *)
(* one after if that begins where the page ends.                            *)
LEMMA MatchEndKeepsEInv ==
    ASSUME EInv, MatchEnd, UNCHANGED options
    PROVE  EInv'
<1> DEFINE P == pool \ {offset}
<1>1. pc = "search" /\ offset = extents[k].end
  BY DEF MatchEnd
<1>2. /\ k \in Nat /\ k \in 0..(nr - 1)
  BY <1>1, MiddleInside DEF EInv
<1>3. /\ Exact(extents, nr, P)
      /\ nr \in 1..max_extents /\ nr \in Nat
      /\ offset \in Pages /\ offset \in Taken /\ offset \in Nat
      /\ \A t \in 0..(nr - 1) : t \in Slots /\ t < max_extents
      /\ \A s \in 0..(nr - 1) : extents[s].start < extents[s].end
      /\ \A s, t \in 0..(nr - 1) :
           s < t => extents[s].end < extents[t].start
  BY <1>1, SearchFacts
<1>4. /\ extents \in Array
      /\ \A t \in Slots : extents[t].start \in Nat /\ extents[t].end \in Nat
      /\ \A t \in Slots : t \in Nat /\ t <= max_extents
      /\ max_extents \in Nat
  BY ArrayTypes DEF EInv, Slots
<1>5. \A t \in Slots : PagesOf(extents[t]) \subseteq Taken
  BY DEF EInv, OwnInv
<1> HIDE DEF P, k
<1>6. CASE k + 1 < nr /\ extents[k + 1].start = offset + 1
  <2> DEFINE g == [extents EXCEPT ![k].end = extents[k + 1].end]
             c == k + 1
             f == PullForward(g, c, nr)
  <2>1. Matched(f, nr - 1)
    BY <1>6 DEF MatchEnd
  <2>2. /\ k \in Slots /\ c \in Slots /\ c \in 1..(nr - 1) /\ c \in Nat
        /\ c - 1 = k /\ c # k
    BY <1>2, <1>3, <1>6
  <2>3. /\ g \in Array
        /\ g[k].start = extents[k].start /\ g[k].end = extents[c].end
        /\ \A t \in Slots : t # k => g[t] = extents[t]
    BY <1>3, <1>4, <2>2 DEF Array, Extent
  <2>4. extents[c].start = offset + 1
    BY <1>6
  <2> HIDE DEF g, c
  <2>5. /\ f \in [Slots -> Extent]
        /\ \A t \in Slots : f[t] = IF c <= t /\ t < nr - 1 THEN g[t + 1]
                                                           ELSE g[t]
    <3>1. \A t \in Slots : c <= t /\ t < nr - 1 => t + 1 \in Slots
      BY <1>2, <1>3, <1>4 DEF Slots
    <3>2. \A t \in Slots : g[t] \in Extent
      BY <2>3 DEF Array
    <3> QED BY <3>1, <3>2 DEF PullForward
  <2> HIDE DEF f
  <2>6. Exact(f, nr - 1, P \cup {offset})
    <3>1. \A t \in 0..(nr - 2) :
            /\ t < c - 1 => f[t] = extents[t]
            /\ t >= c => f[t] = extents[t + 1]
      <4> SUFFICES ASSUME NEW t \in 0..(nr - 2)
                   PROVE  /\ t < c - 1 => f[t] = extents[t]
                          /\ t >= c => f[t] = extents[t + 1]
        OBVIOUS
      <4>1. t \in Slots /\ t + 1 \in Slots /\ t < nr - 1 /\ t \in Nat
        BY <1>2, <1>3
      <4>2. CASE t < c - 1
        BY <4>1, <4>2, <2>2, <2>3, <2>5, <1>2
      <4>3. CASE t >= c
        BY <4>1, <4>3, <2>2, <2>3, <2>5, <1>2
      <4> QED BY <4>1, <4>2, <4>3, <2>2
    <3>2. f[c - 1] = g[k]
      BY <1>2, <2>2, <2>5
    <3>3. f \in Array
      BY <2>5 DEF Array
    <3>4. Joined(extents, f, nr, c, offset)
      BY <1>1, <2>2, <2>3, <2>4, <3>1, <3>2 DEF Joined
    <3> QED BY <1>3, <1>4, <3>3, <3>4, MergedExact, Zenon
  <2>7. \A t \in Slots : PagesOf(f[t]) \subseteq Taken
    <3>1. ASSUME NEW t \in Slots PROVE PagesOf(g[t]) \subseteq Taken
      <4>1. CASE t # k
        BY <4>1, <1>5, <2>3
      <4>2. CASE t = k
        <5>1. PagesOf(g[t]) = PagesOf(extents[k]) \cup {offset}
                                \cup PagesOf(extents[c])
          <6>1. /\ extents[k].start < offset
                /\ extents[c].end > extents[c].start
            BY <1>1, <1>2, <1>3, <2>2
          <6> QED BY <4>2, <6>1, <1>1, <1>3, <1>4, <2>2, <2>3, <2>4
                  DEF PagesOf
        <5> QED BY <5>1, <1>3, <1>5, <2>2
      <4> QED BY <4>1, <4>2
    <3>2. \A t \in Slots : c <= t /\ t < nr - 1 => t + 1 \in Slots
      BY <1>2, <1>3, <1>4, <2>2 DEF Slots
    <3> QED BY <2>5, <3>1, <3>2
  <2>8. nr - 1 \in 1..(max_extents + 1) /\ f \in Array
    BY <1>3, <1>4, <2>2, <2>5 DEF Array
  <2> QED
    BY <1>1, <2>1, <2>6, <2>7, <2>8, PlacedKeepsEInv
    DEF Matched, handlevars, diskvars, P
<1>7. CASE ~(k + 1 < nr /\ extents[k + 1].start = offset + 1)
  <2> DEFINE f == [extents EXCEPT ![k].end = offset + 1]
  <2>1. Matched(f, nr)
    BY <1>7 DEF MatchEnd
  <2>2. k \in Slots
    BY <1>2, <1>3
  <2>3. /\ f \in Array
        /\ f[k].start = extents[k].start /\ f[k].end = offset + 1
        /\ \A t \in Slots : t # k => f[t] = extents[t]
    BY <1>3, <1>4, <2>2 DEF Array, Extent
  <2> HIDE DEF f
  <2>4. k + 1 < nr => offset + 1 < extents[k + 1].start
    <3> SUFFICES ASSUME k + 1 < nr PROVE offset + 1 < extents[k + 1].start
      OBVIOUS
    <3>1. k + 1 \in 0..(nr - 1) /\ k < k + 1 /\ k + 1 \in Slots
      BY <1>2, <1>3
    <3> QED BY <3>1, <1>1, <1>2, <1>3, <1>4, <1>7, <2>2
  <2>5. Exact(f, nr, P \cup {offset})
    BY <1>1, <1>2, <1>3, <1>4, <2>2, <2>3, <2>4, GrownExact
  <2>6. \A t \in Slots : PagesOf(f[t]) \subseteq Taken
    <3>1. PagesOf(f[k]) = PagesOf(extents[k]) \cup {offset}
      BY <1>1, <1>2, <1>3, <1>4, <2>2, <2>3 DEF PagesOf
    <3> QED BY <3>1, <1>3, <1>5, <2>2, <2>3
  <2>7. nr \in 1..(max_extents + 1)
    BY <1>3, <1>4
  <2> QED
    BY <1>1, <2>1, <2>3, <2>5, <2>6, <2>7, PlacedKeepsEInv
    DEF Matched, handlevars, diskvars, P
<1> QED BY <1>6, <1>7

(* The search goes on in one half, or ends beside the page. *)
LEMMA SearchOnKeepsEInv ==
    ASSUME EInv, SearchOn, UNCHANGED options
    PROVE  EInv'
<1>1. /\ pc = "search" /\ pc' \in {"search", "place"}
      /\ offset # extents[k].start - 1 /\ offset # extents[k].end
      /\ UNCHANGED <<options, free, extents, nr, total, asize, offset, pool,
                     nr_extents, cur_extent_idx, cur_offset, swap_needed,
                     written, data, meta>>
  BY DEF SearchOn, handlevars, diskvars
<1>2. \/ /\ offset > extents[k].end
         /\ i' = (IF i = k THEN j ELSE k) /\ j' = j
         /\ pc' = IF i < j THEN "search" ELSE "place"
      \/ /\ ~(offset > extents[k].end)
         /\ j' = k /\ i' = i
         /\ pc' = IF i < k THEN "search" ELSE "place"
  BY DEF SearchOn, UpperHalf
<1>3. /\ k \in Nat /\ k \in 0..(nr - 1)
      /\ i <= k /\ k <= j /\ (i < j => k < j) /\ (i = k => j <= i + 1)
  BY <1>1, MiddleInside DEF EInv
<1>4. /\ nr \in Nat /\ i \in Nat /\ j \in Nat /\ offset \in Nat
      /\ i <= j /\ j < nr /\ nr <= max_extents /\ offset \in pool
      /\ \A t \in 0..(nr - 1) :
           extents[t].start \in Nat /\ extents[t].end \in Nat
      /\ \A s \in 0..(nr - 1) : extents[s].start < extents[s].end
      /\ \A s, t \in 0..(nr - 1) :
           s < t => extents[s].end < extents[t].start
      /\ \A s \in 0..(i - 1) : extents[s].end < offset
      /\ \A s \in (j + 1)..(nr - 1) : offset + 1 < extents[s].start
  BY <1>1, ArrayTypes, SearchFacts DEF EInv, SearchInv
<1>5. offset \notin PagesOf(extents[k])
  <2>1. Holds(extents, nr, pool \ {offset}) /\ offset \in Pages
    BY <1>1, SearchFacts DEF Exact
  <2> QED BY <2>1, <1>3, <1>4 DEF Holds, PagesOf
<1> HIDE DEF k
<1>6. SearchInv'
  <2>1. CASE offset > extents[k].end
    <3>1. /\ i' = (IF i = k THEN j ELSE k) /\ j' = j
          /\ pc' = IF i < j THEN "search" ELSE "place"
      BY <1>2, <2>1
    <3>2. i' \in Nat /\ i' <= j'
      BY <1>3, <1>4, <3>1
    <3>3. ASSUME NEW s \in 0..(i' - 1) PROVE extents[s].end < offset
      <4>1. s \in Nat /\ s <= k
        BY <1>3, <1>4, <3>1
      <4>2. CASE s = k
        BY <4>2, <2>1, <1>3, <1>4
      <4>3. CASE s < k
        <5>1. s \in 0..(nr - 1)
          BY <4>1, <4>3, <1>3, <1>4
        <5>2. extents[s].end < extents[k].start
          BY <5>1, <4>3, <1>3, <1>4
        <5> QED BY <5>1, <5>2, <2>1, <1>3, <1>4
      <4> QED BY <4>1, <4>2, <4>3, <1>3
    <3>4. pc' = "place" => i' = j' /\ extents[i'].end < offset
      BY <1>3, <1>4, <2>1, <3>1
    <3> QED BY <1>1, <1>4, <3>1, <3>2, <3>3, <3>4 DEF SearchInv
  <2>2. CASE ~(offset > extents[k].end)
    <3>1. j' = k /\ i' = i /\ pc' = IF i < k THEN "search" ELSE "place"
      BY <1>2, <2>2
    <3>2. offset + 1 < extents[k].start
      BY <1>1, <1>3, <1>4, <1>5, <2>2 DEF PagesOf
    <3>3. ASSUME NEW s \in (k + 1)..(nr - 1)
          PROVE  offset + 1 < extents[s].start
      <4>1. s \in 0..(nr - 1) /\ k < s
        BY <1>3, <1>4
      <4> QED BY <4>1, <1>3, <1>4, <3>2
    <3>4. pc' = "place" => i' = j' /\ offset + 1 < extents[i'].start
      BY <1>3, <1>4, <3>1, <3>2
    <3>5. i' <= j' /\ j' < nr
      BY <1>3, <1>4, <3>1
    <3> QED BY <1>1, <1>4, <3>1, <3>3, <3>4, <3>5 DEF SearchInv
  <2> QED BY <2>1, <2>2
<1>7. TypeInv'
  <2>1. i' \in Nat /\ j' \in Nat
    BY <1>2, <1>3, <1>4
  <2> QED BY <1>1, <2>1 DEF EInv, TypeInv
<1>8. OwnInv'
  BY <1>1 DEF EInv, OwnInv, Taken
<1>9. ExactInv'
  BY <1>1 DEF EInv, ExactInv, Alive, Count
<1>10. CursorInv'
  BY <1>1 DEF EInv, CursorInv
<1> QED BY <1>6, <1>7, <1>8, <1>9, <1>10 DEF EInv

(* The page matches no extent and becomes one. *)
LEMMA PlaceKeepsEInv ==
    ASSUME EInv, Place, UNCHANGED options
    PROVE  EInv'
<1> DEFINE P == pool \ {offset}
           f == [t \in Slots |->
                   IF t = NewSlot THEN [start |-> offset, end |-> offset + 1]
                   ELSE IF NewSlot < t /\ t <= nr THEN extents[t - 1]
                   ELSE extents[t]]
<1>1. /\ pc = "place" /\ extents' = f /\ nr' = nr + 1
      /\ offset' = 0 /\ asize' = asize + 1 /\ pc' = "alloc"
      /\ UNCHANGED <<options, free, total, i, j, pool, nr_extents,
                     cur_extent_idx, cur_offset, swap_needed, written, data,
                     meta>>
  BY DEF Place, handlevars, diskvars
<1>2. /\ Exact(extents, nr, P)
      /\ nr \in 1..max_extents /\ nr \in Nat
      /\ offset \in Pages /\ offset \in Taken /\ offset \in Nat
      /\ \A s, t \in 0..(nr - 1) :
           s < t => extents[s].end < extents[t].start
      /\ \A s \in 0..(nr - 1) : extents[s].start < extents[s].end
  BY <1>1, SearchFacts
<1>3. /\ i \in 0..(nr - 1) /\ i \in Nat
      /\ \A s \in 0..(i - 1) : extents[s].end < offset
      /\ \A s \in (i + 1)..(nr - 1) : offset + 1 < extents[s].start
      /\ extents[i].end < offset \/ offset + 1 < extents[i].start
  BY <1>1, ArrayTypes DEF EInv, SearchInv
<1>4. /\ extents \in Array
      /\ \A t \in Slots : extents[t].start \in Nat /\ extents[t].end \in Nat
      /\ \A t \in Slots : extents[t] \in Extent
      /\ max_extents \in Nat
  BY ArrayTypes DEF EInv, Array
<1>5. NewSlot \in 0..nr /\ NewSlot \in Slots
  BY <1>2, <1>3, <1>4 DEF NewSlot, Slots
<1>6. \A t \in Slots : NewSlot < t /\ t <= nr => t - 1 \in Slots
  BY <1>4, <1>5 DEF Slots
<1>7. f \in Array
  <2>1. [start |-> offset, end |-> offset + 1] \in Extent
    BY <1>2 DEF Extent
  <2> QED BY <1>4, <1>6, <2>1 DEF Array
<1>8. /\ f[NewSlot].start = offset /\ f[NewSlot].end = offset + 1
      /\ \A t \in Slots : NewSlot < t /\ t <= nr => f[t] = extents[t - 1]
      /\ \A t \in Slots : t < NewSlot \/ t > nr => f[t] = extents[t]
  BY <1>2, <1>5 DEF Slots
<1>9. \A t \in Slots :
        \/ f[t] = [start |-> offset, end |-> offset + 1]
        \/ \E u \in Slots : f[t] = extents[u]
  BY <1>6
<1> HIDE DEF f, P
<1>10. Exact(f, nr + 1, P \cup {offset})
  <2>1. CASE nr < max_extents
    <3> DEFINE m == NewSlot
    <3>1. /\ m = IF offset > extents[i].end THEN i + 1 ELSE i
          /\ nr \in 1..(max_extents - 1) /\ m \in 0..nr
      BY <2>1, <1>2, <1>4, <1>5 DEF NewSlot
    <3>2. i \in Slots /\ extents[i].start < extents[i].end
      BY <1>2, <1>3, <1>4 DEF Slots
    <3>3. \A s \in 0..(m - 1) : extents[s].end < offset
      BY <3>1, <3>2, <1>2, <1>3, <1>4
    <3>4. \A s \in m..(nr - 1) : offset + 1 < extents[s].start
      BY <3>1, <3>2, <1>2, <1>3, <1>4
    <3>5. \A t \in 0..nr : t \in Slots
      BY <1>2, <1>4 DEF Slots
    <3>6. \A t \in 0..nr : /\ t < m => f[t] = extents[t]
                           /\ t > m => f[t] = extents[t - 1]
      BY <1>2, <1>5, <1>8, <3>5
    <3>7. f[m].start = offset /\ f[m].end = offset + 1
      BY <1>8
    <3> HIDE DEF m
    <3> QED BY <1>2, <1>4, <1>7, <3>1, <3>3, <3>4, <3>6, <3>7, InsertedExact,
               Zenon
  <2>2. CASE ~(nr < max_extents)
    <3>1. nr = max_extents /\ NewSlot = max_extents
      BY <2>2, <1>2, <1>4 DEF NewSlot
    <3>2. \A t \in 0..(max_extents - 1) : f[t] = extents[t]
      BY <3>1, <1>4, <1>8 DEF Slots
    <3>3. offset \notin P
      BY DEF P
    <3> QED BY <1>2, <1>4, <1>7, <1>8, <3>1, <3>2, <3>3, AppendedExact
  <2> QED BY <2>1, <2>2
<1>11. \A t \in Slots : PagesOf(f[t]) \subseteq Taken
  <2>1. PagesOf([start |-> offset, end |-> offset + 1]) = {offset}
    BY <1>2 DEF PagesOf
  <2>2. \A u \in Slots : PagesOf(extents[u]) \subseteq Taken
    BY DEF EInv, OwnInv
  <2> QED BY <1>2, <1>9, <2>1, <2>2
<1>12. nr + 1 \in 1..(max_extents + 1)
  BY <1>2, <1>4
<1> QED BY <1>1, <1>7, <1>10, <1>11, <1>12, PlacedKeepsEInv DEF P

-------------------------------------------------------------------------------
(* alloc_swap() is done: the cursor is at the first page of the pool, or    *)
(* right before it.                                                         *)
LEMMA AllocDoneKeepsEInv ==
    ASSUME EInv, AllocDone, UNCHANGED options
    PROVE  EInv'
<1>1. /\ pc = "alloc" /\ pc' = "ready"
      /\ nr_extents' = (IF nr < max_extents THEN nr ELSE max_extents)
      /\ cur_extent_idx' = 0
      /\ UNCHANGED <<options, free, extents, nr, total, asize, offset, i, j,
                     pool, meta>>
      /\ \/ /\ cur_offset' = extents[0].start - 1
            /\ UNCHANGED <<swap_needed, written, data>>
         \/ /\ cur_offset' = extents[0].start
            /\ swap_needed' = swap_needed - 1 /\ written' = written + 1
            /\ data' = [data EXCEPT ![extents[0].start] = written + 1]
  BY DEF AllocDone, WriteData, allocvars, diskvars
<1>2. /\ nr \in Nat /\ nr >= 1 /\ max_extents \in Nat /\ max_extents > 0
      /\ extents[0].start \in Nat /\ extents[0].end \in Nat
      /\ 0 \in Slots /\ 0 \in 0..(nr - 1) /\ 0 \notin Pages
  BY <1>1, ArrayTypes, SwapAssumption DEF EInv, CursorInv
<1>3. extents[0].start < extents[0].end
  BY <1>1, <1>2 DEF EInv, ExactInv, Alive, Count, Exact, Ordered
<1>4. extents[0].start \in Pages
  <2>1. extents[0].start \in PagesOf(extents[0])
    BY <1>2, <1>3 DEF PagesOf
  <2> QED BY <1>2, <2>1 DEF EInv, OwnInv, Taken
<1>5. TypeInv'
  <2>1. cur_offset' \in Nat /\ cur_extent_idx' \in Nat
    BY <1>1, <1>2, <1>4
  <2>2. nr_extents' \in 0..max_extents
    BY <1>1, <1>2
  <2>3. swap_needed' \in Int /\ written' \in Nat /\ data' \in [Pages -> Nat]
    BY <1>1, <1>4 DEF EInv, TypeInv
  <2> QED BY <1>1, <2>1, <2>2, <2>3 DEF EInv, TypeInv
<1>6. OwnInv'
  BY <1>1 DEF EInv, OwnInv, Taken
<1>7. ExactInv'
  BY <1>1 DEF EInv, ExactInv, Alive, Count
<1>8. CursorInv'
  BY <1>1, <1>2, <1>3, <1>4 DEF EInv, CursorInv
<1> QED BY <1>1, <1>5, <1>6, <1>7, <1>8 DEF EInv, SearchInv

(* Where the next page of the pool is, when there is one. *)
LEMMA NextPage ==
    ASSUME EInv, pc = "ready", ~Exhausted
    PROVE  /\ NextIdx \in Nat /\ NextIdx < nr_extents
           /\ NextIdx \in 0..(nr - 1) /\ NextIdx \in Slots
           /\ NextOffset \in Nat
           /\ extents[NextIdx].start <= NextOffset
           /\ NextOffset < extents[NextIdx].end
           /\ NextOffset \in Taken
           /\ \/ NextIdx = cur_extent_idx /\ NextOffset = cur_offset + 1
              \/ /\ NextIdx = cur_extent_idx + 1
                 /\ NextOffset = extents[NextIdx].start
                 /\ cur_offset + 1 = extents[cur_extent_idx].end
<1>1. /\ cur_extent_idx \in Nat /\ cur_offset \in Nat
      /\ nr_extents \in Nat /\ nr_extents <= nr /\ nr \in Nat
      /\ cur_extent_idx < nr_extents
      /\ extents[cur_extent_idx].start <= cur_offset + 1
      /\ cur_offset < extents[cur_extent_idx].end
      /\ nr_extents <= max_extents /\ max_extents \in Nat
  BY SwapAssumption DEF EInv, TypeInv, CursorInv
<1>2. /\ NextIdx \in Nat /\ NextIdx < nr_extents
      /\ NextIdx \in 0..(nr - 1) /\ NextIdx \in Slots
      /\ cur_extent_idx \in Slots
  BY <1>1 DEF NextIdx, Exhausted, Slots
<1>3. \A s \in 0..(nr - 1) : extents[s].start < extents[s].end
  BY DEF EInv, ExactInv, Alive, Count, Exact, Ordered
<1>4. \A t \in Slots : extents[t].start \in Nat /\ extents[t].end \in Nat
  BY ArrayTypes DEF EInv
<1>5. \/ NextIdx = cur_extent_idx /\ NextOffset = cur_offset + 1
         /\ cur_offset + 1 < extents[cur_extent_idx].end
      \/ /\ NextIdx = cur_extent_idx + 1
         /\ NextOffset = extents[NextIdx].start
         /\ cur_offset + 1 = extents[cur_extent_idx].end
  BY <1>1, <1>2, <1>4 DEF NextIdx, NextOffset, InExtent
<1>6. /\ NextOffset \in Nat
      /\ extents[NextIdx].start <= NextOffset
      /\ NextOffset < extents[NextIdx].end
  BY <1>1, <1>2, <1>3, <1>4, <1>5
<1>7. NextOffset \in PagesOf(extents[NextIdx])
  BY <1>2, <1>4, <1>6 DEF PagesOf
<1> QED BY <1>2, <1>5, <1>6, <1>7 DEF EInv, OwnInv

(* A page is saved: the cursor goes on in the pool. *)
LEMMA SavePageKeepsEInv ==
    ASSUME EInv, SavePage, UNCHANGED options
    PROVE  EInv'
<1>1. /\ pc = "ready" /\ pc' = "ready" /\ ~Exhausted
      /\ cur_extent_idx' = NextIdx /\ cur_offset' = NextOffset
      /\ swap_needed' = swap_needed - 1 /\ written' = written + 1
      /\ data' = [data EXCEPT ![NextOffset] = written + 1]
      /\ UNCHANGED <<options, free, extents, nr, total, asize, offset, i, j,
                     pool, nr_extents, meta>>
  BY DEF SavePage, WriteData, allocvars
<1>2. /\ NextIdx \in Nat /\ NextIdx < nr_extents /\ NextIdx \in Slots
      /\ NextOffset \in Nat
      /\ extents[NextIdx].start <= NextOffset
      /\ NextOffset < extents[NextIdx].end
  BY <1>1, NextPage
<1>3. extents[NextIdx].start \in Nat
  BY <1>2, ArrayTypes DEF EInv
<1>4. TypeInv'
  <2>1. swap_needed' \in Int /\ written' \in Nat /\ written + 1 \in Nat
    BY <1>1 DEF EInv, TypeInv
  <2>2. data \in [Pages -> Nat]
    BY DEF EInv, TypeInv
  <2>3. data' \in [Pages -> Nat]
    BY <1>1, <2>1, <2>2
  <2> QED BY <1>1, <1>2, <2>1, <2>3 DEF EInv, TypeInv
<1>5. OwnInv'
  BY <1>1 DEF EInv, OwnInv, Taken
<1>6. ExactInv'
  BY <1>1 DEF EInv, ExactInv, Alive, Count
<1>7. CursorInv'
  BY <1>1, <1>2, <1>3 DEF EInv, CursorInv
<1> QED BY <1>1, <1>4, <1>5, <1>6, <1>7 DEF EInv, SearchInv

(* The pool is used up: the array is saved, and the next one begins with    *)
(* the extent of the slot behind the pool, if there is one.                 *)
LEMMA SaveFullKeepsEInv ==
    ASSUME EInv, SaveFullExtents, UNCHANGED options
    PROVE  EInv'
<1> DEFINE s == cur_extent_idx + 1
           x == extents[s]
<1>1. PICK p \in Pages : /\ p \in free /\ free' = free \ {p}
                         /\ meta' = meta \cup {p}
  BY DEF SaveFullExtents, GetSwapPage, Available
<1>2. /\ pc = "ready" /\ Exhausted /\ pc' = "prealloc"
      /\ nr_extents' = (IF x.start < x.end THEN 1 ELSE 0)
      /\ extents' = [EmptyMap EXCEPT
                       ![0] = IF x.start < x.end THEN x ELSE None]
      /\ pool' = (IF x.start < x.end THEN PagesOf(x) ELSE {})
      /\ cur_extent_idx' = s /\ cur_offset' = cur_offset + 1
      /\ UNCHANGED <<options, nr, total, asize, offset, i, j, swap_needed,
                     written, data>>
  BY DEF SaveFullExtents
<1>3. /\ s \in Slots /\ s \in Nat /\ cur_offset + 1 \in Nat
      /\ max_extents \in Nat /\ max_extents > 0 /\ offset = 0
  BY <1>2, SwapAssumption DEF EInv, TypeInv, CursorInv, Slots
<1>4. x \in Extent /\ x.start \in Nat /\ x.end \in Nat /\ 0 \in Slots
      /\ 0 \notin Pages
  BY <1>3, ArrayTypes DEF EInv, Array, Extent
<1>5. PagesOf(x) \subseteq Taken
  BY <1>3 DEF EInv, OwnInv
<1> HIDE DEF x, s
<1>6. /\ extents' \in Array
      /\ extents'[0] = (IF x.start < x.end THEN x ELSE None)
      /\ \A t \in Slots : t # 0 => extents'[t] = None
  BY <1>2, <1>4 DEF EmptyMap, None, Array, Extent
<1>7. TypeInv'
  <2>1. nr_extents' \in 0..max_extents /\ cur_offset' \in Nat
        /\ cur_extent_idx' \in Nat
    BY <1>2, <1>3
  <2> QED BY <1>1, <1>2, <1>6, <2>1 DEF EInv, TypeInv
<1>8. OwnInv'
  <2>1. Taken' = Taken
    BY <1>1 DEF Taken
  <2>2. PagesOf(None) = {}
    BY DEF PagesOf, None
  <2>3. \A t \in Slots : PagesOf(extents'[t]) \subseteq Taken
    BY <1>5, <1>6, <2>2
  <2>4. pool' \subseteq Taken
    BY <1>2, <1>5
  <2>5. meta' \cap free' = {}
    BY <1>1 DEF EInv, OwnInv
  <2> QED BY <2>1, <2>3, <2>4, <2>5 DEF OwnInv
<1>9. ExactInv'
  <2>1. Count' = nr_extents' /\ (pool \ {offset})' = pool'
    <3>1. 0 \notin pool'
      BY <1>2, <1>4, <1>5 DEF Taken
    <3> QED BY <1>2, <1>3, <3>1 DEF Count
  <2>2. CASE x.start < x.end
    <3>1. /\ nr_extents' = 1 /\ extents'[0] = x /\ pool' = PagesOf(x)
      BY <1>2, <1>6, <2>2
    <3>2. Ordered(extents', 1)
      BY <2>2, <3>1 DEF Ordered
    <3>3. Apart(extents', 1)
      BY DEF Apart
    <3>4. Holds(extents', 1, pool')
      BY <3>1, <1>4 DEF Holds, PagesOf, Pages
    <3> QED BY <2>1, <3>1, <3>2, <3>3, <3>4 DEF ExactInv, Exact
  <2>3. CASE ~(x.start < x.end)
    <3>1. nr_extents' = 0 /\ pool' = {}
      BY <1>2, <2>3
    <3>2. Exact(extents', 0, {})
      BY DEF Exact, Ordered, Apart, Holds
    <3> QED BY <2>1, <3>1, <3>2 DEF ExactInv
  <2> QED BY <2>2, <2>3
<1>10. CursorInv'
  BY <1>2, <1>3 DEF CursorInv
<1> QED BY <1>2, <1>7, <1>8, <1>9, <1>10 DEF EInv, SearchInv

(* The last array is saved. *)
LEMMA FinishKeepsEInv ==
    ASSUME EInv, Finish, UNCHANGED options
    PROVE  EInv'
<1>1. /\ pc' = "saved"
      /\ UNCHANGED <<options, free, extents, nr, total, asize, offset, i, j,
                     pool, nr_extents, cur_extent_idx, cur_offset,
                     swap_needed, written, data, meta>>
  BY DEF Finish, allocvars
<1>2. TypeInv'
  BY <1>1 DEF EInv, TypeInv
<1>3. OwnInv'
  BY <1>1 DEF EInv, OwnInv, Taken
<1> QED BY <1>1, <1>2, <1>3
        DEF EInv, ExactInv, Alive, CursorInv, SearchInv

-------------------------------------------------------------------------------
(* write_image() has its header page and the page of the first array. *)
LEMMA InitEInv == Init => EInv
<1> SUFFICES ASSUME Init PROVE EInv
  OBVIOUS
<1>1. /\ max_extents \in Nat /\ max_extents > 0 /\ SwapSize \in Nat
      /\ 0 \in Slots
  BY SwapAssumption DEF Slots
<1>2. extents \in Array /\ \A t \in Slots : PagesOf(extents[t]) = {}
  BY DEF Init, EmptyMap, None, Array, Extent, PagesOf
<1>3. TypeInv
  <2>1. swap_needed \in Int
    BY SwapAssumption DEF Init
  <2>2. meta \subseteq Pages /\ free \subseteq Pages
    BY DEF Init
  <2> QED BY <1>1, <1>2, <2>1, <2>2 DEF Init, TypeInv
<1>4. OwnInv
  BY <1>2 DEF Init, OwnInv, Taken
<1>5. ExactInv
  <2>1. Exact(extents, 0, {})
    BY DEF Exact, Ordered, Apart, Holds
  <2> QED BY <2>1 DEF Init, ExactInv, Count
<1> QED BY <1>3, <1>4, <1>5 DEF EInv, Init, CursorInv, SearchInv

(* The reader, and steps that change nothing. *)
LEMMA StutterKeepsEInv ==
    ASSUME EInv, UNCHANGED vars
    PROVE  EInv'
<1>1. UNCHANGED <<pc, options, free, extents, nr, total, asize, offset, i, j,
                  pool, nr_extents, cur_extent_idx, cur_offset, swap_needed,
                  written, data, meta>>
  BY DEF vars, allocvars, handlevars, diskvars
<1> QED BY <1>1 DEF EInv, TypeInv, OwnInv, Taken, ExactInv, Alive, Count,
                    CursorInv, SearchInv

(* A step of the two programs is one of the writer's, or leaves what the    *)
(* writer has alone.                                                        *)
LEMMA WriterSteps ==
    ASSUME [RNext]_allvars
    PROVE  WriterNext \/ UNCHANGED vars
BY DEF RNext, allvars, InitSwapReader, LoadPage, LoadFails, LoadDone

(* Every step keeps the invariant. *)
LEMMA NextEInv ==
    ASSUME EInv, [RNext]_allvars
    PROVE  EInv'
<1>1. CASE UNCHANGED vars
  BY <1>1, StutterKeepsEInv
<1>2. CASE WriterNext
  <2>1. UNCHANGED options
    BY <1>2 DEF WriterNext
  <2>2. CASE Preallocate
    BY <2>1, <2>2, PreallocateKeepsEInv
  <2>3. CASE PreallocateNothing \/ AllocFails \/ SaveFails
    BY <2>1, <2>3, FailKeepsEInv DEF PreallocateNothing, AllocFails, SaveFails
  <2>4. CASE AllocInitial
    BY <2>1, <2>4, AllocInitialKeepsEInv
  <2>5. CASE AllocPage
    BY <2>1, <2>5, AllocPageKeepsEInv
  <2>6. CASE MatchStart
    BY <2>1, <2>6, MatchStartKeepsEInv
  <2>7. CASE MatchEnd
    BY <2>1, <2>7, MatchEndKeepsEInv
  <2>8. CASE SearchOn
    BY <2>1, <2>8, SearchOnKeepsEInv
  <2>9. CASE Place
    BY <2>1, <2>9, PlaceKeepsEInv
  <2>10. CASE AllocDone
    BY <2>1, <2>10, AllocDoneKeepsEInv
  <2>11. CASE SavePage
    BY <2>1, <2>11, SavePageKeepsEInv
  <2>12. CASE SaveFullExtents
    BY <2>1, <2>12, SaveFullKeepsEInv
  <2>13. CASE Finish
    BY <2>1, <2>13, FinishKeepsEInv
  <2> QED BY <1>2, <2>2, <2>3, <2>4, <2>5, <2>6, <2>7, <2>8, <2>9, <2>10,
             <2>11, <2>12, <2>13 DEF WriterNext
<1> QED BY <1>1, <1>2, WriterSteps

(* EInv holds in every state the two programs reach. *)
LEMMA AlwaysEInv == RSpec => []EInv
<1>1. RInit => EInv
  BY InitEInv DEF RInit
<1> QED BY <1>1, NextEInv, PTL DEF RSpec

(* For every array size, swap area and order in which the kernel hands out  *)
(* its pages: the extents of alloc_swap() are sorted with gaps between      *)
(* them, but for the one in the last slot, and hold exactly the pages taken *)
(* from the kernel, each once.                                              *)
THEOREM ExtentsStayExact == RSpec => []ExtentsExact
<1>1. EInv => ExtentsExact
  <2> SUFFICES ASSUME EInv, pc \in {"alloc", "search", "place", "ready"}
               PROVE  ExtentsExact
    BY DEF ExtentsExact
  <2>1. /\ Exact(extents, nr, pool \ {offset})
        /\ pool \subseteq Pages
        /\ \A t \in Slots : PagesOf(extents[t]) \subseteq Pages
    BY DEF EInv, ExactInv, Alive, Count, OwnInv, Taken
  <2>2. /\ \A t \in Slots : extents[t].start \in Nat /\ extents[t].end \in Nat
        /\ \A t \in 0..(nr - 1) : t \in Slots
    BY ArrayTypes DEF EInv
  <2>3. \A s, t \in 0..(nr - 1) :
          s # t => PagesOf(extents[s]) \cap PagesOf(extents[t]) = {}
    <3> SUFFICES ASSUME NEW s \in 0..(nr - 1), NEW t \in 0..(nr - 1), s # t,
                        NEW q, q \in PagesOf(extents[s]),
                        q \in PagesOf(extents[t])
                 PROVE  FALSE
      OBVIOUS
    <3>1. \/ extents[s].end <= extents[t].start
          \/ extents[t].end <= extents[s].start
      BY <2>1 DEF Exact, Apart
    <3> QED BY <3>1, <2>2 DEF PagesOf
  <2>4. UNION {PagesOf(e) : e \in Used} = pool \ {offset}
    <3>1. \A q \in Pages : q \in pool \ {offset} <=>
            \E s \in 0..(nr - 1) : q \in PagesOf(extents[s])
      <4> SUFFICES ASSUME NEW q \in Pages
                   PROVE  q \in pool \ {offset} <=>
                            \E s \in 0..(nr - 1) : q \in PagesOf(extents[s])
        OBVIOUS
      <4>1. q \in pool \ {offset} <=>
              \E s \in 0..(nr - 1) :
                extents[s].start <= q /\ q < extents[s].end
        BY <2>1 DEF Exact, Holds
      <4>2. \A s \in 0..(nr - 1) : q \in PagesOf(extents[s]) <=>
                extents[s].start <= q /\ q < extents[s].end
        BY <2>2 DEF PagesOf, Pages
      <4> QED BY <4>1, <4>2
    <3> QED BY <2>1, <2>2, <3>1 DEF Used
  <2> QED BY <2>1, <2>3, <2>4 DEF ExtentsExact, Exact, Ordered
<1> QED BY <1>1, AlwaysEInv, PTL

-------------------------------------------------------------------------------
(* No page is written over.                                                 *)

(* With compression the array may be used up while there are slots left     *)
(* behind by a merge, and one of those is then taken for an extent (run     *)
(* SwapReader_stale).  No extents are merged when the kernel hands out swap *)
(* pages in ascending order.                                                *)
NoMergeWithCompression ==
    \A c \in Configs : "compress" \in c => "ascending" \in c

(* The pages of the pool that the cursor has not reached. *)
Ahead ==
    {p \in Pages : \E t \in cur_extent_idx..(nr - 1) :
        /\ extents[t].start <= p /\ p < extents[t].end
        /\ t = cur_extent_idx => p > cur_offset}

(* Nothing has been written to the free pages, to those of the header and   *)
(* the arrays, and to those the image has still to be put on.               *)
FreshInv ==
    /\ \A p \in Pages : p \in free \/ p \in meta => data[p] = 0
    /\ pc \in {"prealloc", "initial", "alloc", "search", "place"} =>
         \A p \in pool : data[p] = 0
    /\ pc = "ready" => \A p \in Ahead : data[p] = 0

(* Pages in ascending order: the new one is behind all the others, so that  *)
(* there is nothing in the slots behind the extents.                        *)
AscendingInv ==
    ascending =>
        /\ pc \in {"search", "place"} => \A p \in pool : p <= offset
        /\ Alive => \A t \in Slots :
                      t >= Count => extents[t].start >= extents[t].end

(* Without compression the pool has as many pages as are needed, unless the *)
(* array is full.                                                           *)
CountInv ==
    ~do_compress =>
        /\ pc \in {"initial", "alloc", "search", "place"}
             => total = swap_needed
        /\ pc \in {"alloc", "search", "place"} =>
             Cardinality(pool \ {offset}) >= asize
        /\ pc = "ready" /\ nr <= max_extents
             => Cardinality(Ahead) >= swap_needed

FInv == FreshInv /\ AscendingInv /\ CountInv

(* The sets of pages are finite. *)
LEMMA FinitePages ==
    ASSUME NEW S \in SUBSET Pages
    PROVE  IsFiniteSet(S) /\ Cardinality(S) \in Nat
<1>1. IsFiniteSet(Pages)
  BY SwapAssumption, FS_Interval DEF Pages
<1> QED BY <1>1, FS_Subset, FS_CardinalityType

(* Saving fails, or the last array is saved. *)
LEMMA EndKeepsFInv ==
    ASSUME FInv, pc' \in {"failed", "saved"},
           UNCHANGED <<options, free, meta, data>>
    PROVE  FInv'
BY DEF FInv, FreshInv, AscendingInv, CountInv, Alive

(* preallocate_swap() begins. *)
LEMMA PreallocateKeepsFInv ==
    ASSUME EInv, FInv, Preallocate, UNCHANGED options
    PROVE  FInv'
<1>1. /\ pc = "prealloc"
      /\ nr' = nr_extents /\ asize' = 0 /\ total' = Request
      /\ pc' \in {"initial", "alloc"}
      /\ UNCHANGED <<options, free, extents, offset, pool, swap_needed, data,
                     meta>>
  BY DEF Preallocate, handlevars, diskvars
<1>2. FreshInv'
  BY <1>1 DEF FInv, FreshInv
<1>3. AscendingInv'
  BY <1>1 DEF FInv, AscendingInv, Alive, Count, ascending
<1>4. CountInv'
  <2>1. ~do_compress => Request = swap_needed
    BY DEF Request
  <2>2. Cardinality(pool \ {offset}) >= 0
    BY FinitePages DEF EInv, OwnInv, Taken
  <2> QED BY <1>1, <2>1, <2>2 DEF CountInv, do_compress
<1> QED BY <1>2, <1>3, <1>4 DEF FInv

(* The pool is empty when alloc_swap() has nothing to start from. *)
LEMMA EmptyPool ==
    ASSUME EInv, pc = "initial"
    PROVE  pool = {} /\ offset = 0 /\ nr = 0 /\ 0 \notin Pages
<1>1. offset = 0 /\ nr = 0 /\ 0 \notin Pages
  BY ArrayTypes DEF EInv, CursorInv
<1>2. Exact(extents, 0, pool \ {0}) /\ pool \subseteq Pages
  BY <1>1 DEF EInv, ExactInv, Alive, Count, OwnInv, Taken
<1> QED BY <1>1, <1>2 DEF Exact, Holds

(* The first extent: the page was free. *)
LEMMA AllocInitialKeepsFInv ==
    ASSUME EInv, FInv, AllocInitial, UNCHANGED options
    PROVE  FInv'
<1>1. PICK p \in Pages :
        /\ p \in free /\ free' = free \ {p}
        /\ extents' = [extents EXCEPT ![0] = [start |-> p, end |-> p + 1]]
        /\ pool' = pool \cup {p}
  BY DEF AllocInitial, GetSwapPage, Available
<1>2. /\ pc = "initial" /\ pc' = "alloc" /\ nr' = 1 /\ asize' = 1
      /\ UNCHANGED <<options, total, offset, swap_needed, data, meta>>
  BY DEF AllocInitial, handlevars, diskvars
<1>3. pool = {} /\ offset = 0 /\ nr = 0 /\ 0 \notin Pages
  BY <1>2, EmptyPool
<1>4. FreshInv'
  BY <1>1, <1>2, <1>3 DEF FInv, FreshInv
<1>5. AscendingInv'
  <2> SUFFICES ASSUME ascending
               PROVE  \A t \in Slots : t >= 1 =>
                        extents'[t].start >= extents'[t].end
    BY <1>2 DEF AscendingInv, Count, ascending
  <2>1. \A t \in Slots : t >= 0 => extents[t].start >= extents[t].end
    BY <1>2, <1>3 DEF FInv, AscendingInv, Alive, Count
  <2>2. \A t \in Slots : t >= 1 => extents'[t] = extents[t] /\ t >= 0
    BY <1>1 DEF EInv, TypeInv, Array, Slots
  <2> QED BY <2>1, <2>2
<1>6. CountInv'
  <2>1. (pool \ {offset})' = {p}
    BY <1>1, <1>2, <1>3
  <2>2. Cardinality({p}) = 1
    BY FS_Singleton
  <2>3. Cardinality((pool \ {offset})') >= asize'
    BY <1>2, <2>1, <2>2
  <2> QED BY <1>2, <2>3 DEF FInv, CountInv, do_compress
<1> QED BY <1>4, <1>5, <1>6 DEF FInv

(* One more page: it was free and, in ascending order, is the last. *)
LEMMA AllocPageKeepsFInv ==
    ASSUME EInv, FInv, AllocPage, UNCHANGED options
    PROVE  FInv'
<1>1. PICK p \in Pages : /\ p \in Available /\ free' = free \ {p}
                         /\ offset' = p /\ pool' = pool \cup {p}
  BY DEF AllocPage, GetSwapPage
<1>2. /\ pc = "alloc" /\ pc' = "search"
      /\ UNCHANGED <<options, extents, nr, total, asize, swap_needed, data,
                     meta>>
  BY DEF AllocPage, handlevars, diskvars
<1>3. p \in free /\ (ascending => \A q \in Pages \ free : q < p)
  BY <1>1 DEF Available
<1>4. pool \subseteq Taken /\ offset = 0 /\ 0 \notin Pages
  BY <1>2, ArrayTypes DEF EInv, OwnInv, CursorInv
<1>5. FreshInv'
  BY <1>1, <1>2, <1>3 DEF FInv, FreshInv
<1>6. AscendingInv'
  <2>1. ascending => \A q \in pool' : q <= p
    BY <1>1, <1>3, <1>4 DEF Taken, Pages
  <2> QED BY <1>1, <1>2, <2>1 DEF FInv, AscendingInv, Alive, Count, ascending
<1>7. CountInv'
  <2>1. (pool \ {offset})' = pool \ {offset}
    BY <1>1, <1>3, <1>4 DEF Taken
  <2> QED BY <1>2, <2>1 DEF FInv, CountInv, do_compress
<1> QED BY <1>5, <1>6, <1>7 DEF FInv

(* The page is placed; nothing is left in a slot behind the extents. *)
LEMMA PlacedKeepsFInv ==
    ASSUME EInv, FInv, pc \in {"search", "place"},
           ascending => \A t \in Slots :
               t >= nr' => extents'[t].start >= extents'[t].end,
           offset' = 0, asize' = asize + 1, pc' = "alloc",
           UNCHANGED <<options, free, total, pool, swap_needed, data, meta>>
    PROVE  FInv'
<1>1. FreshInv'
  BY DEF FInv, FreshInv
<1>2. AscendingInv'
  BY DEF AscendingInv, Count, ascending
<1>3. CountInv'
  <2>1. /\ pool \subseteq Pages /\ 0 \notin Pages /\ offset \in pool
        /\ asize \in Nat
    BY ArrayTypes DEF EInv, OwnInv, Taken, SearchInv, TypeInv
  <2>2. /\ IsFiniteSet(pool) /\ Cardinality(pool) \in Nat
        /\ Cardinality(pool \ {offset}) \in Nat
    BY <2>1, FinitePages
  <2>3. Cardinality(pool \ {offset}) = Cardinality(pool) - 1
    BY <2>1, <2>2, FS_RemoveElement
  <2>4. (pool \ {offset})' = pool
    BY <2>1
  <2>5. ~do_compress => Cardinality(pool) >= asize'
    BY <2>1, <2>2, <2>3 DEF FInv, CountInv
  <2> QED BY <2>4, <2>5 DEF FInv, CountInv, do_compress
<1> QED BY <1>1, <1>2, <1>3 DEF FInv

(* A page that extends an extent in ascending order extends the last one,   *)
(* at its end.                                                              *)
LEMMA MatchedKeepsFInv ==
    ASSUME EInv, FInv, MatchStart \/ MatchEnd, UNCHANGED options
    PROVE  FInv'
<1>1. pc = "search"
  BY DEF MatchStart, MatchEnd
<1>2. /\ offset' = 0 /\ asize' = asize + 1 /\ pc' = "alloc"
      /\ UNCHANGED <<options, free, total, pool, swap_needed, data, meta>>
  BY DEF MatchStart, MatchEnd, Matched, handlevars, diskvars
<1>3. k \in Nat /\ k \in 0..(nr - 1)
  BY <1>1, MiddleInside DEF EInv
<1>4. /\ Exact(extents, nr, pool \ {offset})
      /\ nr \in 1..max_extents /\ nr \in Nat /\ offset \in Nat
      /\ \A t \in 0..(nr - 1) : t \in Slots /\ t < max_extents
      /\ \A s \in 0..(nr - 1) : extents[s].start < extents[s].end
  BY <1>1, SearchFacts
<1>5. /\ extents \in Array
      /\ \A t \in Slots : extents[t].start \in Nat /\ extents[t].end \in Nat
      /\ \A t \in Slots : t \in Nat
      /\ max_extents \in Nat
  BY ArrayTypes DEF EInv, Slots
<1> HIDE DEF k
<1>6. ASSUME ascending
      PROVE  \A t \in Slots : t >= nr' => extents'[t].start >= extents'[t].end
  <2>1. \A p \in pool : p <= offset
    BY <1>1, <1>6 DEF FInv, AscendingInv
  <2>2. ASSUME NEW t \in 0..(nr - 1) PROVE extents[t].start \in pool
    <3>1. extents[t].start \in PagesOf(extents[t])
      BY <1>4, <1>5 DEF PagesOf
    <3>2. extents[t].start \in Pages
      BY <1>4, <3>1 DEF EInv, OwnInv, Taken
    <3> QED BY <1>4, <1>5, <3>2 DEF Exact, Holds
  <2>3. \A t \in 0..(nr - 1) : extents[t].start <= offset
    BY <2>1, <2>2
  <2>4. ~MatchStart
    BY <2>3, <1>3, <1>4, <1>5 DEF MatchStart
  <2>5. ~(k + 1 < nr /\ extents[k + 1].start = offset + 1)
    BY <2>3, <1>3, <1>4, <1>5
  <2>6. /\ extents' = [extents EXCEPT ![k].end = offset + 1] /\ nr' = nr
    BY <2>4, <2>5 DEF MatchEnd, Matched
  <2>7. \A t \in Slots : t >= nr => extents[t].start >= extents[t].end
    BY <1>1, <1>6 DEF FInv, AscendingInv, Alive, Count
  <2>8. \A t \in Slots : t >= nr => extents'[t] = extents[t]
    BY <2>6, <1>3, <1>4, <1>5 DEF Array
  <2> QED BY <2>6, <2>7, <2>8
<1> QED BY <1>1, <1>2, <1>6, PlacedKeepsFInv

(* A page that becomes an extent: the slots behind are as they were. *)
LEMMA PlaceKeepsFInv ==
    ASSUME EInv, FInv, Place, UNCHANGED options
    PROVE  FInv'
<1>1. /\ pc = "place" /\ nr' = nr + 1
      /\ offset' = 0 /\ asize' = asize + 1 /\ pc' = "alloc"
      /\ UNCHANGED <<options, free, total, pool, swap_needed, data, meta>>
  BY DEF Place, handlevars, diskvars
<1>2. nr \in Nat /\ i \in 0..(nr - 1)
  BY <1>1, ArrayTypes DEF EInv, SearchInv
<1>3. NewSlot \in 0..nr
  BY <1>2 DEF NewSlot
<1>4. \A t \in Slots : t >= nr + 1 => extents'[t] = extents[t] /\ t >= nr
  BY <1>2, <1>3 DEF Place, Slots
<1>5. ascending => \A t \in Slots :
        t >= nr' => extents'[t].start >= extents'[t].end
  BY <1>1, <1>4 DEF FInv, AscendingInv, Alive, Count
<1> QED BY <1>1, <1>5, PlacedKeepsFInv

(* The search changes nothing of what it looks at. *)
LEMMA SearchOnKeepsFInv ==
    ASSUME FInv, SearchOn, UNCHANGED options
    PROVE  FInv'
<1>1. /\ pc = "search" /\ pc' \in {"search", "place"}
      /\ UNCHANGED <<options, free, extents, nr, total, asize, offset, pool,
                     swap_needed, data, meta>>
  BY DEF SearchOn, handlevars, diskvars
<1> QED BY <1>1 DEF FInv, FreshInv, AscendingInv, CountInv, Alive, Count,
                    ascending, do_compress

-------------------------------------------------------------------------------
(* The first page of the pool and what comes behind it. *)
LEMMA FirstPage ==
    ASSUME EInv, pc = "alloc"
    PROVE  /\ extents[0].start \in pool
           /\ extents[0].start \in Pages /\ extents[0].start \in Nat
           /\ nr \in Nat /\ nr >= 1 /\ 0 \in 0..(nr - 1)
           /\ \A p \in Pages :
                p \in pool <=> \E s \in 0..(nr - 1) :
                                 extents[s].start <= p /\ p < extents[s].end
           /\ \A s \in 1..(nr - 1) :
                ~(extents[s].start <= extents[0].start
                    /\ extents[0].start < extents[s].end)
<1>1. /\ nr \in Nat /\ nr >= 1 /\ 0 \in 0..(nr - 1) /\ offset = 0
      /\ 0 \notin Pages
      /\ \A t \in 0..(nr - 1) : t \in Slots /\ t \in Nat
      /\ \A t \in Slots : extents[t].start \in Nat /\ extents[t].end \in Nat
  BY ArrayTypes DEF EInv, CursorInv
<1>2. pool \ {offset} = pool
  BY <1>1 DEF EInv, OwnInv, Taken
<1>3. Exact(extents, nr, pool)
  BY <1>2 DEF EInv, ExactInv, Alive, Count
<1>4. extents[0].start < extents[0].end
  BY <1>1, <1>3 DEF Exact, Ordered
<1>5. extents[0].start \in Pages
  <2>1. extents[0].start \in PagesOf(extents[0])
    BY <1>1, <1>4 DEF PagesOf
  <2> QED BY <1>1, <2>1 DEF EInv, OwnInv, Taken
<1>6. \A p \in Pages :
        p \in pool <=> \E s \in 0..(nr - 1) :
                         extents[s].start <= p /\ p < extents[s].end
  BY <1>3 DEF Exact, Holds
<1>7. extents[0].start \in pool
  BY <1>1, <1>4, <1>5, <1>6
<1>8. ASSUME NEW s \in 1..(nr - 1)
      PROVE  ~(extents[s].start <= extents[0].start
                 /\ extents[0].start < extents[s].end)
  <2>1. s \in 0..(nr - 1) /\ s # 0
    BY <1>1
  <2>2. extents[0].end <= extents[s].start
        \/ extents[s].end <= extents[0].start
    BY <1>1, <1>3, <2>1 DEF Exact, Apart
  <2> QED BY <1>1, <1>4, <2>1, <2>2
<1> QED BY <1>1, <1>5, <1>6, <1>7, <1>8

(* alloc_swap() is done: all of the pool is ahead of the cursor, except for *)
(* a page that is written at once.                                          *)
LEMMA AllocDoneKeepsFInv ==
    ASSUME EInv, FInv, AllocDone, UNCHANGED options
    PROVE  FInv'
<1> DEFINE a == extents[0].start
<1>1. /\ pc = "alloc" /\ pc' = "ready" /\ ~AllocMore
      /\ cur_extent_idx' = 0
      /\ UNCHANGED <<options, free, extents, nr, total, asize, offset, pool,
                     meta>>
      /\ \/ /\ cur_offset' = a - 1
            /\ UNCHANGED <<swap_needed, data>>
         \/ /\ cur_offset' = a
            /\ swap_needed' = swap_needed - 1
            /\ data' = [data EXCEPT ![a] = written + 1]
  BY DEF AllocDone, WriteData, allocvars, diskvars
<1>2. /\ a \in pool /\ a \in Pages /\ a \in Nat
      /\ nr \in Nat /\ nr >= 1 /\ 0 \in 0..(nr - 1)
      /\ \A p \in Pages :
           p \in pool <=> \E s \in 0..(nr - 1) :
                            extents[s].start <= p /\ p < extents[s].end
      /\ \A s \in 1..(nr - 1) : ~(extents[s].start <= a /\ a < extents[s].end)
  BY <1>1, FirstPage
<1>3. /\ pool \subseteq Pages /\ a \notin free /\ a \notin meta /\ offset = 0
      /\ 0 \notin Pages
  BY <1>1, <1>2, ArrayTypes DEF EInv, OwnInv, Taken, CursorInv
<1>4. data \in [Pages -> Nat] /\ swap_needed \in Int /\ asize \in Nat
      /\ total \in Nat
  BY DEF EInv, TypeInv
<1>5. Ahead' = IF cur_offset' = a THEN pool \ {a} ELSE pool
  <2>1. Ahead' = {p \in Pages : \E t \in 0..(nr - 1) :
                    /\ extents[t].start <= p /\ p < extents[t].end
                    /\ t = 0 => p > cur_offset'}
    BY <1>1 DEF Ahead
  <2>2. \A t \in 0..(nr - 1) : t # 0 => t \in 1..(nr - 1)
    BY <1>2
  <2> HIDE DEF a
  <2>3. \A p \in Pages : p \in Nat
    BY DEF Pages
  <2>4. extents[0].start = a
    BY DEF a
  <2>5. CASE cur_offset' = a
    <3>1. \A p \in Pages : p \in Ahead' => p \in pool /\ p # a
      BY <1>2, <2>1, <2>2, <2>5
    <3>2. ASSUME NEW p \in pool, p # a PROVE p \in Ahead'
      <4>1. PICK s \in 0..(nr - 1) :
              extents[s].start <= p /\ p < extents[s].end
        BY <1>2, <1>3
      <4>2. s = 0 => p > a
        BY <4>1, <3>2, <2>3, <2>4, <1>2, <1>3
      <4> QED BY <4>1, <4>2, <2>1, <2>5, <1>3
    <3> QED BY <2>1, <2>5, <3>1, <3>2, <1>3
  <2>6. CASE cur_offset' = a - 1
    <3>1. \A p \in Pages : p \in Ahead' => p \in pool
      BY <1>2, <2>1
    <3>2. ASSUME NEW p \in pool PROVE p \in Ahead'
      <4>1. PICK s \in 0..(nr - 1) :
              extents[s].start <= p /\ p < extents[s].end
        BY <1>2, <1>3
      <4>2. s = 0 => p > a - 1
        BY <4>1, <2>3, <2>4, <1>2, <1>3
      <4> QED BY <4>1, <4>2, <2>1, <2>6, <1>3
    <3>3. a - 1 # a
      BY <1>2
    <3> QED BY <2>1, <2>6, <3>1, <3>2, <3>3, <1>3
  <2> QED BY <1>1, <2>5, <2>6
<1> HIDE DEF a
<1>6. FreshInv'
  <2>1. \A p \in pool : data[p] = 0
    BY <1>1 DEF FInv, FreshInv
  <2>2. \A p \in Pages : p # a => data'[p] = data[p]
    BY <1>1, <1>2, <1>4
  <2>3. UNCHANGED data \/ cur_offset' = a
    BY <1>1
  <2>4. \A p \in Ahead' : data'[p] = 0
    BY <1>3, <1>5, <2>1, <2>2, <2>3
  <2>5. \A p \in Pages : p \in free \/ p \in meta => data'[p] = 0
    BY <1>3, <2>2 DEF FInv, FreshInv
  <2> QED BY <1>1, <2>4, <2>5 DEF FreshInv
<1>7. AscendingInv'
  BY <1>1 DEF FInv, AscendingInv, Alive, Count, ascending
<1>8. CountInv'
  <2> SUFFICES ASSUME ~do_compress, nr <= max_extents
               PROVE  Cardinality(Ahead') >= swap_needed'
    BY <1>1 DEF CountInv, do_compress
  <2>1. /\ total = swap_needed /\ Cardinality(pool \ {offset}) >= asize
    BY <1>1 DEF FInv, CountInv
  <2>2. pool \ {offset} = pool
    BY <1>3
  <2>3. asize >= total
    BY <1>1, <1>4 DEF AllocMore
  <2>4. IsFiniteSet(pool) /\ Cardinality(pool) \in Nat
    BY <1>3, FinitePages
  <2>5. Cardinality(pool) >= swap_needed
    BY <2>1, <2>2, <2>3, <2>4, <1>4
  <2>6. Cardinality(pool \ {a}) = Cardinality(pool) - 1
    BY <1>2, <2>4, FS_RemoveElement
  <2>7. CASE cur_offset' = a
    <3>1. swap_needed' = swap_needed - 1
      BY <1>1, <1>2, <2>7
    <3> QED BY <1>4, <1>5, <2>4, <2>5, <2>6, <2>7, <3>1
  <2>8. CASE cur_offset' # a
    <3>1. swap_needed' = swap_needed
      BY <1>1, <2>8
    <3> QED BY <1>5, <2>5, <2>8, <3>1
  <2> QED BY <2>7, <2>8
<1> QED BY <1>6, <1>7, <1>8 DEF FInv

(* The next page of the pool is ahead, and then no longer. *)
LEMMA SaveAhead ==
    ASSUME EInv, SavePage
    PROVE  NextOffset \in Ahead /\ Ahead' = Ahead \ {NextOffset}
<1>1. /\ pc = "ready" /\ ~Exhausted
      /\ cur_extent_idx' = NextIdx /\ cur_offset' = NextOffset
      /\ UNCHANGED <<extents, nr>>
  BY DEF SavePage, allocvars
<1>2. /\ NextIdx \in Nat /\ NextIdx \in 0..(nr - 1)
      /\ NextOffset \in Nat
      /\ extents[NextIdx].start <= NextOffset
      /\ NextOffset < extents[NextIdx].end
      /\ NextOffset \in Pages
      /\ \/ NextIdx = cur_extent_idx /\ NextOffset = cur_offset + 1
         \/ /\ NextIdx = cur_extent_idx + 1
            /\ NextOffset = extents[NextIdx].start
            /\ cur_offset + 1 = extents[cur_extent_idx].end
  BY <1>1, NextPage DEF Taken
<1>3. /\ cur_extent_idx \in Nat /\ cur_offset \in Nat /\ nr \in Nat
      /\ \A t \in 0..(nr - 1) :
           extents[t].start \in Nat /\ extents[t].end \in Nat
  BY ArrayTypes DEF EInv, TypeInv
<1>4. NextOffset \in Ahead
  BY <1>2, <1>3 DEF Ahead
<1>5. Ahead' = {p \in Pages : \E t \in NextIdx..(nr - 1) :
                  /\ extents[t].start <= p /\ p < extents[t].end
                  /\ t = NextIdx => p > NextOffset}
  BY <1>1 DEF Ahead
<1>6. \A s, t \in 0..(nr - 1) :
        s # t => extents[s].end <= extents[t].start
                   \/ extents[t].end <= extents[s].start
  BY <1>1 DEF EInv, ExactInv, Alive, Count, Exact, Apart
<1>7. ASSUME NEW p \in Ahead' PROVE p \in Ahead /\ p # NextOffset
  <2>1. PICK t \in NextIdx..(nr - 1) :
          /\ extents[t].start <= p /\ p < extents[t].end
          /\ t = NextIdx => p > NextOffset
    BY <1>5, <1>7
  <2>2. p \in Pages /\ p \in Nat
    BY <1>5, <1>7 DEF Pages
  <2>3. /\ t \in 0..(nr - 1) /\ t \in cur_extent_idx..(nr - 1)
        /\ t = cur_extent_idx => t = NextIdx /\ p > cur_offset
    BY <1>2, <1>3, <2>1, <2>2
  <2>4. p \in Ahead
    BY <2>1, <2>2, <2>3 DEF Ahead
  <2>5. t # NextIdx => p # NextOffset
    BY <1>2, <1>3, <1>6, <2>1, <2>2, <2>3
  <2> QED BY <1>2, <2>1, <2>2, <2>4, <2>5
<1>8. ASSUME NEW p \in Ahead, p # NextOffset PROVE p \in Ahead'
  <2>1. PICK t \in cur_extent_idx..(nr - 1) :
          /\ extents[t].start <= p /\ p < extents[t].end
          /\ t = cur_extent_idx => p > cur_offset
    BY DEF Ahead
  <2>2. p \in Pages /\ p \in Nat
    BY DEF Ahead, Pages
  <2>3. t \in 0..(nr - 1)
    BY <1>3, <2>1
  <2>4. t \in NextIdx..(nr - 1) /\ (t = NextIdx => p > NextOffset)
    BY <1>2, <1>3, <1>8, <2>1, <2>2, <2>3
  <2> QED BY <1>5, <2>1, <2>2, <2>4
<1> QED BY <1>4, <1>7, <1>8

(* A page is saved. *)
LEMMA SavePageKeepsFInv ==
    ASSUME EInv, FInv, SavePage, UNCHANGED options
    PROVE  FInv'
<1>1. /\ pc = "ready" /\ pc' = "ready"
      /\ swap_needed' = swap_needed - 1
      /\ data' = [data EXCEPT ![NextOffset] = written + 1]
      /\ UNCHANGED <<options, free, extents, nr, pool, meta>>
  BY DEF SavePage, WriteData, allocvars
<1>2. NextOffset \in Ahead /\ Ahead' = Ahead \ {NextOffset}
  BY SaveAhead
<1>3. NextOffset \notin free /\ NextOffset \notin meta
  BY NextPage DEF SavePage, Taken
<1>4. data \in [Pages -> Nat] /\ swap_needed \in Int /\ Ahead \subseteq Pages
  BY DEF EInv, TypeInv, Ahead
<1>5. FreshInv'
  <2>1. \A p \in Pages : p # NextOffset => data'[p] = data[p]
    BY <1>1, <1>4
  <2>2. \A p \in Ahead' : data'[p] = 0
    BY <1>1, <1>2, <1>4, <2>1 DEF FInv, FreshInv
  <2>3. \A p \in Pages : p \in free \/ p \in meta => data'[p] = 0
    BY <1>3, <2>1 DEF FInv, FreshInv
  <2> QED BY <1>1, <2>2, <2>3 DEF FreshInv
<1>6. AscendingInv'
  BY <1>1 DEF FInv, AscendingInv, Alive, Count, ascending
<1>7. CountInv'
  <2> SUFFICES ASSUME ~do_compress, nr <= max_extents
               PROVE  Cardinality(Ahead') >= swap_needed'
    BY <1>1 DEF CountInv, do_compress
  <2>1. Cardinality(Ahead) >= swap_needed
    BY <1>1 DEF FInv, CountInv
  <2>2. IsFiniteSet(Ahead) /\ Cardinality(Ahead) \in Nat
    BY <1>4, FinitePages
  <2>3. Cardinality(Ahead \ {NextOffset}) = Cardinality(Ahead) - 1
    BY <1>2, <2>2, FS_RemoveElement
  <2> QED BY <1>1, <1>2, <1>4, <2>1, <2>2, <2>3
<1> QED BY <1>5, <1>6, <1>7 DEF FInv

(* When the pool is used up, the array is full, or the pages came in        *)
(* ascending order: without compression there are as many as needed.        *)
LEMMA UsedUp ==
    ASSUME EInv, FInv, NoMergeWithCompression, pc = "ready", More, Exhausted
    PROVE  /\ cur_extent_idx \in Nat /\ cur_extent_idx + 1 \in Slots
           /\ cur_offset + 1 = extents[cur_extent_idx].end
           /\ \/ nr = max_extents + 1 /\ cur_extent_idx + 1 = max_extents
              \/ nr <= max_extents /\ cur_extent_idx + 1 = nr /\ ascending
<1> DEFINE s == cur_extent_idx + 1
<1>1. /\ cur_extent_idx \in Nat /\ cur_offset \in Nat
      /\ nr \in 0..(max_extents + 1) /\ max_extents \in Nat
      /\ nr_extents = (IF nr < max_extents THEN nr ELSE max_extents)
      /\ cur_extent_idx < nr_extents /\ nr \in Nat
      /\ cur_offset < extents[cur_extent_idx].end
  BY SwapAssumption DEF EInv, TypeInv, CursorInv
<1>2. s = nr_extents /\ ~InExtent /\ s \in Nat
  BY <1>1 DEF Exhausted, NextIdx
<1>3. s \in Slots /\ cur_extent_idx \in Slots
  BY <1>1, <1>2 DEF Slots
<1>4. extents[cur_extent_idx].end \in Nat
  BY <1>3, ArrayTypes DEF EInv
<1>5. cur_offset + 1 = extents[cur_extent_idx].end
  BY <1>1, <1>2, <1>4 DEF InExtent
<1>6. CASE nr = max_extents + 1
  BY <1>1, <1>2, <1>3, <1>5, <1>6
<1>7. CASE nr <= max_extents
  <2>1. s = nr
    BY <1>1, <1>2, <1>7
  <2>2. SUFFICES ASSUME ~ascending PROVE FALSE
    BY <1>1, <1>3, <1>5, <1>7, <2>1
  <2>3. ~do_compress
    BY <2>2 DEF NoMergeWithCompression, ascending, do_compress, EInv, TypeInv
  <2>4. Ahead = {}
    <3> SUFFICES ASSUME NEW p \in Ahead PROVE FALSE
      OBVIOUS
    <3>1. PICK t \in cur_extent_idx..(nr - 1) :
            /\ extents[t].start <= p /\ p < extents[t].end
            /\ t = cur_extent_idx => p > cur_offset
      BY DEF Ahead
    <3>2. t = cur_extent_idx /\ p \in Nat
      BY <1>1, <2>1 DEF Ahead, Pages
    <3> QED BY <3>1, <3>2, <1>1, <1>5
  <2>5. Cardinality(Ahead) = 0
    BY <2>4, FS_EmptySet
  <2>6. swap_needed > 0 /\ swap_needed \in Int
    BY <2>3 DEF More, EInv, TypeInv
  <2> QED BY <1>7, <2>3, <2>5, <2>6 DEF FInv, CountInv
<1> QED BY <1>1, <1>6, <1>7

(* The slot behind it then has the last extent, on which nothing was        *)
(* written, or there is nothing in it or in the slots that follow.          *)
LEMMA BehindThePool ==
    ASSUME EInv, FInv, NoMergeWithCompression, pc = "ready", More, Exhausted
    PROVE  LET s == cur_extent_idx + 1
           IN  \/ s = max_extents /\ \A p \in PagesOf(extents[s]) : data[p] = 0
               \/ \A t \in Slots : t >= s => extents[t].start >= extents[t].end
<1> DEFINE s == cur_extent_idx + 1
           x == extents[s]
<1>1. /\ s \in Slots /\ cur_extent_idx \in Nat
      /\ \/ nr = max_extents + 1 /\ s = max_extents
         \/ nr <= max_extents /\ s = nr /\ ascending
  BY UsedUp
<1>2. max_extents \in Nat /\ x.start \in Nat /\ x.end \in Nat
  BY <1>1, ArrayTypes, SwapAssumption DEF EInv
<1>3. CASE nr = max_extents + 1 /\ s = max_extents
  <2>1. s \in cur_extent_idx..(nr - 1) /\ s # cur_extent_idx
    BY <1>1, <1>2, <1>3
  <2>2. ASSUME NEW p \in PagesOf(x) PROVE data[p] = 0
    <3>1. p \in Pages
      BY <1>1, <2>2 DEF EInv, OwnInv, Taken
    <3>2. x.start <= p /\ p < x.end
      BY <1>2, <2>2 DEF PagesOf
    <3>3. p \in Ahead
      BY <2>1, <3>1, <3>2 DEF Ahead
    <3> QED BY <3>3 DEF FInv, FreshInv
  <2> QED BY <1>3, <2>2
<1>4. CASE nr <= max_extents /\ s = nr /\ ascending
  BY <1>4 DEF FInv, AscendingInv, Alive, Count
<1> QED BY <1>1, <1>3, <1>4

(* The array is saved, and the next one begins. *)
LEMMA SaveFullKeepsFInv ==
    ASSUME EInv, FInv, NoMergeWithCompression, SaveFullExtents,
           UNCHANGED options
    PROVE  FInv'
<1> DEFINE s == cur_extent_idx + 1
           x == extents[s]
<1>1. PICK p \in Pages : /\ p \in free /\ free' = free \ {p}
                         /\ meta' = meta \cup {p}
  BY DEF SaveFullExtents, GetSwapPage, Available
<1>2. /\ pc = "ready" /\ More /\ Exhausted /\ pc' = "prealloc"
      /\ nr_extents' = (IF x.start < x.end THEN 1 ELSE 0)
      /\ extents' = [EmptyMap EXCEPT
                       ![0] = IF x.start < x.end THEN x ELSE None]
      /\ pool' = (IF x.start < x.end THEN PagesOf(x) ELSE {})
      /\ UNCHANGED <<options, data>>
  BY DEF SaveFullExtents
<1>3. x.start < x.end => \A q \in PagesOf(x) : data[q] = 0
  <2>1. /\ s \in Slots /\ x.start \in Nat /\ x.end \in Nat /\ s >= s
        /\ s \in Nat
    BY <1>2, UsedUp, ArrayTypes DEF EInv
  <2>2. \/ s = max_extents /\ \A q \in PagesOf(x) : data[q] = 0
        \/ \A t \in Slots : t >= s => extents[t].start >= extents[t].end
    BY <1>2, BehindThePool
  <2> QED BY <2>1, <2>2
<1> HIDE DEF x
<1>4. FreshInv'
  <2>1. \A q \in pool' : data[q] = 0
    BY <1>2, <1>3
  <2>2. \A q \in Pages : q \in free' \/ q \in meta' => data[q] = 0
    BY <1>1 DEF FInv, FreshInv
  <2> QED BY <1>2, <2>1, <2>2 DEF FreshInv
<1>5. AscendingInv'
  <2>1. ASSUME NEW t \in Slots, t >= nr_extents'
        PROVE  extents'[t].start >= extents'[t].end
    <3>1. extents'[t] = None
      BY <1>2, <2>1, SwapAssumption DEF EmptyMap, Slots
    <3> QED BY <3>1 DEF None
  <2> QED BY <1>2, <2>1 DEF AscendingInv, Count
<1>6. CountInv'
  BY <1>2 DEF CountInv
<1> QED BY <1>4, <1>5, <1>6 DEF FInv

-------------------------------------------------------------------------------
(* It holds at the beginning. *)
LEMMA InitFInv == Init => FInv
<1> SUFFICES ASSUME Init PROVE FInv
  OBVIOUS
<1>1. FreshInv
  BY DEF Init, FreshInv
<1>2. AscendingInv
  BY DEF Init, AscendingInv, EmptyMap, None
<1>3. CountInv
  BY DEF Init, CountInv
<1> QED BY <1>1, <1>2, <1>3 DEF FInv

(* The reader, and steps that change nothing. *)
LEMMA StutterKeepsFInv ==
    ASSUME FInv, UNCHANGED vars
    PROVE  FInv'
<1>1. UNCHANGED <<pc, options, free, extents, nr, total, asize, offset, pool,
                  nr_extents, cur_extent_idx, cur_offset, swap_needed, data,
                  meta>>
  BY DEF vars, allocvars, handlevars, diskvars
<1>2. Ahead' = Ahead
  BY <1>1 DEF Ahead
<1> QED BY <1>1, <1>2 DEF FInv, FreshInv, AscendingInv, CountInv, Alive,
                          Count, ascending, do_compress

(* Every step keeps it. *)
LEMMA NextFInv ==
    ASSUME EInv, FInv, NoMergeWithCompression, [RNext]_allvars
    PROVE  FInv'
<1>1. CASE UNCHANGED vars
  BY <1>1, StutterKeepsFInv
<1>2. CASE WriterNext
  <2>1. UNCHANGED options
    BY <1>2 DEF WriterNext
  <2>2. CASE Preallocate
    BY <2>1, <2>2, PreallocateKeepsFInv
  <2>3. CASE PreallocateNothing \/ AllocFails \/ SaveFails
    <3>1. pc' = "failed" /\ UNCHANGED <<free, meta, data>>
      BY <2>3 DEF PreallocateNothing, AllocFails, SaveFails, Fail, allocvars,
                  diskvars
    <3> QED BY <2>1, <3>1, EndKeepsFInv
  <2>4. CASE AllocInitial
    BY <2>1, <2>4, AllocInitialKeepsFInv
  <2>5. CASE AllocPage
    BY <2>1, <2>5, AllocPageKeepsFInv
  <2>6. CASE MatchStart \/ MatchEnd
    BY <2>1, <2>6, MatchedKeepsFInv
  <2>7. CASE SearchOn
    BY <2>1, <2>7, SearchOnKeepsFInv
  <2>8. CASE Place
    BY <2>1, <2>8, PlaceKeepsFInv
  <2>9. CASE AllocDone
    BY <2>1, <2>9, AllocDoneKeepsFInv
  <2>10. CASE SavePage
    BY <2>1, <2>10, SavePageKeepsFInv
  <2>11. CASE SaveFullExtents
    BY <2>1, <2>11, SaveFullKeepsFInv
  <2>12. CASE Finish
    <3>1. pc' = "saved" /\ UNCHANGED <<free, meta, data>>
      BY <2>12 DEF Finish, allocvars
    <3> QED BY <2>1, <3>1, EndKeepsFInv
  <2> QED BY <1>2, <2>2, <2>3, <2>4, <2>5, <2>6, <2>7, <2>8, <2>9, <2>10,
             <2>11, <2>12 DEF WriterNext
<1> QED BY <1>1, <1>2, WriterSteps

(* So does every state the two programs reach. *)
LEMMA AlwaysFInv == NoMergeWithCompression => (RSpec => [](EInv /\ FInv))
<1> SUFFICES ASSUME NoMergeWithCompression PROVE RSpec => [](EInv /\ FInv)
  OBVIOUS
<1>1. RInit => EInv /\ FInv
  BY InitEInv, InitFInv DEF RInit
<1>2. EInv /\ FInv /\ [RNext]_allvars => EInv' /\ FInv'
  BY NextEInv, NextFInv
<1> QED BY <1>1, <1>2, PTL DEF RSpec

(* save_page() takes every page out of the pool once: it never writes over  *)
(* a page of the image, over the header's page or one of an array, or over  *)
(* a page the kernel did not give, for every array size, swap area and      *)
(* order of the pages, unless extents are merged while half the estimate is *)
(* allocated at a time.                                                     *)
THEOREM NothingOverwritten ==
    NoMergeWithCompression => (RSpec => NeverOverwritten)
<1> SUFFICES ASSUME NoMergeWithCompression PROVE RSpec => NeverOverwritten
  OBVIOUS
<1> DEFINE Spared == \A p \in Pages : data'[p] # data[p] =>
                       data[p] = 0 /\ p \notin meta /\ p \notin free
<1>1. EInv /\ FInv /\ [RNext]_allvars => [Spared]_vars
  <2> SUFFICES ASSUME EInv, FInv, WriterNext PROVE Spared
    BY WriterSteps
  <2>1. data \in [Pages -> Nat]
    BY DEF EInv, TypeInv
  <2>2. CASE AllocDone
    <3>1. /\ pc = "alloc"
          /\ \/ UNCHANGED data
             \/ data' = [data EXCEPT ![extents[0].start] = written + 1]
      BY <2>2 DEF AllocDone, WriteData, diskvars
    <3>2. extents[0].start \in pool
      BY <3>1, FirstPage
    <3>3. /\ data[extents[0].start] = 0
          /\ extents[0].start \notin meta /\ extents[0].start \notin free
      BY <3>1, <3>2 DEF FInv, FreshInv, EInv, OwnInv, Taken
    <3> QED BY <2>1, <3>1, <3>3
  <2>3. CASE SavePage
    <3>1. pc = "ready" /\ data' = [data EXCEPT ![NextOffset] = written + 1]
      BY <2>3 DEF SavePage, WriteData
    <3>2. /\ data[NextOffset] = 0
          /\ NextOffset \notin meta /\ NextOffset \notin free
      BY <2>3, <3>1, SaveAhead, NextPage
      DEF FInv, FreshInv, SavePage, Taken
    <3> QED BY <2>1, <3>1, <3>2
  <2>4. CASE UNCHANGED data
    BY <2>4
  <2>5. WriterNext => AllocDone \/ SavePage \/ UNCHANGED data
    BY DEF WriterNext, Preallocate, PreallocateNothing, AllocInitial,
           AllocPage, AllocFails, MatchStart, MatchEnd, SearchOn, Place,
           SaveFullExtents, SaveFails, Finish, Fail, Matched, diskvars
  <2> QED BY <2>2, <2>3, <2>4, <2>5
<1> QED BY <1>1, AlwaysFInv, PTL DEF RSpec, NeverOverwritten

-------------------------------------------------------------------------------
(* The end of saving and loading.                                           *)

(* How far it is from a place of the writer to the next swap page taken     *)
(* from the kernel, or to the end: in "ready" the extents left and the      *)
(* pages left in the current one, in "search" the interval left.            *)
Width == SwapSize + 2
ReadyMax == (max_extents + 1) * Width
ReadyMeasure ==
    (nr_extents - cur_extent_idx) * Width
    + (extents[cur_extent_idx].end - cur_offset)

Stage ==
    CASE pc = "ready" -> ReadyMeasure
      [] pc = "alloc" -> ReadyMax + 1
      [] pc \in {"initial", "place"} -> ReadyMax + 2
      [] pc = "prealloc" -> ReadyMax + 3
      [] pc = "search" -> ReadyMax + 3 + (j - i)
      [] OTHER -> 0

StageMax == ReadyMax + max_extents + 4

(* Each page the kernel has left may take the writer through all of it. *)
WriterMeasure == Cardinality(free) * StageMax + Stage

(* Then the reader has the pages that were written. *)
ReaderMeasure ==
    CASE rpc = "off" -> written + 3
      [] rpc = "load" -> total_size + 1
      [] OTHER -> 0

(* A page that is saved is one more to load. *)
StepsLeft == 2 * WriterMeasure + ReaderMeasure

(* The bounds are natural numbers. *)
LEMMA StageBounds ==
    /\ Width \in Nat /\ ReadyMax \in Nat /\ StageMax \in Nat
    /\ max_extents \in Nat /\ SwapSize \in Nat
    /\ Width = SwapSize + 2
    /\ StageMax = ReadyMax + max_extents + 4
    /\ ReadyMax = max_extents * Width + Width
<1>1. max_extents \in Nat /\ SwapSize \in Nat
  BY SwapAssumption
<1>2. Width \in Nat /\ Width = SwapSize + 2
  BY <1>1 DEF Width
<1> HIDE DEF Width
<1>3. ReadyMax \in Nat /\ ReadyMax = max_extents * Width + Width
  BY <1>1, <1>2 DEF ReadyMax
<1>4. StageMax \in Nat /\ StageMax = ReadyMax + max_extents + 4
  BY <1>1, <1>3 DEF StageMax
<1> QED BY <1>1, <1>2, <1>3, <1>4

(* While pages are saved, the cursor is inside an extent of the array. *)
LEMMA ReadyBounds ==
    ASSUME EInv, pc = "ready"
    PROVE  /\ nr_extents - cur_extent_idx \in 1..max_extents
           /\ extents[cur_extent_idx].end - cur_offset \in 1..(SwapSize + 1)
           /\ ReadyMeasure \in Nat
           /\ ReadyMeasure > 0 /\ ReadyMeasure <= ReadyMax
<1>1. /\ cur_extent_idx \in Nat /\ cur_offset \in Nat
      /\ nr_extents \in Nat /\ nr_extents <= nr /\ nr \in Nat
      /\ cur_extent_idx < nr_extents
      /\ cur_offset < extents[cur_extent_idx].end
      /\ nr_extents <= max_extents /\ max_extents \in Nat
  BY SwapAssumption DEF EInv, TypeInv, CursorInv
<1>2. cur_extent_idx \in 0..(nr - 1) /\ cur_extent_idx \in Slots
  BY <1>1 DEF Slots
<1> DEFINE e == extents[cur_extent_idx]
<1>3. e.start \in Nat /\ e.end \in Nat
  BY <1>2, ArrayTypes DEF EInv
<1>4. e.start < e.end
  BY <1>2 DEF EInv, ExactInv, Alive, Count, Exact, Ordered
<1>5. e.end - 1 \in PagesOf(e)
  BY <1>3, <1>4 DEF PagesOf
<1>6. e.end - 1 \in Pages
  BY <1>2, <1>5 DEF EInv, OwnInv, Taken
<1>7. e.end <= SwapSize + 1
  BY <1>3, <1>6, SwapAssumption DEF Pages
<1>8. cur_offset < e.end
  BY <1>1
<1> HIDE DEF e
<1> DEFINE a == nr_extents - cur_extent_idx
           b == e.end - cur_offset
<1>9. a \in Nat /\ b \in Nat /\ a \in 1..max_extents
      /\ b \in 1..(SwapSize + 1)
  BY <1>1, <1>3, <1>7, <1>8, SwapAssumption
<1>10. ReadyMeasure = a * Width + b
  BY Zenon DEF ReadyMeasure, e
<1> HIDE DEF a, b
<1>11. a * Width \in Nat /\ a * Width <= max_extents * Width
  <2>1. Width \in Nat /\ max_extents - a \in Nat
    BY <1>1, <1>9, StageBounds
  <2>2. (max_extents - a) * Width \in Nat /\ a * Width \in Nat
    BY <2>1, <1>9
  <2>3. (max_extents - a) * Width = max_extents * Width - a * Width
    BY <2>1, <1>1, <1>9
  <2>4. max_extents * Width \in Nat
    BY <1>1, <2>1
  <2> QED BY <2>2, <2>3, <2>4
<1>12. ReadyMeasure \in Nat /\ ReadyMeasure > 0 /\ ReadyMeasure <= ReadyMax
  <2>1. max_extents * Width \in Nat
    BY StageBounds
  <2> QED BY <1>9, <1>10, <1>11, <2>1, StageBounds
<1> QED BY <1>9, <1>12 DEF a, b, e

(* Where the writer is, it is not further away than the largest stage. *)
LEMMA StageInside ==
    ASSUME EInv
    PROVE  Stage \in Nat /\ Stage < StageMax
<1>1. /\ ReadyMax \in Nat /\ max_extents \in Nat
      /\ StageMax = ReadyMax + max_extents + 4
  BY StageBounds
<1>2. CASE pc = "ready"
  <2>1. Stage = ReadyMeasure
    BY <1>2 DEF Stage
  <2> QED BY <1>1, <1>2, <2>1, ReadyBounds
<1>3. CASE pc = "search"
  <2>1. Stage = ReadyMax + 3 + (j - i)
    BY <1>3 DEF Stage
  <2>2. i \in Nat /\ j \in Nat /\ i <= j /\ j < nr /\ nr <= max_extents
        /\ nr \in Nat
    BY <1>3 DEF EInv, TypeInv, SearchInv
  <2> QED BY <1>1, <2>1, <2>2
<1>4. CASE pc \notin {"ready", "search"}
  <2>1. Stage \in {ReadyMax + 1, ReadyMax + 2, ReadyMax + 3, 0}
    BY <1>4 DEF Stage
  <2> QED BY <1>1, <2>1
<1> QED BY <1>2, <1>3, <1>4

(* The writer goes on with what it has. *)
Nearer == free' = free /\ Stage' < Stage

(* The writer takes a swap page from the kernel. *)
TakesPage == \E p \in free : free' = free \ {p}

(* Saving fails: there is nothing left to do. *)
LEMMA FailIsNearer ==
    ASSUME EInv, Fail,
           pc \in {"prealloc", "initial", "alloc", "ready"}
    PROVE  Nearer
<1>1. pc' = "failed" /\ free' = free
  BY DEF Fail, allocvars
<1>2. Stage' = 0
  BY <1>1 DEF Stage
<1>3. Stage \in Nat /\ Stage > 0
  <2>1. CASE pc = "ready"
    <3>1. Stage = ReadyMeasure
      BY <2>1 DEF Stage
    <3> QED BY <2>1, <3>1, ReadyBounds
  <2>2. CASE pc # "ready"
    <3>1. Stage \in {ReadyMax + 1, ReadyMax + 2, ReadyMax + 3}
      BY <2>2 DEF Stage
    <3> QED BY <3>1, StageBounds
  <2> QED BY <2>1, <2>2
<1> QED BY <1>1, <1>2, <1>3 DEF Nearer

(* preallocate_swap() begins; a page has found its place. *)
LEMMA PlacedIsNearer ==
    ASSUME EInv, Preallocate \/ MatchStart \/ MatchEnd \/ Place
    PROVE  Nearer
<1>1. ReadyMax \in Nat
  BY StageBounds
<1>2. CASE Preallocate
  <2>1. pc = "prealloc" /\ pc' \in {"initial", "alloc"} /\ free' = free
    BY <1>2 DEF Preallocate
  <2>2. Stage = ReadyMax + 3 /\ Stage' \in {ReadyMax + 1, ReadyMax + 2}
    BY <2>1 DEF Stage, ReadyMax, Width
  <2> QED BY <1>1, <2>1, <2>2 DEF Nearer
<1>3. CASE MatchStart \/ MatchEnd
  <2>1. pc = "search" /\ pc' = "alloc" /\ free' = free
    BY <1>3 DEF MatchStart, MatchEnd, Matched
  <2>2. Stage = ReadyMax + 3 + (j - i) /\ Stage' = ReadyMax + 1
    BY <2>1 DEF Stage, ReadyMax, Width
  <2>3. i \in Nat /\ j \in Nat /\ i <= j
    BY <2>1 DEF EInv, TypeInv, SearchInv
  <2> QED BY <1>1, <2>1, <2>2, <2>3 DEF Nearer
<1>4. CASE Place
  <2>1. pc = "place" /\ pc' = "alloc" /\ free' = free
    BY <1>4 DEF Place
  <2>2. Stage = ReadyMax + 2 /\ Stage' = ReadyMax + 1
    BY <2>1 DEF Stage, ReadyMax, Width
  <2> QED BY <1>1, <2>1, <2>2 DEF Nearer
<1> QED BY <1>2, <1>3, <1>4

(* The binary search: the interval gets smaller with every iteration. *)
LEMMA SearchIsNearer ==
    ASSUME EInv, SearchOn
    PROVE  Nearer
<1>1. pc = "search" /\ free' = free
  BY DEF SearchOn
<1>2. \/ /\ i' = (IF i = k THEN j ELSE k) /\ j' = j
         /\ pc' = IF i < j THEN "search" ELSE "place"
      \/ /\ j' = k /\ i' = i
         /\ pc' = IF i < k THEN "search" ELSE "place"
  BY DEF SearchOn, UpperHalf
<1>3. /\ k \in Nat /\ i \in Nat /\ j \in Nat
      /\ i <= k /\ k <= j /\ (i < j => k < j) /\ i <= j
  BY <1>1, MiddleInside DEF EInv, TypeInv
<1>4. Stage = ReadyMax + 3 + (j - i)
  BY <1>1 DEF Stage
<1>5. ReadyMax \in Nat
  BY StageBounds
<1>6. CASE pc' = "place"
  <2>1. Stage' = ReadyMax + 2
    BY <1>6 DEF Stage, ReadyMax, Width
  <2> QED BY <1>1, <1>3, <1>4, <1>5, <2>1 DEF Nearer
<1>7. CASE pc' = "search"
  <2>1. PICK m, n : m = i' /\ n = j'
    OBVIOUS
  <2>2. Stage' = ReadyMax + 3 + (n - m)
    BY <1>7, <2>1 DEF Stage, ReadyMax, Width
  <2>3. m \in Nat /\ n \in Nat /\ m <= n /\ n - m < j - i
    BY <1>2, <1>3, <1>7, <2>1
  <2> QED BY <1>1, <1>3, <1>4, <1>5, <2>2, <2>3 DEF Nearer
<1> QED BY <1>2, <1>6, <1>7

(* alloc_swap() returns to the pages that are to be saved. *)
LEMMA AllocDoneIsNearer ==
    ASSUME EInv, EInv', AllocDone
    PROVE  Nearer
<1>1. pc = "alloc" /\ pc' = "ready" /\ free' = free
  BY DEF AllocDone, allocvars
<1>2. Stage = ReadyMax + 1
  BY <1>1 DEF Stage
<1>3. Stage' = ReadyMeasure'
  BY <1>1 DEF Stage
<1>4. ReadyMeasure' \in Nat /\ ReadyMeasure' <= ReadyMax
  <2>1. (EInv /\ pc = "ready")' => (ReadyMeasure \in Nat
                                    /\ ReadyMeasure <= ReadyMax)'
    BY ReadyBounds, PTL
  <2>2. ReadyMax' = ReadyMax
    BY DEF ReadyMax, Width
  <2> QED BY <1>1, <2>1, <2>2
<1> QED BY <1>1, <1>2, <1>3, <1>4, StageBounds DEF Nearer

(* A page is saved: the current extent has one page less, or there is one   *)
(* extent less.                                                             *)
LEMMA SavePageIsNearer ==
    ASSUME EInv, SavePage
    PROVE  Nearer
<1>1. /\ pc = "ready" /\ pc' = "ready" /\ ~Exhausted
      /\ cur_extent_idx' = NextIdx /\ cur_offset' = NextOffset
      /\ UNCHANGED <<free, extents, nr_extents>>
  BY DEF SavePage, allocvars
<1> DEFINE e == extents[cur_extent_idx]
           f == extents[NextIdx]
           a == nr_extents - cur_extent_idx
           b == e.end - cur_offset
           c == nr_extents - NextIdx
           d == f.end - NextOffset
<1>2. Stage = a * Width + b
  BY <1>1 DEF Stage, ReadyMeasure
<1>3. Stage' = c * Width + d
  BY <1>1 DEF Stage, ReadyMeasure, Width
<1>4. /\ NextIdx \in Nat /\ NextIdx < nr_extents /\ NextIdx \in Slots
      /\ NextOffset \in Nat /\ NextOffset < f.end /\ NextOffset \in Taken
      /\ \/ NextIdx = cur_extent_idx /\ NextOffset = cur_offset + 1
         \/ NextIdx = cur_extent_idx + 1
  BY <1>1, NextPage
<1>5. a \in 1..max_extents /\ b \in 1..(SwapSize + 1)
  BY <1>1, ReadyBounds
<1>6. /\ cur_extent_idx \in Nat /\ cur_offset \in Nat /\ nr_extents \in Nat
      /\ f.end \in Nat
  BY <1>4, ArrayTypes DEF EInv, TypeInv
<1>7. /\ Width \in Nat /\ SwapSize \in Nat /\ Width = SwapSize + 2
      /\ max_extents \in Nat
  BY StageBounds
<1>8. a * Width \in Nat /\ a \in Nat /\ b \in Nat
  BY <1>5, <1>7
<1>9. CASE NextIdx = cur_extent_idx /\ NextOffset = cur_offset + 1
  <2>1. c = a /\ f = e
    BY <1>9
  <2>2. d = b - 1
    <3>1. f.end = e.end
      BY <2>1
    <3> QED BY <1>6, <1>9, <3>1
  <2> HIDE DEF a, b, c, d
  <2> QED BY <1>1, <1>2, <1>3, <1>5, <1>8, <2>1, <2>2 DEF Nearer
<1>10. CASE NextIdx = cur_extent_idx + 1
  <2>1. c = a - 1
    BY <1>6, <1>10
  <2>2. d \in 1..(SwapSize + 1)
    <3>1. f.start \in Nat /\ f.start <= NextOffset
      BY <1>1, <1>4, NextPage, ArrayTypes DEF EInv
    <3>2. f.end - 1 \in PagesOf(f)
      BY <1>4, <1>6, <3>1 DEF PagesOf
    <3>3. f.end - 1 \in Pages
      BY <1>4, <3>2 DEF EInv, OwnInv, Taken
    <3>4. f.end <= SwapSize + 1
      BY <1>6, <1>7, <3>3 DEF Pages
    <3> HIDE DEF f
    <3> QED BY <1>4, <1>6, <1>7, <3>4
  <2> HIDE DEF a, b, c, d
  <2>3. c * Width = a * Width - Width
    BY <1>5, <1>7, <2>1
  <2> QED BY <1>1, <1>2, <1>3, <1>5, <1>7, <1>8, <2>2, <2>3 DEF Nearer
<1> QED BY <1>4, <1>9, <1>10

(* The last array is saved. *)
LEMMA FinishIsNearer ==
    ASSUME EInv, Finish
    PROVE  Nearer
<1>1. pc = "ready" /\ pc' = "saved" /\ free' = free
  BY DEF Finish, allocvars
<1>2. Stage' = 0
  BY <1>1 DEF Stage
<1>3. Stage = ReadyMeasure
  BY <1>1 DEF Stage
<1> QED BY <1>1, <1>2, <1>3, ReadyBounds DEF Nearer

(* Each of the other steps takes a swap page. *)
LEMMA OthersTakePages ==
    ASSUME AllocInitial \/ AllocPage \/ SaveFullExtents
    PROVE  TakesPage
<1>1. CASE AllocInitial
  BY <1>1, Zenon DEF AllocInitial, GetSwapPage, Available, TakesPage
<1>2. CASE AllocPage
  BY <1>2, Zenon DEF AllocPage, GetSwapPage, Available, TakesPage
<1>3. CASE SaveFullExtents
  BY <1>3, Zenon DEF SaveFullExtents, GetSwapPage, Available, TakesPage
<1> QED BY <1>1, <1>2, <1>3

(* A step of the writer goes on with what it has, or takes a page. *)
LEMMA WriterStepKinds ==
    ASSUME EInv, EInv', WriterNext
    PROVE  Nearer \/ TakesPage
<1>1. CASE PreallocateNothing \/ AllocFails \/ SaveFails
  <2>1. Fail /\ pc \in {"prealloc", "initial", "alloc", "ready"}
    BY <1>1 DEF PreallocateNothing, AllocFails, SaveFails
  <2> QED BY <2>1, FailIsNearer
<1>2. CASE Preallocate \/ MatchStart \/ MatchEnd \/ Place
  BY <1>2, PlacedIsNearer
<1>3. CASE AllocInitial \/ AllocPage \/ SaveFullExtents
  BY <1>3, OthersTakePages
<1>4. CASE SearchOn
  BY <1>4, SearchIsNearer
<1>5. CASE AllocDone
  BY <1>5, AllocDoneIsNearer
<1>6. CASE SavePage
  BY <1>6, SavePageIsNearer
<1>7. CASE Finish
  BY <1>7, FinishIsNearer
<1> QED BY <1>1, <1>2, <1>3, <1>4, <1>5, <1>6, <1>7 DEF WriterNext

(* With a page less to take, every stage is nearer to the end. *)
LEMMA WriterGetsCloser ==
    ASSUME EInv, EInv', Nearer \/ TakesPage
    PROVE  /\ WriterMeasure \in Nat /\ WriterMeasure' \in Nat
           /\ WriterMeasure' < WriterMeasure
<1>1. /\ IsFiniteSet(free) /\ Cardinality(free) \in Nat
      /\ Cardinality(free') \in Nat
  <2>1. free \in SUBSET Pages /\ free' \in SUBSET Pages
    BY DEF EInv, TypeInv
  <2> QED BY <2>1, FinitePages
<1>2. Stage \in Nat
  BY StageInside
<1>3. StageMax \in Nat /\ StageMax' = StageMax
  BY StageBounds DEF StageMax, ReadyMax, Width
<1>4. Stage' \in Nat /\ Stage' < StageMax
  <2>1. EInv' => (Stage \in Nat /\ Stage < StageMax)'
    BY StageInside, PTL
  <2> QED BY <1>3, <2>1
<1>5. PICK F, G, s, t : /\ F = Cardinality(free) /\ G = Cardinality(free')
                        /\ s = Stage /\ t = Stage'
  OBVIOUS
<1> DEFINE M == StageMax
<1>6. WriterMeasure = F * M + s /\ WriterMeasure' = G * M + t
  BY <1>3, <1>5 DEF WriterMeasure
<1>7. M \in Nat /\ F \in Nat /\ G \in Nat /\ s \in Nat /\ t \in Nat /\ t < M
  BY <1>1, <1>2, <1>3, <1>4, <1>5
<1>8. \/ G = F /\ t < s
      \/ G = F - 1
  <2>1. CASE Nearer
    BY <1>5, <2>1 DEF Nearer
  <2>2. CASE TakesPage
    <3>1. PICK p \in free : free' = free \ {p}
      BY <2>2 DEF TakesPage
    <3>2. Cardinality(free \ {p}) = Cardinality(free) - 1
      BY <1>1, <3>1, FS_RemoveElement
    <3> QED BY <1>5, <3>1, <3>2
  <2> QED BY <2>1, <2>2
<1> HIDE DEF M
<1>9. F * M \in Nat /\ G * M \in Nat
  BY <1>7
<1>10. CASE G = F /\ t < s
  BY <1>6, <1>7, <1>9, <1>10
<1>11. CASE G = F - 1
  <2>1. G * M = F * M - M
    BY <1>7, <1>11
  <2> QED BY <1>6, <1>7, <1>9, <2>1
<1> QED BY <1>8, <1>10, <1>11

(* What the reader has to know of itself to count its steps. *)
ReaderPlaces ==
    /\ rpc \in {"off", "load", "loaded", "failed"}
    /\ total_size \in Nat

(* The places of the reader. *)
LEMMA NextReaderPlaces ==
    ASSUME EInv, ReaderPlaces, [RNext]_allvars
    PROVE  ReaderPlaces'
<1>1. CASE WriterNext /\ UNCHANGED readervars
  BY <1>1 DEF ReaderPlaces, readervars
<1>2. CASE InitSwapReader
  BY <1>2 DEF InitSwapReader, ReaderPlaces, EInv, TypeInv
<1>3. CASE LoadPage
  BY <1>3 DEF LoadPage, ReaderPlaces
<1>4. CASE LoadFails
  BY <1>4 DEF LoadFails, ReaderPlaces
<1>5. CASE LoadDone
  BY <1>5 DEF LoadDone, ReaderPlaces
<1>6. CASE UNCHANGED allvars
  BY <1>6 DEF allvars, readervars, ReaderPlaces
<1> QED BY <1>1, <1>2, <1>3, <1>4, <1>5, <1>6 DEF RNext

(* At most one page is saved in a step. *)
LEMMA OneMorePage ==
    ASSUME EInv, WriterNext
    PROVE  /\ written \in Nat
           /\ written' = written \/ written' = written + 1
<1>1. written \in Nat
  BY DEF EInv, TypeInv
<1>2. CASE AllocDone \/ SavePage
  BY <1>1, <1>2 DEF AllocDone, SavePage, WriteData
<1>3. CASE PreallocateNothing \/ AllocFails \/ SaveFails
  BY <1>1, <1>3 DEF PreallocateNothing, AllocFails, SaveFails, Fail, handlevars
<1>4. CASE Preallocate \/ AllocInitial \/ AllocPage
  BY <1>1, <1>4 DEF Preallocate, AllocInitial, AllocPage, handlevars
<1>5. CASE MatchStart \/ MatchEnd
  BY <1>1, <1>5 DEF MatchStart, MatchEnd, Matched, handlevars
<1>6. CASE SearchOn \/ Place
  BY <1>1, <1>6 DEF SearchOn, Place, handlevars
<1>7. CASE SaveFullExtents \/ Finish
  BY <1>1, <1>7 DEF SaveFullExtents, Finish
<1> QED BY <1>2, <1>3, <1>4, <1>5, <1>6, <1>7 DEF WriterNext

(* A step of either program brings both of them closer to the end. *)
LEMMA StepGetsCloser ==
    ASSUME EInv, EInv', ReaderPlaces, ReaderPlaces', RNext
    PROVE  /\ StepsLeft \in Nat /\ StepsLeft' \in Nat
           /\ StepsLeft' < StepsLeft
<1>1. PICK w, x, r, y : /\ w = WriterMeasure /\ x = WriterMeasure'
                        /\ r = ReaderMeasure /\ y = ReaderMeasure'
  OBVIOUS
<1>2. StepsLeft = 2 * w + r /\ StepsLeft' = 2 * x + y
  BY <1>1 DEF StepsLeft
<1>3. written \in Nat /\ written' \in Nat
  BY DEF EInv, TypeInv
<1>4. r \in Nat
  BY <1>1, <1>3 DEF ReaderMeasure, ReaderPlaces
<1>5. y \in Nat
  BY <1>1, <1>3 DEF ReaderMeasure, ReaderPlaces
<1>6. CASE WriterNext /\ UNCHANGED readervars
  <2>1. w \in Nat /\ x \in Nat /\ x < w
    BY <1>1, <1>6, WriterStepKinds, WriterGetsCloser
  <2>2. y <= r + 1
    <3>1. rpc' = rpc /\ total_size' = total_size
      BY <1>6 DEF readervars
    <3>2. written' = written \/ written' = written + 1
      BY <1>6, OneMorePage
    <3> QED BY <1>1, <1>3, <3>1, <3>2 DEF ReaderMeasure, ReaderPlaces
  <2> QED BY <1>2, <1>4, <1>5, <2>1, <2>2
<1>7. CASE InitSwapReader \/ LoadPage \/ LoadFails \/ LoadDone
  <2>1. UNCHANGED vars
    BY <1>7 DEF InitSwapReader, LoadPage, LoadFails, LoadDone
  <2>2. x = w
    BY <1>1, <2>1 DEF WriterMeasure, Stage, StageMax, ReadyMeasure, ReadyMax,
                      Width, vars, allocvars, handlevars
  <2>3. w \in Nat
    <3>1. Cardinality(free) \in Nat
      BY FinitePages DEF EInv, TypeInv
    <3>2. Stage \in Nat /\ StageMax \in Nat
      BY StageInside, StageBounds
    <3> QED BY <1>1, <3>1, <3>2 DEF WriterMeasure
  <2>4. y < r
    <3>1. CASE InitSwapReader
      <4>1. rpc = "off" /\ rpc' = "load" /\ total_size' = written
        BY <3>1 DEF InitSwapReader
      <4>2. r = written + 3 /\ y = written + 1
        BY <1>1, <4>1 DEF ReaderMeasure
      <4> QED BY <1>3, <4>2
    <3>2. CASE LoadPage
      <4>1. rpc = "load" /\ rpc' = "load" /\ total_size' = total_size - 1
        BY <3>2 DEF LoadPage
      <4>2. r = total_size + 1 /\ y = total_size - 1 + 1
        BY <1>1, <4>1 DEF ReaderMeasure
      <4> QED BY <4>2 DEF ReaderPlaces
    <3>3. CASE LoadFails \/ LoadDone
      <4>1. rpc = "load" /\ rpc' \in {"failed", "loaded"}
        BY <3>3 DEF LoadFails, LoadDone
      <4>2. r = total_size + 1 /\ y = 0
        BY <1>1, <4>1 DEF ReaderMeasure
      <4> QED BY <4>2 DEF ReaderPlaces
    <3> QED BY <1>7, <3>1, <3>2, <3>3
  <2> QED BY <1>2, <1>4, <1>5, <2>2, <2>3, <2>4
<1> QED BY <1>6, <1>7 DEF RNext

(* Saving and loading an image end, for every size of the array, every swap *)
(* area and every order in which the kernel hands out its pages: each step  *)
(* of save_page(), alloc_swap() and its binary search, and of the loading   *)
(* after it, makes the natural number StepsLeft smaller.  There is no state *)
(* in which they could go round: this is why SavedOrFailed holds once the   *)
(* programs take their next step.                                           *)
THEOREM SavingGetsCloser ==
    RSpec => [][/\ StepsLeft \in Nat
                /\ StepsLeft' \in Nat
                /\ StepsLeft' < StepsLeft]_allvars
<1> DEFINE Inv == EInv /\ ReaderPlaces
<1>1. RInit => Inv
  BY InitEInv DEF RInit, ReaderPlaces
<1>2. Inv /\ [RNext]_allvars => Inv'
  BY NextEInv, NextReaderPlaces
<1>3. Inv /\ Inv' /\ [RNext]_allvars
        => [/\ StepsLeft \in Nat
            /\ StepsLeft' \in Nat
            /\ StepsLeft' < StepsLeft]_allvars
  BY StepGetsCloser
<1> QED BY <1>1, <1>2, <1>3, PTL DEF RSpec
===============================================================================
