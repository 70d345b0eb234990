----------------------------- MODULE FilesProofs -----------------------------
(***************************************************************************)
(* The files, for any disk: the streamer reads the bytes that it is asked  *)
(* for over any number of sectors, a read inside the first cluster of a    *)
(* file gives what is there, a path leads to what it names and to nothing  *)
(* else, and the numbers that fopen returns stand for what was opened, in  *)
(* a table of any size.                                                    *)
(***************************************************************************)
EXTENDS Files, NumberFacts, SequenceTheorems, FiniteSetTheorems

\* The n bytes of the disk from a position on.
Slice(position, n) == [i \in 1 .. n |-> Byte(position + i - 1)]

LEMMA SliceTyped ==
  ASSUME NEW position \in Int, NEW n \in Nat
  PROVE  /\ Slice(position, n) \in Seq({Byte(x) : x \in Int})
         /\ Len(Slice(position, n)) = n
         /\ \A i \in 1 .. n : Slice(position, n)[i] = Byte(position + i - 1)
<1>1. \A i \in 1 .. n : Byte(position + i - 1) \in {Byte(x) : x \in Int}
  <2> SUFFICES ASSUME NEW i \in 1 .. n
               PROVE  Byte(position + i - 1) \in {Byte(x) : x \in Int}
    OBVIOUS
  <2>1. position + i - 1 \in Int
    OBVIOUS
  <2> QED
    BY <2>1
<1>2. Slice(position, n) \in Seq({Byte(x) : x \in Int})
  BY <1>1 DEF Slice
<1> QED
  BY <1>2 DEF Slice

\* Two slices that meet are one.
LEMMA SlicesMeet ==
  ASSUME NEW position \in Int, NEW a \in Nat, NEW b \in Nat
  PROVE  Slice(position, a) \o Slice(position + a, b) = Slice(position, a + b)
<1>1. PICK S : S = {Byte(x) : x \in Int}
  OBVIOUS
<1>2. PICK next \in Int, n \in Nat : next = position + a /\ n = a + b
  OBVIOUS
<1>3. PICK s, t, u : /\ s = Slice(position, a) /\ t = Slice(next, b)
                     /\ u = Slice(position, n)
  OBVIOUS
<1>4. /\ s \in Seq(S) /\ Len(s) = a
      /\ \A i \in 1 .. a : s[i] = Byte(position + i - 1)
  BY <1>1, <1>3, SliceTyped
<1>5. /\ t \in Seq(S) /\ Len(t) = b
      /\ \A i \in 1 .. b : t[i] = Byte(next + i - 1)
  BY <1>1, <1>2, <1>3, SliceTyped
<1>6. /\ u \in Seq(S) /\ Len(u) = n
      /\ \A i \in 1 .. n : u[i] = Byte(position + i - 1)
  BY <1>1, <1>2, <1>3, SliceTyped
<1>7. PICK v : v = s \o t
  OBVIOUS
<1>8. /\ v \in Seq(S) /\ Len(v) = n
      /\ \A i \in 1 .. n : v[i] = IF i <= a THEN s[i] ELSE t[i - a]
  <2>1. s \in Seq(S) /\ t \in Seq(S) /\ Len(s) = a /\ Len(t) = b
    BY <1>4, <1>5
  <2>2. /\ v \in Seq(S) /\ Len(v) = Len(s) + Len(t)
        /\ \A i \in 1 .. Len(s) + Len(t) :
             v[i] = IF i <= Len(s) THEN s[i] ELSE t[i - Len(s)]
    BY <1>7, <2>1, ConcatProperties
  <2> QED
    BY <1>2, <2>1, <2>2
<1>9. \A i \in 1 .. n : v[i] = u[i]
  <2> SUFFICES ASSUME NEW i \in 1 .. n
               PROVE  v[i] = u[i]
    OBVIOUS
  <2>1. CASE i <= a
    BY <1>4, <1>6, <1>8, <2>1
  <2>2. CASE ~ (i <= a)
    <3>1. i - a \in 1 .. b /\ next + (i - a) - 1 = position + i - 1
      BY <1>2, <2>2
    <3> QED
      BY <1>5, <1>6, <1>8, <2>2, <3>1
  <2> QED
    BY <2>1, <2>2
<1>10. v = u
  BY <1>6, <1>8, <1>9, SeqEqual
<1> QED
  BY <1>2, <1>3, <1>7, <1>10

(***************************************************************************)
(* diskstreamer_read gives the bytes from the position on, as many as it   *)
(* was asked for, wherever sectors begin and end.                          *)
(***************************************************************************)
THEOREM StreamerReads ==
  ASSUME NEW position \in Nat, NEW total \in Nat
  PROVE  diskstreamer_read(position, total) = Slice(position, total)
<1> DEFINE from(left) == position + (total - left)
           offset(left) == from(left) % SectorSize
           overflow(left) == offset(left) + left >= SectorSize
           size(left) == IF overflow(left) THEN SectorSize - offset(left)
                                           ELSE left
           turn(r) == [left \in 0 .. total |->
                         IF overflow(left)
                           THEN Slice(from(left), size(left))
                                  \o r[left - size(left)]
                           ELSE Slice(from(left), size(left))]
           read == CHOOSE r : r = turn(r)
           w == [left \in 0 .. total |-> Slice(from(left), left)]
<1>1. diskstreamer_read(position, total) = read[total]
  BY DEF diskstreamer_read, Slice
<1>2. ASSUME NEW left \in 0 .. total
      PROVE  /\ from(left) \in Nat
             /\ overflow(left) => /\ size(left) \in 1 .. left
                                  /\ left - size(left) \in 0 .. total
                                  /\ left - size(left) < left
                                  /\ from(left - size(left))
                                       = from(left) + size(left)
             /\ ~overflow(left) => size(left) = left
  <2>1. from(left) \in Nat
    OBVIOUS
  <2>2. PICK f \in Nat : f = from(left)
    BY <2>1
  <2>3. SectorSize \in Nat \ {0}
    BY Fat16Assumption
  <2>4. f % SectorSize \in 0 .. (SectorSize - 1)
    BY <2>3, QuotientRemainder
  <2>5. PICK o \in 0 .. (SectorSize - 1) : o = offset(left)
    BY <2>2, <2>4
  <2>6. /\ overflow(left) <=> o + left >= SectorSize
        /\ overflow(left) => size(left) = SectorSize - o
        /\ ~overflow(left) => size(left) = left
    BY <2>5
  <2> HIDE DEF offset, overflow, size
  <2> QED
    BY <2>1, <2>3, <2>6
<1> HIDE DEF offset, overflow, size
<1>3. ASSUME NEW left \in 0 .. total, overflow(left)
      PROVE  Slice(from(left), size(left))
               \o Slice(from(left - size(left)), left - size(left))
               = Slice(from(left), left)
  <2>1. PICK a \in Nat, b \in Nat, p \in Int :
          a = size(left) /\ b = left - size(left) /\ p = from(left)
    BY <1>2, <1>3
  <2>2. Slice(p, a) \o Slice(p + a, b) = Slice(p, a + b)
    BY SlicesMeet
  <2>3. a + b = left /\ p + a = from(left - size(left))
    BY <1>2, <1>3, <2>1
  <2> QED
    BY <2>1, <2>2, <2>3
<1> HIDE DEF from
<1>4. \A r : /\ DOMAIN turn(r) = 0 .. total
             /\ \A left \in 0 .. total :
                  turn(r)[left] = IF overflow(left)
                                    THEN Slice(from(left), size(left))
                                           \o r[left - size(left)]
                                    ELSE Slice(from(left), size(left))
  OBVIOUS
<1>5. turn(w) = w
  <2>1. ASSUME NEW left \in 0 .. total
        PROVE  (IF overflow(left)
                  THEN Slice(from(left), size(left)) \o w[left - size(left)]
                  ELSE Slice(from(left), size(left))) = Slice(from(left), left)
    <3>1. CASE overflow(left)
      <4>1. w[left - size(left)]
              = Slice(from(left - size(left)), left - size(left))
        BY <1>2, <3>1
      <4> QED
        BY <1>3, <3>1, <4>1
    <3>2. CASE ~overflow(left)
      BY <1>2, <3>2
    <3> QED
      BY <3>1, <3>2
  <2> QED
    BY <2>1
<1>6. read = turn(read)
  <2> HIDE DEF turn, w
  <2> QED
    BY <1>5
<1> HIDE DEF read, turn
<1>7. \A left \in 0 .. total : read[left] = IF overflow(left)
                                    THEN Slice(from(left), size(left))
                                           \o read[left - size(left)]
                                    ELSE Slice(from(left), size(left))
  <2>1. \A left \in 0 .. total : turn(read)[left] = IF overflow(left)
                                    THEN Slice(from(left), size(left))
                                           \o read[left - size(left)]
                                    ELSE Slice(from(left), size(left))
    BY <1>4
  <2> QED
    BY <1>6, <2>1
<1> DEFINE Wrong == {left \in 0 .. total : read[left] # Slice(from(left), left)}
<1>8. Wrong = {}
  <2> SUFFICES ASSUME Wrong # {}
               PROVE  FALSE
    OBVIOUS
  <2>1. Wrong \subseteq Nat
    OBVIOUS
  <2>2. PICK left \in Wrong : \A k \in Wrong : left <= k
    BY <2>1, LeastNumber
  <2>3. left \in 0 .. total /\ read[left] # Slice(from(left), left)
    BY <2>2
  <2>4. CASE overflow(left)
    <3>1. PICK l \in 0 .. total : l = left - size(left) /\ l < left
      BY <1>2, <2>3, <2>4
    <3>2. l \notin Wrong
      <4> HIDE DEF Wrong
      <4> QED
        BY <2>2, <2>3, <3>1
    <3>3. read[l] = Slice(from(l), l)
      BY <3>2
    <3>4. read[left] = Slice(from(left), size(left)) \o read[l]
      BY <1>7, <2>3, <2>4, <3>1
    <3> QED
      BY <1>3, <2>3, <2>4, <3>1, <3>3, <3>4
  <2>5. CASE ~overflow(left)
    BY <1>2, <1>7, <2>3, <2>5
  <2> QED
    BY <2>4, <2>5
<1>9. read[total] = Slice(from(total), total)
  <2>1. total \in 0 .. total
    OBVIOUS
  <2> QED
    BY <1>8, <2>1
<1>10. from(total) = position
  BY DEF from
<1> QED
  BY <1>1, <1>9, <1>10

-----------------------------------------------------------------------------
\* No entry of the table is needed for the first cluster.
LEMMA FirstCluster ==
  ASSUME NEW cluster, NEW offset \in Nat, offset < ClusterBytes
  PROVE  fat16_get_cluster_for_offset(cluster, offset) = cluster
<1> DEFINE n == offset \div ClusterBytes
           next(was) == CASE was < 0 -> was
                          [] was >= 0 /\ fat16_get_fat_entry(was) \in StopEntries
                               -> EIO
                          [] OTHER -> fat16_get_fat_entry(was)
           turn(h) == [i \in 0 .. n |-> IF i = 0 THEN cluster ELSE next(h[i - 1])]
           hop == CHOOSE h : h = turn(h)
<1>1. fat16_get_cluster_for_offset(cluster, offset) = hop[n]
  BY DEF fat16_get_cluster_for_offset
<1>2. n = 0
  <2>1. PICK M \in Nat \ {0} : M = ClusterBytes /\ offset \in 0 .. (M - 1)
    BY Fat16Assumption DEF ClusterBytes
  <2>2. offset \div M = 0
    BY <2>1, RemainderSmall
  <2> QED
    BY <2>1, <2>2
<1> HIDE DEF n, next
<1>3. \A h : turn(h) = [i \in 0 .. 0 |-> cluster]
  BY <1>2
<1> HIDE DEF turn
<1>4. hop = turn(hop)
  BY <1>3
<1>5. hop = [i \in 0 .. 0 |-> cluster]
  BY <1>3, <1>4
<1> HIDE DEF hop
<1> QED
  BY <1>1, <1>2, <1>5

\* The code has a cluster where FAT16 has it.
LEMMA ClusterPlace ==
  ASSUME (RootEntries * EntrySize) % SectorSize = 0,
         NEW cluster \in Nat, cluster >= 2
  PROVE  /\ ClusterAt(cluster) \in Nat
         /\ fat16_cluster_to_sector(cluster) * SectorSize = ClusterAt(cluster)
<1>1. /\ SectorSize \in Nat \ {0} /\ SectorsPerCluster \in Nat
      /\ ReservedSectors \in Nat /\ FatCopies \in Nat /\ SectorsPerFat \in Nat
      /\ RootEntries \in Nat /\ EntrySize \in Nat
  BY Fat16Assumption
<1>2. PICK root \in Int, tables \in Nat, k \in Nat :
        /\ root = RootEntries * EntrySize /\ tables = FatCopies * SectorsPerFat
        /\ k = (cluster - 2) * SectorsPerCluster
  BY <1>1
<1>3. root \in Nat
  BY <1>1, <1>2
<1>4. PICK q \in Int : q = root \div SectorSize /\ root = SectorSize * q
  <2>1. root % SectorSize = 0
    BY <1>2
  <2> QED
    BY <1>1, <1>2, <2>1, QuotientRemainder
<1>5. fat16_cluster_to_sector(cluster) = tables + ReservedSectors + q + k
  BY <1>2, <1>4 DEF fat16_cluster_to_sector, EndingSectorPosition
<1>6. ClusterAt(cluster)
        = (ReservedSectors + tables) * SectorSize + root + k * SectorSize
  <2>1. (cluster - 2) * ClusterBytes = k * SectorSize
    BY <1>1, <1>2 DEF ClusterBytes
  <2> QED
    BY <1>2, <2>1 DEF ClusterAt
<1>7. (tables + ReservedSectors + q + k) * SectorSize
        = (ReservedSectors + tables) * SectorSize + SectorSize * q
            + k * SectorSize
  BY <1>1, <1>2, <1>4
<1>8. ClusterAt(cluster) \in Nat
  BY <1>1, <1>2, <1>3, <1>6
<1> QED
  BY <1>4, <1>5, <1>6, <1>7, <1>8

\* A read inside the first cluster.
LEMMA ClusterReads ==
  ASSUME (RootEntries * EntrySize) % SectorSize = 0,
         NEW cluster \in Nat, cluster >= 2, NEW offset \in Nat,
         NEW total \in Nat, offset < ClusterBytes,
         offset + total <= ClusterBytes
  PROVE  fat16_read_internal(cluster, offset, total) =
           [ok |-> TRUE, bytes |-> Slice(ClusterAt(cluster) + offset, total)]
<1> DEFINE from(left) == offset + (total - left)
           use(left)  == fat16_get_cluster_for_offset(cluster, from(left))
           pos(left)  == fat16_cluster_to_sector(use(left)) * SectorSize
                           + (from(left) % ClusterBytes)
           n(left) == IF left > ClusterBytes THEN ClusterBytes ELSE left
           bytes(left) == diskstreamer_read(pos(left), n(left))
           turn(r) == [left \in 0 .. total |->
                         IF use(left) < 0 THEN Failed
                         ELSE IF left = n(left)
                           THEN [ok |-> TRUE, bytes |-> bytes(left)]
                         ELSE [ok    |-> r[left - n(left)].ok,
                               bytes |-> bytes(left) \o r[left - n(left)].bytes]]
           read == CHOOSE r : r = turn(r)
           w == [left \in 0 .. total |->
                   IF use(left) < 0 THEN Failed
                   ELSE [ok |-> TRUE, bytes |-> bytes(left)]]
<1>1. fat16_read_internal(cluster, offset, total) = read[total]
  BY DEF fat16_read_internal
<1>2. ClusterBytes \in Nat \ {0} /\ total <= ClusterBytes
  BY Fat16Assumption DEF ClusterBytes
<1>3. \A left \in 0 .. total : n(left) = left
  BY <1>2
<1>4. from(total) = offset /\ total \in 0 .. total
  OBVIOUS
<1>5. use(total) = cluster
  <2>1. fat16_get_cluster_for_offset(cluster, offset) = cluster
    BY FirstCluster
  <2> QED
    BY <1>4, <2>1
<1>6. pos(total) = ClusterAt(cluster) + offset
  <2>1. offset % ClusterBytes = offset
    <3>1. PICK M \in Nat \ {0} : M = ClusterBytes /\ offset \in 0 .. (M - 1)
      BY <1>2
    <3>2. offset % M = offset
      BY <3>1, RemainderSmall
    <3> QED
      BY <3>1, <3>2
  <2>2. fat16_cluster_to_sector(cluster) * SectorSize = ClusterAt(cluster)
    BY ClusterPlace
  <2> HIDE DEF use
  <2> QED
    BY <1>4, <1>5, <2>1, <2>2
<1>7. bytes(total) = Slice(ClusterAt(cluster) + offset, total)
  <2>1. PICK p \in Nat : p = ClusterAt(cluster) + offset
    BY ClusterPlace
  <2>2. diskstreamer_read(p, total) = Slice(p, total)
    BY StreamerReads
  <2>3. n(total) = total
    BY <1>3, <1>4
  <2> HIDE DEF pos, n
  <2> QED
    BY <1>6, <2>1, <2>2, <2>3
<1> HIDE DEF use, bytes, n
<1>8. \A r : turn(r) = w
  BY <1>3
<1> HIDE DEF turn
<1>9. read = turn(read)
  BY <1>8
<1>10. read = w
  BY <1>8, <1>9
<1> HIDE DEF read
<1>11. ~ (use(total) < 0)
  BY <1>5
<1>12. w[total] = [ok |-> TRUE, bytes |-> bytes(total)]
  BY <1>4, <1>11
<1> QED
  BY <1>1, <1>7, <1>10, <1>12

(***************************************************************************)
(* fat16_read of several items inside the first cluster: they follow one   *)
(* another.                                                                *)
(***************************************************************************)
LEMMA ItemsRead ==
  ASSUME (RootEntries * EntrySize) % SectorSize = 0, NEW desc,
         desc.item.cluster \in Nat, desc.item.cluster >= 2,
         desc.position \in Nat, NEW size \in Nat \ {0}, NEW nmemb \in Nat,
         desc.position + size * nmemb <= ClusterBytes
  PROVE  fat16_read(desc, size, nmemb) =
           [ok    |-> TRUE,
            bytes |-> Slice(ClusterAt(desc.item.cluster) + desc.position,
                            size * nmemb)]
<1>1. PICK cluster \in Nat, position \in Nat :
        /\ cluster = desc.item.cluster /\ position = desc.position
        /\ cluster >= 2 /\ position + size * nmemb <= ClusterBytes
  OBVIOUS
<1>2. PICK start \in Nat : start = ClusterAt(cluster) + position
  BY <1>1, ClusterPlace
<1> DEFINE items == [i \in 1 .. nmemb |->
                       fat16_read_internal(cluster, position + (i - 1) * size,
                                           size)]
           turn(u) == [i \in 0 .. nmemb |->
                         IF i = 0 THEN << >> ELSE u[i - 1] \o items[i].bytes]
           upto == CHOOSE u : u = turn(u)
           w == [i \in 0 .. nmemb |-> Slice(start, size * i)]
<1>3. fat16_read(desc, size, nmemb) =
        IF \A i \in 1 .. nmemb : items[i].ok
          THEN [ok |-> TRUE, bytes |-> upto[nmemb]]
          ELSE Failed
  BY <1>1 DEF fat16_read
<1>4. ASSUME NEW i \in 1 .. nmemb
      PROVE  /\ items[i].ok = TRUE
             /\ items[i].bytes = Slice(start + size * (i - 1), size)
  <2>1. PICK offset \in Nat : offset = position + size * (i - 1)
    <3>1. size * (i - 1) \in Nat
      OBVIOUS
    <3> QED
      BY <1>1, <3>1
  <2>2. (i - 1) * size = size * (i - 1)
    OBVIOUS
  <2>3. offset + size <= ClusterBytes
    <3>1. size * i <= size * nmemb
      BY ProductGrows
    <3>2. size * (i - 1) + size = size * i
      OBVIOUS
    <3>3. size * i \in Int /\ size * nmemb \in Int /\ ClusterBytes \in Int
      BY Fat16Assumption DEF ClusterBytes
    <3> QED
      BY <1>1, <2>1, <3>1, <3>2, <3>3
  <2>4. offset < ClusterBytes
    <3>1. ClusterBytes \in Int
      BY Fat16Assumption DEF ClusterBytes
    <3> QED
      BY <2>3, <3>1
  <2>5. fat16_read_internal(cluster, offset, size) =
          [ok |-> TRUE, bytes |-> Slice(ClusterAt(cluster) + offset, size)]
    <3>1. size \in Nat /\ cluster >= 2
      BY <1>1
    <3> QED
      BY <2>3, <2>4, <3>1, ClusterReads, ZenonT(40)
  <2> PICK one : one = fat16_read_internal(cluster, offset, size)
    OBVIOUS
  <2>8. one.ok = TRUE /\ one.bytes = Slice(ClusterAt(cluster) + offset, size)
    BY <2>5
  <2>6. ClusterAt(cluster) + offset = start + size * (i - 1)
    <3>1. ClusterAt(cluster) \in Nat
      BY <1>1, ClusterPlace
    <3> QED
      BY <1>2, <2>1, <3>1
  <2>7. items[i] = one
    BY <2>1, <2>2
  <2> HIDE DEF items
  <2> QED
    BY <2>6, <2>7, <2>8
<1> HIDE DEF items
<1>5. ASSUME NEW i \in 1 .. nmemb
      PROVE  Slice(start, size * (i - 1)) \o items[i].bytes
               = Slice(start, size * i)
  <2>1. PICK a \in Nat, b \in Nat : a = size * (i - 1) /\ b = size
    OBVIOUS
  <2>2. Slice(start, a) \o Slice(start + a, b) = Slice(start, a + b)
    <3>1. start \in Int
      OBVIOUS
    <3> QED
      BY <3>1, SlicesMeet, Zenon
  <2>3. a + b = size * i
    <3>1. size * (i - 1) + size = size * i
      OBVIOUS
    <3> QED
      BY <2>1, <3>1
  <2>4. items[i].bytes = Slice(start + a, b)
    <3>1. items[i].bytes = Slice(start + size * (i - 1), size)
      BY <1>4
    <3> QED
      BY <2>1, <3>1
  <2> QED
    BY <2>1, <2>2, <2>3, <2>4
<1>6. Slice(start, size * 0) = << >>
  BY DEF Slice
<1>7. turn(w) = w
  <2>1. ASSUME NEW i \in 0 .. nmemb
        PROVE  (IF i = 0 THEN << >> ELSE w[i - 1] \o items[i].bytes)
                 = Slice(start, size * i)
    <3>1. CASE i = 0
      BY <1>6, <3>1
    <3>2. CASE i # 0
      <4>1. i \in 1 .. nmemb /\ i - 1 \in 0 .. nmemb
        BY <3>2
      <4>2. w[i - 1] = Slice(start, size * (i - 1))
        BY <4>1
      <4> HIDE DEF w
      <4> QED
        BY <1>5, <3>2, <4>1, <4>2
    <3> QED
      BY <3>1, <3>2
  <2> QED
    BY <2>1
<1>8. \A u : \A i \in 0 .. nmemb :
        turn(u)[i] = IF i = 0 THEN << >> ELSE u[i - 1] \o items[i].bytes
  OBVIOUS
<1> HIDE DEF turn, w
<1>9. upto = turn(upto)
  BY <1>7
<1> HIDE DEF upto
<1>10. \A i \in 0 .. nmemb :
         upto[i] = IF i = 0 THEN << >> ELSE upto[i - 1] \o items[i].bytes
  BY <1>8, <1>9
<1> DEFINE Wrong == {i \in 0 .. nmemb : upto[i] # Slice(start, size * i)}
<1>11. Wrong = {}
  <2> SUFFICES ASSUME Wrong # {}
               PROVE  FALSE
    OBVIOUS
  <2>1. Wrong \subseteq Nat
    OBVIOUS
  <2>2. PICK i \in Wrong : \A k \in Wrong : i <= k
    BY <2>1, LeastNumber
  <2>3. i \in 0 .. nmemb /\ upto[i] # Slice(start, size * i)
    BY <2>2
  <2>4. CASE i = 0
    BY <1>6, <1>10, <2>3, <2>4
  <2>5. CASE i # 0
    <3>1. PICK l \in 0 .. nmemb : l = i - 1 /\ l < i /\ i \in 1 .. nmemb
      BY <2>3, <2>5
    <3>2. l \notin Wrong
      <4> HIDE DEF Wrong
      <4> QED
        BY <2>2, <2>3, <3>1
    <3>3. upto[l] = Slice(start, size * l)
      BY <3>2
    <3>4. upto[i] = upto[l] \o items[i].bytes
      BY <1>10, <2>3, <2>5, <3>1
    <3>5. Slice(start, size * l) \o items[i].bytes = Slice(start, size * i)
      BY <1>5, <3>1
    <3> QED
      BY <2>3, <3>3, <3>4, <3>5
  <2> QED
    BY <2>4, <2>5
<1>12. upto[nmemb] = Slice(start, size * nmemb)
  <2>1. nmemb \in 0 .. nmemb
    OBVIOUS
  <2> QED
    BY <1>11, <2>1
<1>13. \A i \in 1 .. nmemb : items[i].ok
  BY <1>4
<1> QED
  BY <1>1, <1>2, <1>3, <1>12, <1>13

-----------------------------------------------------------------------------
(***************************************************************************)
(* The walk of a path.  First the names: an entry shows as the bytes of    *)
(* its name and its extension before the spaces.                           *)
(***************************************************************************)
Octet == 0 .. 255

Plain == (1 .. 255) \ {Space, Deleted}

LEMMA PlainBytes ==
  /\ Octet \subseteq Nat
  /\ \A b \in Plain : b \in Nat /\ b # Deleted /\ Capital(b) # Space
<1>1. PICK top \in Nat : top = 255
  OBVIOUS
<1>2. Octet \subseteq Nat
  BY <1>1 DEF Octet
<1>3. \A b \in Plain : b \in 1 .. top /\ b # Space /\ b # Deleted
  BY <1>1, Zenon DEF Plain
<1>4. \A b \in 1 .. top : b \in Nat /\ (b # Space => Capital(b) # Space)
  BY DEF Capital, Space
<1> QED
  BY <1>2, <1>3, <1>4

\* The n bytes before the first space or 0.
Kept(in, n) ==
  /\ \A i \in 1 .. n : in[i] \notin {0, Space}
  /\ n < Len(in) => in[n + 1] \in {0, Space}

LEMMA ProperString ==
  ASSUME NEW S, NEW in \in Seq(S)
  PROVE  \E n \in 0 .. Len(in) :
           Kept(in, n) /\ fat16_to_proper_string(in) = SubSeq(in, 1, n)
<1>1. PICK l \in Nat : l = Len(in)
  OBVIOUS
<1> DEFINE stops == {i \in 1 .. l : in[i] \in {0, Space}}
<1>2. \E n \in 0 .. l : Kept(in, n)
  <2>1. CASE stops = {}
    <3>1. l \in 0 .. l /\ \A i \in 1 .. l : in[i] \notin {0, Space}
      BY <2>1
    <3> QED
      BY <1>1, <3>1 DEF Kept
  <2>2. CASE stops # {}
    <3>1. stops \subseteq Nat
      OBVIOUS
    <3>2. PICK m \in stops : \A i \in stops : m <= i
      BY <2>2, <3>1, LeastNumber
    <3>3. PICK n \in 0 .. l : n = m - 1 /\ m = n + 1
      BY <3>2
    <3>4. ASSUME NEW i \in 1 .. n
          PROVE  in[i] \notin {0, Space}
      <4>1. i \in 1 .. l /\ ~ (m <= i)
        BY <3>2, <3>3
      <4> QED
        BY <3>2, <4>1
    <3>5. in[n + 1] \in {0, Space}
      BY <3>2, <3>3
    <3> QED
      BY <1>1, <3>4, <3>5 DEF Kept
  <2> QED
    BY <2>1, <2>2
<1> DEFINE n == CHOOSE k \in 0 .. Len(in) :
                  /\ \A i \in 1 .. k : in[i] \notin {0, Space}
                  /\ k < Len(in) => in[k + 1] \in {0, Space}
<1>3. n \in 0 .. Len(in) /\ Kept(in, n)
  BY <1>1, <1>2 DEF Kept
<1>4. fat16_to_proper_string(in) = SubSeq(in, 1, n)
  BY DEF fat16_to_proper_string
<1> HIDE DEF n
<1> QED
  BY <1>3, <1>4

\* The spaces of what is filled with them begin after n bytes.
SpacedFrom(in, N, n) ==
  /\ fat16_to_proper_string(in) = SubSeq(in, 1, n)
  /\ \A i \in 1 .. n : in[i] # Space /\ in[i] # 0
  /\ \A i \in (n + 1) .. N : in[i] = Space

LEMMA FilledString ==
  ASSUME NEW N \in Nat, NEW in \in [1 .. N -> Octet], Filled(in)
  PROVE  \E n \in 0 .. N : SpacedFrom(in, N, n)
<1>1. in \in Seq(Octet) /\ Len(in) = N /\ DOMAIN in = 1 .. N
  OBVIOUS
<1>2. PICK n \in 0 .. N : Kept(in, n)
                          /\ fat16_to_proper_string(in) = SubSeq(in, 1, n)
  BY <1>1, ProperString
<1>3. \A i \in 1 .. n : in[i] # Space /\ in[i] # 0
  BY <1>2 DEF Kept
<1>4. ASSUME NEW i \in (n + 1) .. N
      PROVE  in[i] = Space
  <2>1. n < Len(in) /\ n + 1 \in DOMAIN in /\ i \in DOMAIN in /\ i >= n + 1
    BY <1>1, <1>4
  <2>2. in[n + 1] = Space
    BY <1>2, <2>1 DEF Kept, Filled
  <2> QED
    BY <2>1, <2>2 DEF Filled
<1> QED
  BY <1>2, <1>3, <1>4 DEF SpacedFrom

\* The first n bytes of a text, and one text behind another.
Starts(v, s, n) ==
  Len(v) = n /\ \A i \in 1 .. n : v[i] = s[i]

LEMMA PrefixIs ==
  ASSUME NEW S, NEW s \in Seq(S), NEW n \in 0 .. Len(s)
  PROVE  SubSeq(s, 1, n) \in Seq(S) /\ Starts(SubSeq(s, 1, n), s, n)
BY DEF Starts

Joins(v, s, t) ==
  /\ Len(v) = Len(s) + Len(t)
  /\ \A i \in 1 .. Len(s) : v[i] = s[i]
  /\ \A i \in 1 .. Len(t) : v[Len(s) + i] = t[i]

LEMMA JoinIs ==
  ASSUME NEW S, NEW s \in Seq(S), NEW t \in Seq(S)
  PROVE  s \o t \in Seq(S) /\ Joins(s \o t, s, t)
BY DEF Joins

\* An entry shows as n bytes of its name and, with a dot, m of its extension.
Shows(entry, n, m) ==
  LET shown == fat16_get_full_relative_filename(entry) IN
  /\ \A i \in 1 .. n : entry.file_name[i] # Space
  /\ \A i \in (n + 1) .. 8 : entry.file_name[i] = Space
  /\ \A i \in 1 .. m : entry.ext[i] # Space
  /\ \A i \in (m + 1) .. 3 : entry.ext[i] = Space
  /\ shown \in Seq(Octet)
  /\ Len(shown) = IF m = 0 THEN n ELSE n + 1 + m
  /\ \A i \in 1 .. n : shown[i] = entry.file_name[i]
  /\ m # 0 => shown[n + 1] = Dot
  /\ \A i \in 1 .. m : shown[n + 1 + i] = entry.ext[i]

LEMMA EntryShows ==
  ASSUME NEW entry \in DirectoryItem, Filled(entry.file_name), Filled(entry.ext)
  PROVE  \E n \in 0 .. 8, m \in 0 .. 3 : Shows(entry, n, m)
<1>1. PICK N \in Nat, M \in Nat \ {0} : N = 8 /\ M = 3
  OBVIOUS
<1>2. /\ entry.file_name \in [1 .. N -> Octet]
      /\ entry.ext \in [1 .. M -> Octet]
  BY <1>1 DEF DirectoryItem, Octet
<1>3. PICK name \in [1 .. N -> Octet], ext \in [1 .. M -> Octet] :
        /\ name = entry.file_name /\ ext = entry.ext
        /\ Filled(name) /\ Filled(ext)
  BY <1>2
<1>4. name \in Seq(Octet) /\ Len(name) = N /\ ext \in Seq(Octet) /\ Len(ext) = M
  OBVIOUS
<1>5. PICK n \in 0 .. N : SpacedFrom(name, N, n)
  BY <1>3, FilledString
<1>6. PICK m \in 0 .. M : SpacedFrom(ext, M, m)
  BY <1>3, FilledString
<1>7. ext[1] \in {0, Space} <=> m = 0
  BY <1>6 DEF SpacedFrom
<1>8. PICK s \in Seq(Octet), t \in Seq(Octet) :
        /\ s = SubSeq(name, 1, n) /\ t = SubSeq(ext, 1, m)
        /\ Starts(s, name, n) /\ Starts(t, ext, m)
  BY <1>4, PrefixIs
<1>9. PICK d \in Seq(Octet) : d = <<Dot>> /\ Len(d) = 1 /\ d[1] = Dot
  <2>1. Dot \in Octet
    BY DEF Dot, Octet
  <2>2. <<Dot>> \in Seq(Octet)
    BY <2>1
  <2> QED
    BY <2>2
<1>10. fat16_get_full_relative_filename(entry)
         = s \o (IF m = 0 THEN << >> ELSE d \o t)
  BY <1>3, <1>5, <1>6, <1>7, <1>8, <1>9, Zenon
     DEF fat16_get_full_relative_filename, SpacedFrom
<1>11. PICK shown \in Seq(Octet) :
         /\ shown = fat16_get_full_relative_filename(entry)
         /\ Len(shown) = IF m = 0 THEN n ELSE n + 1 + m
         /\ \A i \in 1 .. n : shown[i] = name[i]
         /\ m # 0 => shown[n + 1] = Dot
         /\ \A i \in 1 .. m : shown[n + 1 + i] = ext[i]
  <2>1. CASE m = 0
    <3>1. s \o << >> = s
      OBVIOUS
    <3>2. fat16_get_full_relative_filename(entry) = s
      BY <1>10, <2>1, <3>1
    <3>3. Len(s) = n /\ \A i \in 1 .. n : s[i] = name[i]
      BY <1>8 DEF Starts
    <3>4. \A i \in 1 .. m : s[n + 1 + i] = ext[i]
      BY <2>1
    <3> QED
      BY <2>1, <3>2, <3>3, <3>4
  <2>2. CASE m # 0
    <3>1. PICK u \in Seq(Octet) : u = d \o t /\ Joins(u, d, t)
      BY JoinIs
    <3>2. PICK v \in Seq(Octet) : v = s \o u /\ Joins(v, s, u)
      BY JoinIs
    <3>3. /\ Len(u) = 1 + m /\ u[1] = Dot
          /\ \A i \in 1 .. m : u[1 + i] = ext[i]
      <4>1. Len(t) = m /\ \A i \in 1 .. m : t[i] = ext[i]
        BY <1>8 DEF Starts
      <4>2. Len(u) = 1 + m
        BY <1>9, <3>1, <4>1 DEF Joins
      <4>3. u[1] = d[1]
        BY <1>9, <3>1 DEF Joins
      <4>4. \A i \in 1 .. m : u[1 + i] = t[i]
        BY <1>9, <3>1, <4>1 DEF Joins
      <4> QED
        BY <1>9, <4>1, <4>2, <4>3, <4>4
    <3>4. /\ Len(v) = n + (1 + m)
          /\ \A i \in 1 .. n : v[i] = name[i]
          /\ \A i \in 1 .. (1 + m) : v[n + i] = u[i]
      BY <1>8, <3>2, <3>3 DEF Joins, Starts
    <3>5. v[n + 1] = Dot
      BY <3>3, <3>4
    <3>6. ASSUME NEW i \in 1 .. m
          PROVE  v[n + 1 + i] = ext[i]
      <4>1. 1 + i \in 1 .. (1 + m) /\ n + (1 + i) = n + 1 + i
        OBVIOUS
      <4>2. v[n + (1 + i)] = u[1 + i] /\ u[1 + i] = ext[i]
        BY <3>3, <3>4, <4>1
      <4> QED
        BY <4>1, <4>2
    <3>7. fat16_get_full_relative_filename(entry) = v
      BY <1>10, <2>2, <3>1, <3>2
    <3> QED
      BY <2>2, <3>4, <3>5, <3>6, <3>7
  <2> QED
    BY <2>1, <2>2
<1>12. Shows(entry, n, m)
  BY <1>1, <1>3, <1>5, <1>6, <1>11 DEF Shows, SpacedFrom
<1> QED
  BY <1>1, <1>12

\* A byte that is not a small letter, compared with any other.
LEMMA SmallLetters ==
  ASSUME NEW a \in Nat, NEW b \in Nat, Capital(a) = a
  PROVE  tolower(a) = tolower(b) <=> a = Capital(b)
BY DEF Capital, tolower

\* A text that is, in capitals, what the entry shows.
Matches(entry, n, m, name) ==
  /\ Len(name) = IF m = 0 THEN n ELSE n + 1 + m
  /\ \A i \in 1 .. n : entry.file_name[i] = Capital(name[i])
  /\ m # 0 => name[n + 1] = Dot
  /\ \A i \in 1 .. m : entry.ext[i] = Capital(name[n + 1 + i])

LEMMA ComparesNames ==
  ASSUME NEW entry \in DirectoryItem, Filled(entry.file_name), Filled(entry.ext),
         NEW n \in 0 .. 8, NEW m \in 0 .. 3, Shows(entry, n, m),
         NEW name \in Seq(Plain)
  PROVE  istrncmp(fat16_get_full_relative_filename(entry), name)
           <=> Matches(entry, n, m, name)
<1>1. PICK N \in Nat, M \in Nat \ {0} : N = 8 /\ M = 3
  OBVIOUS
<1>2. /\ entry.file_name \in [1 .. N -> Octet]
      /\ entry.ext \in [1 .. M -> Octet]
  BY <1>1 DEF DirectoryItem, Octet
<1>3. PICK fn \in [1 .. N -> Octet], ext \in [1 .. M -> Octet] :
        /\ fn = entry.file_name /\ ext = entry.ext
        /\ Filled(fn) /\ Filled(ext)
  BY <1>2
<1>4. n \in 0 .. N /\ m \in 0 .. M
  BY <1>1
<1>5. PICK shown \in Seq(Octet), l \in Nat :
        /\ shown = fat16_get_full_relative_filename(entry)
        /\ l = (IF m = 0 THEN n ELSE n + 1 + m) /\ Len(shown) = l
        /\ \A i \in 1 .. n : shown[i] = fn[i]
        /\ m # 0 => shown[n + 1] = Dot
        /\ \A i \in 1 .. m : shown[n + 1 + i] = ext[i]
  BY <1>3, <1>4 DEF Shows
<1>6. /\ \A i \in 1 .. n : Capital(fn[i]) = fn[i]
      /\ \A i \in 1 .. m : Capital(ext[i]) = ext[i]
  <2>1. DOMAIN fn = 1 .. N /\ DOMAIN ext = 1 .. M
    OBVIOUS
  <2>2. \A i \in 1 .. n : i \in 1 .. N
    BY <1>4
  <2>3. \A i \in 1 .. m : i \in 1 .. M
    BY <1>4
  <2> QED
    BY <1>3, <2>1, <2>2, <2>3 DEF Filled
<1>7. Octet \subseteq Nat /\ Plain \subseteq Nat /\ Dot \in Nat /\ Capital(Dot) = Dot
  <2>1. Octet \subseteq Nat
    BY PlainBytes
  <2>2. Plain \subseteq Nat
    BY PlainBytes
  <2>3. Dot \in Nat /\ Capital(Dot) = Dot
    BY DEF Dot, Capital
  <2> QED
    BY <2>1, <2>2, <2>3
<1> DEFINE Same(i) == tolower(shown[i]) = tolower(name[i])
<1>8. ASSUME Len(name) = l
      PROVE  /\ \A i \in 1 .. n : Same(i) <=> fn[i] = Capital(name[i])
             /\ m # 0 => (Same(n + 1) <=> name[n + 1] = Dot)
             /\ \A i \in 1 .. m :
                  Same(n + 1 + i) <=> ext[i] = Capital(name[n + 1 + i])
  <2>0. \A i \in 1 .. l : name[i] \in Nat
    <3>1. \A i \in 1 .. l : name[i] \in Plain
      BY <1>8
    <3> QED
      BY <1>7, <3>1
  <2>1. ASSUME NEW i \in 1 .. n
        PROVE  Same(i) <=> fn[i] = Capital(name[i])
    <3>1. i \in 1 .. l /\ i \in 1 .. N
      BY <1>4, <1>5
    <3>2. fn[i] \in Nat /\ name[i] \in Nat
      BY <1>7, <2>0, <3>1
    <3>3. Same(i) <=> tolower(fn[i]) = tolower(name[i])
      BY <1>5
    <3>4. Capital(fn[i]) = fn[i]
      BY <1>6
    <3> HIDE DEF Same
    <3> QED
      BY <3>2, <3>3, <3>4, SmallLetters
  <2>2. ASSUME m # 0
        PROVE  Same(n + 1) <=> name[n + 1] = Dot
    <3>1. n + 1 \in 1 .. l
      BY <1>4, <1>5, <2>2
    <3>2. name[n + 1] \in Nat
      BY <2>0, <3>1
    <3>3. \A b \in Nat : Dot = Capital(b) <=> b = Dot
      BY DEF Dot, Capital
    <3>4. shown[n + 1] = Dot
      BY <1>5, <2>2
    <3>5. Same(n + 1) <=> tolower(Dot) = tolower(name[n + 1])
      BY <3>4
    <3> QED
      BY <1>7, <3>2, <3>3, <3>5, SmallLetters
  <2>3. ASSUME NEW i \in 1 .. m
        PROVE  Same(n + 1 + i) <=> ext[i] = Capital(name[n + 1 + i])
    <3>1. PICK j \in 1 .. l : j = n + 1 + i
      <4>1. l = n + 1 + m
        BY <1>5
      <4> QED
        BY <1>4, <4>1
    <3>2. i \in 1 .. M
      BY <1>4
    <3>3. ext[i] \in Nat /\ name[j] \in Nat
      BY <1>7, <2>0, <3>1, <3>2
    <3>4. Same(j) <=> tolower(ext[i]) = tolower(name[j])
      BY <1>5, <3>1
    <3>5. Capital(ext[i]) = ext[i]
      BY <1>6
    <3> HIDE DEF Same
    <3> QED
      BY <3>1, <3>3, <3>4, <3>5, SmallLetters
  <2> QED
    BY <2>1, <2>2, <2>3
<1>9. (\A i \in 1 .. l : Same(i))
        <=> /\ \A i \in 1 .. n : Same(i)
            /\ m # 0 => Same(n + 1)
            /\ \A i \in 1 .. m : Same(n + 1 + i)
  <2> HIDE DEF Same
  <2>1. ASSUME NEW i \in 1 .. l
        PROVE  \/ i \in 1 .. n
               \/ m # 0 /\ i = n + 1
               \/ \E j \in 1 .. m : i = n + 1 + j
    <3>1. CASE i > n + 1
      <4>1. PICK j \in 1 .. m : j = i - (n + 1)
        BY <1>4, <1>5, <3>1
      <4> QED
        BY <1>4, <4>1
    <3>2. CASE i <= n + 1
      BY <1>4, <1>5, <3>2
    <3> QED
      BY <1>4, <3>1, <3>2
  <2>2. \A i \in 1 .. n : i \in 1 .. l
    BY <1>4, <1>5
  <2>3. m # 0 => n + 1 \in 1 .. l
    BY <1>4, <1>5
  <2>4. \A i \in 1 .. m : n + 1 + i \in 1 .. l
    BY <1>4, <1>5
  <2> QED
    BY <2>1, <2>2, <2>3, <2>4
<1>10. istrncmp(shown, name) <=> Len(name) = l /\ \A i \in 1 .. l : Same(i)
  <2>1. DOMAIN shown = 1 .. l
    BY <1>5
  <2> QED
    BY <1>5, <2>1 DEF istrncmp
<1>11. Matches(entry, n, m, name)
         <=> /\ Len(name) = l
             /\ \A i \in 1 .. n : fn[i] = Capital(name[i])
             /\ m # 0 => name[n + 1] = Dot
             /\ \A i \in 1 .. m : ext[i] = Capital(name[n + 1 + i])
  BY <1>3, <1>5 DEF Matches
<1> HIDE DEF Same
<1> QED
  BY <1>5, <1>8, <1>9, <1>10, <1>11

\* FAT16 names the entry by the same texts.
LEMMA NamesEntries ==
  ASSUME NEW entry \in DirectoryItem, NEW n \in 0 .. 8, NEW m \in 0 .. 3,
         Shows(entry, n, m), NEW name \in Seq(Plain)
  PROVE  HasName(entry, name) <=> Matches(entry, n, m, name)
<1>1. PICK N \in Nat, M \in Nat \ {0} : N = 8 /\ M = 3
  OBVIOUS
<1>2. PICK fn \in [1 .. N -> Octet], ext \in [1 .. M -> Octet] :
        fn = entry.file_name /\ ext = entry.ext
  BY <1>1 DEF DirectoryItem, Octet
<1>3. n \in 0 .. N /\ m \in 0 .. M
  BY <1>1
<1>4. /\ \A i \in 1 .. n : fn[i] # Space
      /\ \A i \in (n + 1) .. N : fn[i] = Space
      /\ \A i \in 1 .. m : ext[i] # Space
      /\ \A i \in (m + 1) .. M : ext[i] = Space
  BY <1>1, <1>2 DEF Shows
<1>5. PICK l \in Nat : l = Len(name)
  OBVIOUS
<1>6. \A i \in 1 .. l : Capital(name[i]) # Space
  <2> SUFFICES ASSUME NEW i \in 1 .. l
               PROVE  Capital(name[i]) # Space
    OBVIOUS
  <2>1. name[i] \in Plain
    BY <1>5
  <2> QED
    BY <2>1, PlainBytes
<1> DEFINE tail(k) == SubSeq(name, k + 2, Len(name))
           Cut(k) == /\ k <= N /\ Len(tail(k)) <= M
                     /\ k < l => name[k + 1] = Dot /\ tail(k) # << >>
                     /\ fn = Padded(SubSeq(name, 1, k), N)
                     /\ ext = Padded(tail(k), M)
           rest(k) == IF k + 1 < l THEN l - (k + 1) ELSE 0
<1>7. HasName(entry, name) <=> \E k \in 0 .. l : Cut(k)
  BY <1>1, <1>2, <1>5 DEF HasName
<1>8. ASSUME NEW k \in 0 .. l
      PROVE  Cut(k) <=> /\ k <= N /\ rest(k) <= M
                        /\ k < l => name[k + 1] = Dot /\ rest(k) # 0
                        /\ \A i \in 1 .. N :
                             fn[i] = IF i <= k THEN Capital(name[i]) ELSE Space
                        /\ \A i \in 1 .. M :
                             ext[i] = IF i <= rest(k)
                                        THEN Capital(name[k + 1 + i]) ELSE Space
  <2>1. PICK s : s = SubSeq(name, 1, k)
    OBVIOUS
  <2>2. s \in Seq(Plain) /\ Len(s) = k /\ \A i \in 1 .. k : s[i] = name[i]
    BY <1>5, <2>1
  <2>3. PICK t : t = tail(k)
    OBVIOUS
  <2>0. PICK r \in Nat : r = rest(k)
    <3>1. rest(k) \in Nat
      OBVIOUS
    <3> HIDE DEF rest
    <3> QED
      BY <3>1
  <2>4. /\ t \in Seq(Plain) /\ Len(t) = r
        /\ \A i \in 1 .. r : t[i] = name[k + 1 + i]
    <3>1. t = SubSeq(name, k + 2, l)
      BY <1>5, <2>3
    <3>2. CASE k + 1 < l
      <4>1. k + 2 \in 1 .. l /\ r = l - (k + 2) + 1
        BY <2>0, <3>2
      <4>2. \A i \in 1 .. r : i + (k + 2) - 1 = k + 1 + i
        OBVIOUS
      <4>3. PICK a \in 1 .. l : a = k + 2 /\ t = SubSeq(name, a, l)
        BY <3>1, <4>1
      <4>4. t \in Seq(Plain) /\ Len(t) = r
        BY <1>5, <4>1, <4>3
      <4>5. \A i \in 1 .. r : t[i] = name[i + a - 1]
        BY <1>5, <4>1, <4>3
      <4> QED
        BY <4>2, <4>3, <4>4, <4>5
    <3>3. CASE ~ (k + 1 < l)
      <4>1. k + 2 > l /\ r = 0
        BY <2>0, <3>3
      <4>2. t = << >>
        BY <1>5, <3>1, <4>1
      <4> QED
        BY <4>1, <4>2
    <3> QED
      BY <3>2, <3>3
  <2>5. Padded(s, N) = [i \in 1 .. N |-> IF i <= k THEN Capital(name[i]) ELSE Space]
    BY <2>2 DEF Padded
  <2>6. Padded(t, M) = [i \in 1 .. M |-> IF i <= r THEN Capital(name[k + 1 + i])
                                                    ELSE Space]
    BY <2>4 DEF Padded
  <2>7. t # << >> <=> r # 0
    BY <2>4
  <2>8. fn = Padded(s, N) <=>
          \A i \in 1 .. N : fn[i] = IF i <= k THEN Capital(name[i]) ELSE Space
    BY <2>5
  <2>9. ext = Padded(t, M) <=>
          \A i \in 1 .. M : ext[i] = IF i <= r THEN Capital(name[k + 1 + i])
                                              ELSE Space
    BY <2>6
  <2>10. Cut(k) <=> /\ k <= N /\ r <= M
                    /\ k < l => name[k + 1] = Dot /\ t # << >>
                    /\ fn = Padded(s, N) /\ ext = Padded(t, M)
    BY <2>1, <2>3, <2>4
  <2> HIDE DEF Cut, tail, rest
  <2> QED
    BY <2>0, <2>7, <2>8, <2>9, <2>10
<1>9. ASSUME NEW k \in 0 .. l, Cut(k)
      PROVE  Matches(entry, n, m, name)
  <2>1. PICK r \in Nat : r = rest(k)
    <3>1. rest(k) \in Nat
      OBVIOUS
    <3> HIDE DEF rest
    <3> QED
      BY <3>1
  <2>2. /\ k <= N /\ r <= M
        /\ k < l => name[k + 1] = Dot /\ r # 0
        /\ \A i \in 1 .. N : fn[i] = IF i <= k THEN Capital(name[i]) ELSE Space
        /\ \A i \in 1 .. M : ext[i] = IF i <= r THEN Capital(name[k + 1 + i])
                                                ELSE Space
    <3> HIDE DEF Cut, rest
    <3> QED
      BY <1>8, <1>9, <2>1
  <2>3. \A i \in 1 .. r : k + 1 + i \in 1 .. l
    BY <2>1
  <2>4. \A i \in 1 .. k : i \in 1 .. l
    OBVIOUS
  <2>5. n = k
    <3>1. ~ (k < n)
      <4> SUFFICES ASSUME k < n
                   PROVE  FALSE
        OBVIOUS
      <4>1. n \in 1 .. n /\ n \in 1 .. N /\ ~ (n <= k)
        BY <1>3
      <4> QED
        BY <1>4, <2>2, <4>1
    <3>2. ~ (n < k)
      <4> SUFFICES ASSUME n < k
                   PROVE  FALSE
        OBVIOUS
      <4>1. k \in 1 .. k /\ k \in (n + 1) .. N /\ k \in 1 .. N
        BY <1>3, <2>2
      <4> QED
        BY <1>4, <1>6, <2>2, <2>4, <4>1
    <3> QED
      BY <1>3, <3>1, <3>2
  <2>6. m = r
    <3>1. ~ (r < m)
      <4> SUFFICES ASSUME r < m
                   PROVE  FALSE
        OBVIOUS
      <4>1. m \in 1 .. m /\ m \in 1 .. M /\ ~ (m <= r)
        BY <1>3
      <4> QED
        BY <1>4, <2>2, <4>1
    <3>2. ~ (m < r)
      <4> SUFFICES ASSUME m < r
                   PROVE  FALSE
        OBVIOUS
      <4>1. r \in 1 .. r /\ r \in (m + 1) .. M /\ r \in 1 .. M /\ r <= r
        BY <1>3, <2>2
      <4>2. ext[r] = Space /\ ext[r] = Capital(name[k + 1 + r])
        BY <1>4, <2>2, <4>1
      <4>3. Capital(name[k + 1 + r]) # Space
        BY <1>6, <2>3, <4>1
      <4> QED
        BY <4>2, <4>3
    <3> QED
      BY <1>3, <3>1, <3>2
  <2>7. l = IF m = 0 THEN n ELSE n + 1 + m
    BY <2>1, <2>2, <2>5, <2>6
  <2>8. m # 0 => name[n + 1] = Dot
    BY <2>1, <2>2, <2>5, <2>6
  <2>9. \A i \in 1 .. n : fn[i] = Capital(name[i])
    BY <1>3, <2>2, <2>5
  <2>10. \A i \in 1 .. m : ext[i] = Capital(name[n + 1 + i])
    BY <1>3, <2>2, <2>5, <2>6
  <2> QED
    BY <1>2, <1>5, <2>7, <2>8, <2>9, <2>10 DEF Matches
<1>10. ASSUME Matches(entry, n, m, name)
       PROVE  Cut(n)
  <2>1. /\ l = IF m = 0 THEN n ELSE n + 1 + m
        /\ \A i \in 1 .. n : fn[i] = Capital(name[i])
        /\ m # 0 => name[n + 1] = Dot
        /\ \A i \in 1 .. m : ext[i] = Capital(name[n + 1 + i])
    BY <1>2, <1>5, <1>10 DEF Matches
  <2>2. n \in 0 .. l /\ rest(n) = m
    BY <1>3, <2>1
  <2>3. \A i \in 1 .. N : fn[i] = IF i <= n THEN Capital(name[i]) ELSE Space
    BY <1>3, <1>4, <2>1
  <2>4. \A i \in 1 .. M : ext[i] = IF i <= m THEN Capital(name[n + 1 + i]) ELSE Space
    BY <1>3, <1>4, <2>1
  <2>5. n < l => name[n + 1] = Dot /\ m # 0
    BY <1>3, <2>1
  <2>6. n <= N /\ m <= M
    BY <1>3
  <2> HIDE DEF Cut, rest
  <2> QED
    BY <1>8, <2>2, <2>3, <2>4, <2>5, <2>6
<1>11. Matches(entry, n, m, name) => n \in 0 .. l
  BY <1>3, <1>5 DEF Matches
<1> HIDE DEF Cut
<1> QED
  BY <1>7, <1>9, <1>10, <1>11

\* The code compares names as FAT16 has them.
LEMMA NamesAgree ==
  ASSUME NEW entry \in DirectoryItem, Filled(entry.file_name), Filled(entry.ext),
         NEW name \in Seq(Plain)
  PROVE  istrncmp(fat16_get_full_relative_filename(entry), name)
           <=> HasName(entry, name)
<1>1. PICK n \in 0 .. 8, m \in 0 .. 3 : Shows(entry, n, m)
  BY EntryShows
<1> QED
  BY <1>1, ComparesNames, NamesEntries

\* What is filled and in capitals shows in capitals.
LEMMA ShowsCapitals ==
  ASSUME NEW entry \in DirectoryItem, Filled(entry.file_name), Filled(entry.ext)
  PROVE  \E shown \in Seq(Octet) :
           /\ shown = fat16_get_full_relative_filename(entry)
           /\ \A i \in 1 .. Len(shown) : Capital(shown[i]) = shown[i]
<1>1. PICK N \in Nat, M \in Nat : N = 8 /\ M = 3
  OBVIOUS
<1>2. PICK fn \in [1 .. N -> Octet], ext \in [1 .. M -> Octet] :
        /\ fn = entry.file_name /\ ext = entry.ext
        /\ Filled(fn) /\ Filled(ext)
  BY <1>1 DEF DirectoryItem, Octet
<1>3. PICK n \in 0 .. N, m \in 0 .. M : Shows(entry, n, m)
  BY <1>1, EntryShows
<1>4. PICK shown \in Seq(Octet), l \in Nat :
        /\ shown = fat16_get_full_relative_filename(entry)
        /\ l = Len(shown) /\ Len(shown) = (IF m = 0 THEN n ELSE n + 1 + m)
        /\ \A i \in 1 .. n : shown[i] = fn[i]
        /\ m # 0 => shown[n + 1] = Dot
        /\ \A i \in 1 .. m : shown[n + 1 + i] = ext[i]
  BY <1>2, <1>3 DEF Shows
<1>5. /\ \A i \in 1 .. n : Capital(fn[i]) = fn[i]
      /\ \A i \in 1 .. m : Capital(ext[i]) = ext[i]
  <2>1. DOMAIN fn = 1 .. N /\ DOMAIN ext = 1 .. M
    OBVIOUS
  <2>2. \A i \in 1 .. n : i \in 1 .. N
    OBVIOUS
  <2>3. \A i \in 1 .. m : i \in 1 .. M
    OBVIOUS
  <2> QED
    BY <1>2, <2>1, <2>2, <2>3 DEF Filled
<1>6. Capital(Dot) = Dot
  BY DEF Dot, Capital
<1>7. ASSUME NEW i \in 1 .. l
      PROVE  Capital(shown[i]) = shown[i]
  <2>1. CASE i > n + 1
    <3>1. PICK j \in 1 .. m : j = i - (n + 1) /\ i = n + 1 + j
      BY <1>4, <2>1
    <3>2. shown[i] = ext[j] /\ Capital(ext[j]) = ext[j]
      BY <1>4, <1>5, <3>1
    <3> QED
      BY <3>2
  <2>2. CASE i = n + 1
    BY <1>4, <1>6, <2>2
  <2>3. CASE i <= n
    BY <1>4, <1>5, <2>3
  <2> QED
    BY <2>1, <2>2, <2>3
<1> QED
  BY <1>4, <1>7

\* Only one name is compared as the same as a text.
LEMMA OneName ==
  ASSUME NEW e \in DirectoryItem, Filled(e.file_name), Filled(e.ext),
         NEW f \in DirectoryItem, Filled(f.file_name), Filled(f.ext),
         NEW name \in Seq(Plain),
         istrncmp(fat16_get_full_relative_filename(e), name),
         istrncmp(fat16_get_full_relative_filename(f), name)
  PROVE  fat16_get_full_relative_filename(e) = fat16_get_full_relative_filename(f)
<1>1. PICK s \in Seq(Octet) :
        /\ s = fat16_get_full_relative_filename(e)
        /\ \A i \in 1 .. Len(s) : Capital(s[i]) = s[i]
  BY ShowsCapitals
<1>2. PICK t \in Seq(Octet) :
        /\ t = fat16_get_full_relative_filename(f)
        /\ \A i \in 1 .. Len(t) : Capital(t[i]) = t[i]
  BY ShowsCapitals
<1>3. Len(s) = Len(t)
  BY <1>1, <1>2 DEF istrncmp
<1>4. ASSUME NEW i \in 1 .. Len(s)
      PROVE  s[i] = t[i]
  <2>1. tolower(s[i]) = tolower(name[i]) /\ tolower(t[i]) = tolower(name[i])
    BY <1>1, <1>2, <1>3 DEF istrncmp
  <2>2. s[i] \in Nat /\ t[i] \in Nat
    <3>1. s[i] \in Octet /\ t[i] \in Octet
      BY <1>3
    <3> QED
      BY <3>1, PlainBytes
  <2>3. Capital(s[i]) = s[i] /\ Capital(t[i]) = t[i]
    BY <1>1, <1>2, <1>3
  <2>4. s[i] = Capital(t[i])
    BY <2>1, <2>2, <2>3, SmallLetters
  <2> QED
    BY <2>3, <2>4
<1>5. s = t
  BY <1>3, <1>4
<1> QED
  BY <1>1, <1>2, <1>5

\* The entries in use are the first ones, and all of them are loaded.
LEMMA UsedPrefix ==
  ASSUME NEW S, NEW entries \in Seq(S)
  PROVE  \E m \in 0 .. Len(entries) : Used(entries) = 1 .. m
<1>1. PICK l \in Nat : l = Len(entries) /\ DOMAIN entries = 1 .. l
  OBVIOUS
<1> DEFINE blank == {i \in DOMAIN entries : entries[i].file_name[1] = 0}
<1>2. Used(entries) = {i \in DOMAIN entries : \A j \in blank : i < j}
  BY DEF Used
<1>3. blank \subseteq 1 .. l
  BY <1>1
<1> HIDE DEF blank
<1>4. CASE blank = {}
  <2>1. Used(entries) = 1 .. l
    BY <1>1, <1>2, <1>4
  <2> QED
    BY <1>1, <2>1
<1>5. CASE blank # {}
  <2>1. blank \subseteq Nat
    BY <1>3
  <2>2. PICK b \in blank : \A j \in blank : b <= j
    BY <1>5, <2>1, LeastNumber
  <2>3. PICK m \in 0 .. l : m = b - 1
    BY <1>3, <2>2
  <2>4. ASSUME NEW i \in 1 .. l
        PROVE  (\A j \in blank : i < j) <=> i \in 1 .. m
    <3>1. /\ i \in Nat /\ b \in Nat /\ m = b - 1
          /\ \A j \in blank : j \in Nat /\ b <= j
      BY <2>1, <2>2, <2>3
    <3> QED
      BY <2>2, <2>3, <3>1
  <2>5. Used(entries) = 1 .. m
    <3>1. \A i \in 1 .. m : i \in 1 .. l
      BY <2>3
    <3>2. Used(entries) \subseteq 1 .. l
      BY <1>1, <1>2
    <3>3. \A i \in 1 .. l : i \in Used(entries) <=> i \in 1 .. m
      BY <1>1, <1>2, <2>4
    <3> QED
      BY <3>1, <3>2, <3>3
  <2> QED
    BY <1>1, <2>3, <2>5
<1> QED
  BY <1>4, <1>5

LEMMA DirectoryLoads ==
  ASSUME NEW d \in DOMAIN Directories, Formatted(Directories[d])
  PROVE  \E m \in 0 .. Len(Directories[d]) :
           /\ Used(Directories[d]) = 1 .. m
           /\ fat16_load_fat_directory(d) = SubSeq(Directories[d], 1, m)
<1>1. PICK entries \in Seq(DirectoryItem) : entries = Directories[d]
  BY DirectoriesAssumption
<1>2. PICK m \in 0 .. Len(entries) : Used(entries) = 1 .. m
  BY UsedPrefix
<1>3. {i \in Used(entries) : entries[i].file_name[6] # Deleted} = 1 .. m
  BY <1>1, <1>2 DEF Formatted
<1>4. Cardinality(1 .. m) = m
  <2>1. m \in Nat
    OBVIOUS
  <2>2. PICK a \in Int, b \in Int : a = 1 /\ b = m
    BY <2>1
  <2>3. Cardinality(a .. b) = IF a > b THEN 0 ELSE b - a + 1
    BY FS_Interval
  <2> QED
    BY <2>1, <2>2, <2>3
<1>5. fat16_get_total_items_for_directory(entries) = m
  BY <1>3, <1>4 DEF fat16_get_total_items_for_directory
<1> QED
  BY <1>1, <1>2, <1>5 DEF fat16_load_fat_directory

-----------------------------------------------------------------------------
\* What a directory that is not full is counted to have is its own.
LEMMA OwnOnly ==
  ASSUME NEW d \in DOMAIN Directories, HasRoom(d)
  PROVE  OwnEntries(d) = Used(Directories[d])
<1>1. PICK entries \in Seq(DirectoryItem) : entries = Directories[d]
  BY DirectoriesAssumption
<1>2. PICK n \in Nat : n = Len(entries) /\ DOMAIN entries = 1 .. n
  BY <1>1
<1>3. PICK b \in 1 .. n :
        b <= DirectorySize[d] /\ entries[b].file_name[1] = 0
  BY <1>1, <1>2 DEF HasRoom
<1>4. PICK size \in Nat : size = DirectorySize[d]
  BY Fat16Assumption
<1>5. ASSUME NEW i \in Used(entries)
      PROVE  i <= size
  <2>1. i \in 1 .. n /\ i < b
    BY <1>2, <1>3 DEF Used
  <2> QED
    BY <1>3, <1>4, <2>1
<1> QED
  BY <1>1, <1>4, <1>5 DEF OwnEntries

\* A label of the directory that is not called like this.
NoLabel(d, name) ==
  \A i \in Used(Directories[d]) :
    FAT_FILE_VOLUME_LABEL \in Directories[d][i].attributes =>
      ~istrncmp(fat16_get_full_relative_filename(Directories[d][i]), name)

\* A deleted entry shows a name that begins with the mark.
LEMMA DeletedDiffers ==
  ASSUME NEW entry \in DirectoryItem, entry.file_name[1] = Deleted,
         NEW name \in Seq(Plain)
  PROVE  ~istrncmp(fat16_get_full_relative_filename(entry), name)
<1>1. PICK N \in Nat, M \in Nat : N = 8 /\ M = 3
  OBVIOUS
<1>2. PICK fn \in [1 .. N -> Octet], ext \in [1 .. M -> Octet] :
        fn = entry.file_name /\ ext = entry.ext
  BY <1>1 DEF DirectoryItem, Octet
<1>3. fn \in Seq(Octet) /\ ext \in Seq(Octet) /\ Len(fn) = N /\ N >= 1
  <2>1. fn \in Seq(Octet) /\ ext \in Seq(Octet) /\ Len(fn) = N
    OBVIOUS
  <2> QED
    BY <1>1, <2>1
<1>4. PICK n \in 0 .. N : Kept(fn, n) /\ fat16_to_proper_string(fn) = SubSeq(fn, 1, n)
  BY <1>3, ProperString
<1>5. n # 0
  <2>1. fn[1] \notin {0, Space}
    BY <1>2 DEF Deleted, Space
  <2> QED
    BY <1>1, <1>3, <2>1, <1>4 DEF Kept
<1>6. PICK s \in Seq(Octet) : s = fat16_to_proper_string(fn) /\ Starts(s, fn, n)
  BY <1>3, <1>4, PrefixIs
<1>7. Len(s) >= 1 /\ s[1] = Deleted
  BY <1>2, <1>5, <1>6 DEF Starts
<1>8. PICK t \in Seq(Octet) :
        t = IF ext[1] \in {0, Space} THEN << >>
            ELSE <<Dot>> \o fat16_to_proper_string(ext)
  <2>1. PICK m \in 0 .. Len(ext) : fat16_to_proper_string(ext) = SubSeq(ext, 1, m)
    BY <1>3, ProperString
  <2>2. fat16_to_proper_string(ext) \in Seq(Octet)
    BY <1>3, <2>1, PrefixIs
  <2>3. Dot \in Octet
    BY DEF Dot, Octet
  <2>4. <<Dot>> \in Seq(Octet)
    BY <2>3
  <2>5. <<Dot>> \o fat16_to_proper_string(ext) \in Seq(Octet)
    BY <2>2, <2>4, JoinIs
  <2>6. << >> \in Seq(Octet)
    OBVIOUS
  <2> QED
    BY <2>5, <2>6
<1>9. fat16_get_full_relative_filename(entry) = s \o t
  BY <1>2, <1>6, <1>8, Zenon DEF fat16_get_full_relative_filename
<1>10. PICK u \in Seq(Octet) : u = s \o t /\ Joins(u, s, t)
  BY JoinIs
<1>11. Len(u) >= 1 /\ u[1] = Deleted
  BY <1>7, <1>10 DEF Joins
<1>12. SUFFICES ASSUME istrncmp(u, name)
                PROVE  FALSE
  BY <1>9, <1>10
<1>13. Len(name) >= 1 /\ tolower(name[1]) = tolower(Deleted)
  BY <1>11, <1>12 DEF istrncmp
<1>14. name[1] \in Plain
  BY <1>13
<1>15. \A b \in Nat : tolower(b) = tolower(Deleted) => b = Deleted
  BY DEF tolower, Deleted
<1> QED
  BY <1>13, <1>14, <1>15, PlainBytes

(***************************************************************************)
(* What is found in a directory is the entry of that name, of which there  *)
(* is only one.                                                            *)
(***************************************************************************)
FoundIs(d, name, r) ==
  \/ r = NotFound /\ Named(d, name) = {}
  \/ \E i \in InUse(Directories[d]) :
       /\ r = fat16_new_fat_item_or_directory_item(Directories[d][i])
       /\ Named(d, name) = {Directories[d][i]}

LEMMA FindsNamed ==
  ASSUME NEW d \in DOMAIN Directories, HasRoom(d), Formatted(Directories[d]),
         NEW name \in Seq(Plain), NoLabel(d, name)
  PROVE  FoundIs(d, name, fat16_find_item_in_directory(d, name))
<1>1. PICK entries \in Seq(DirectoryItem) : entries = Directories[d]
  BY DirectoriesAssumption
<1>2. PICK m \in 0 .. Len(entries) :
        /\ Used(entries) = 1 .. m
        /\ fat16_load_fat_directory(d) = SubSeq(entries, 1, m)
  BY <1>1, DirectoryLoads
<1>3. PICK items \in Seq(DirectoryItem) :
        items = SubSeq(entries, 1, m) /\ Starts(items, entries, m)
  BY PrefixIs
<1>4. DOMAIN items = 1 .. m /\ \A i \in 1 .. m : items[i] = entries[i]
  BY <1>3 DEF Starts
<1> DEFINE same(i) == istrncmp(fat16_get_full_relative_filename(entries[i]), name)
           found == {i \in 1 .. m : same(i)}
           last == CHOOSE i \in found : \A j \in found : i >= j
<1>5. fat16_find_item_in_directory(d, name) =
        IF found = {} THEN NotFound
        ELSE fat16_new_fat_item_or_directory_item(entries[last])
  <2> DEFINE shown == {i \in DOMAIN items :
               istrncmp(fat16_get_full_relative_filename(items[i]), name)}
  <2>1. shown = found
    BY <1>4
  <2>2. fat16_find_item_in_directory(d, name) =
          IF shown = {} THEN NotFound
          ELSE fat16_new_fat_item_or_directory_item(
                 items[CHOOSE i \in shown : \A j \in shown : i >= j])
    <3> DEFINE in(a) ==
          {i \in DOMAIN a : istrncmp(fat16_get_full_relative_filename(a[i]), name)}
               result(a) ==
          IF in(a) = {} THEN NotFound
          ELSE fat16_new_fat_item_or_directory_item(
                 a[CHOOSE i \in in(a) : \A j \in in(a) : i >= j])
    <3>1. fat16_load_fat_directory(d) = items
      BY <1>2, <1>3
    <3>2. fat16_find_item_in_directory(d, name)
            = result(fat16_load_fat_directory(d))
      BY Zenon DEF fat16_find_item_in_directory
    <3>3. result(items) = IF shown = {} THEN NotFound
                          ELSE fat16_new_fat_item_or_directory_item(
                            items[CHOOSE i \in shown : \A j \in shown : i >= j])
      BY Zenon
    <3> HIDE DEF result, shown
    <3> QED
      BY <3>1, <3>2, <3>3
  <2>3. found # {} => last \in 1 .. m
    <3> SUFFICES ASSUME found # {}
                 PROVE  \E i \in found : \A j \in found : i >= j
      OBVIOUS
    <3>1. {m - i : i \in found} \subseteq Nat /\ {m - i : i \in found} # {}
      OBVIOUS
    <3>2. PICK a \in {m - i : i \in found} : \A b \in {m - i : i \in found} : a <= b
      BY <3>1, LeastNumber
    <3>3. PICK i \in found : a = m - i
      OBVIOUS
    <3>4. \A j \in found : m - i <= m - j
      BY <3>2, <3>3
    <3> QED
      BY <3>4
  <2> HIDE DEF shown, found
  <2> QED
    BY <1>4, <2>1, <2>2, <2>3
<1>6. ASSUME NEW i \in 1 .. m
      PROVE  /\ entries[i] \in DirectoryItem
             /\ i \in InUse(entries) => Filled(entries[i].file_name)
                                        /\ Filled(entries[i].ext)
  BY <1>1 DEF Formatted
<1>7. InUse(entries) \subseteq 1 .. m
  BY <1>2 DEF InUse
<1>8. ASSUME NEW i \in 1 .. m
      PROVE  same(i) <=> i \in InUse(entries) /\ HasName(entries[i], name)
  <2>1. CASE i \in InUse(entries)
    BY <1>6, <2>1, NamesAgree
  <2>2. CASE i \notin InUse(entries)
    <3>1. \/ entries[i].file_name[1] = Deleted
          \/ FAT_FILE_VOLUME_LABEL \in entries[i].attributes
      BY <1>2, <2>2 DEF InUse
    <3>2. ~same(i)
      BY <1>1, <1>2, <1>6, <3>1, DeletedDiffers DEF NoLabel
    <3> QED
      BY <2>2, <3>2
  <2> QED
    BY <2>1, <2>2
<1> HIDE DEF same
<1>9. Named(d, name) = {entries[i] : i \in found}
  <2>1. Named(d, name) = {e \in {entries[i] : i \in 1 .. m} :
                            /\ e.file_name[1] # Deleted
                            /\ FAT_FILE_VOLUME_LABEL \notin e.attributes
                            /\ HasName(e, name)}
    BY <1>1, <1>2, OwnOnly DEF Named
  <2>2. \A i \in 1 .. m : same(i) <=>
          /\ entries[i].file_name[1] # Deleted
          /\ FAT_FILE_VOLUME_LABEL \notin entries[i].attributes
          /\ HasName(entries[i], name)
    BY <1>2, <1>8 DEF InUse
  <2> QED
    BY <2>1, <2>2
<1>10. ASSUME NEW i \in found, NEW j \in found
       PROVE  i = j
  <2>1. /\ i \in InUse(entries) /\ j \in InUse(entries) /\ same(i) /\ same(j)
        /\ i \in 1 .. m /\ j \in 1 .. m
    BY <1>8
  <2>2. fat16_get_full_relative_filename(entries[i])
          = fat16_get_full_relative_filename(entries[j])
    BY <1>6, <2>1, OneName DEF same
  <2> QED
    BY <1>1, <2>1, <2>2 DEF Formatted
<1>11. CASE found = {}
  BY <1>5, <1>9, <1>11 DEF FoundIs
<1>12. CASE found # {}
  <2>1. PICK i : i \in found
    BY <1>12
  <2>2. found = {i} /\ i \in InUse(entries)
    BY <1>8, <1>10, <2>1
  <2> HIDE DEF found
  <2>3. (CHOOSE k \in {i} : \A j \in {i} : k >= j) = i
    <3>1. i \in Nat
      BY <1>7, <2>2
    <3> QED
      BY <3>1
  <2>4. last = i
    BY <2>2, <2>3
  <2>5. Named(d, name) = {entries[i]}
    BY <1>9, <2>2
  <2> HIDE DEF last
  <2> QED
    BY <1>1, <1>5, <1>12, <2>2, <2>4, <2>5 DEF FoundIs
<1> QED
  BY <1>11, <1>12

-----------------------------------------------------------------------------
(***************************************************************************)
(* The parser of paths.  Its loop ends for every text, and what it gives   *)
(* are texts of the same bytes.                                            *)
(***************************************************************************)
LEMMA PartEnds ==
  ASSUME NEW text \in Seq(Plain), NEW from \in 4 .. Len(text)
  PROVE  \E e \in from .. (Len(text) + 1) :
           /\ e \in DOMAIN text => text[e] = Slash
           /\ \A j \in from .. (e - 1) : text[j] # Slash
<1>1. PICK n \in Nat : n = Len(text) /\ DOMAIN text = 1 .. n
  OBVIOUS
<1> DEFINE slashes == {i \in from .. n : text[i] = Slash}
<1>2. CASE slashes = {}
  <2>1. PICK e \in from .. (n + 1) : e = n + 1
    BY <1>1
  <2>2. \A j \in from .. (e - 1) : text[j] # Slash
    BY <1>2, <2>1
  <2> QED
    BY <1>1, <2>1, <2>2
<1>3. CASE slashes # {}
  <2>1. slashes \subseteq Nat
    OBVIOUS
  <2>2. PICK e \in slashes : \A i \in slashes : e <= i
    BY <1>3, <2>1, LeastNumber
  <2>3. e \in from .. n /\ text[e] = Slash
    OBVIOUS
  <2>4. ASSUME NEW j \in from .. (e - 1)
        PROVE  text[j] # Slash
    <3>1. j \in from .. n /\ ~ (e <= j)
      BY <2>3
    <3> QED
      BY <2>2, <3>1
  <2>5. e \in from .. (n + 1)
    BY <2>3
  <2> QED
    BY <1>1, <2>3, <2>4, <2>5
<1> QED
  BY <1>2, <1>3

LEMMA PartsAre ==
  ASSUME NEW text \in Seq(Plain)
  PROVE  /\ PathParts(text) \in Seq(Seq(Plain))
         /\ PathParts(text) # << >> => Len(text) >= 4
<1>1. PICK n \in Nat : n = Len(text) /\ DOMAIN text = 1 .. n
  OBVIOUS
<1> DEFINE end(from) == CHOOSE i \in from .. (Len(text) + 1) :
                          /\ i \in DOMAIN text => text[i] = Slash
                          /\ \A j \in from .. (i - 1) : text[j] # Slash
           stop(from) == from > Len(text) \/ end(from) = from
           part(from) == <<SubSeq(text, from, end(from) - 1)>>
           D == 4 .. (Len(text) + 4)
           body(f, from) == IF stop(from) THEN << >>
                            ELSE part(from) \o f[end(from) + 1]
           turn(f) == [from \in D |-> body(f, from)]
           parts == CHOOSE f : f = turn(f)
           P == Seq(Seq(Plain))
<1>2. PathParts(text) = parts[4]
  BY DEF PathParts
<1>3. D = 4 .. (n + 4) /\ 4 \in D /\ \A from \in D : from \in Nat
  BY <1>1
<1>4. ASSUME NEW from \in D, ~stop(from)
      PROVE  /\ from \in 4 .. n
             /\ end(from) + 1 \in D /\ end(from) + 1 \in Nat /\ end(from) + 1 > from
             /\ part(from) \in P
  <2>1. from \in 4 .. Len(text)
    BY <1>1, <1>3, <1>4
  <2>2. end(from) \in from .. (Len(text) + 1)
    BY <2>1, PartEnds
  <2>3. end(from) # from
    BY <1>4
  <2>4. PICK e \in Nat : e = end(from) /\ e \in from .. (n + 1)
    BY <1>1, <2>1, <2>2
  <2>5. SubSeq(text, from, e - 1) \in Seq(Plain)
    <3>1. \A j \in from .. (e - 1) : text[j] \in Plain
      BY <1>1, <2>1, <2>4
    <3>2. PICK a \in Int, b \in Int : a = from /\ b = e - 1
      BY <2>1
    <3> QED
      BY <3>1, <3>2, SubSeqProperties
  <2> HIDE DEF end
  <2> QED
    BY <1>1, <1>3, <2>1, <2>3, <2>4, <2>5
<1>5. ASSUME NEW from \in D, from > n
      PROVE  stop(from)
  BY <1>1, <1>5
<1>6. << >> \in P /\ \A s \in P, t \in P : s \o t \in P
  OBVIOUS
<1> HIDE DEF end, stop, part, P
<1>7. \E f : f = turn(f)
  <2> DEFINE N == n + 1
             S == [D -> P]
             none == [from \in D |-> << >>]
             step == [k \in 1 .. N |-> [f \in S |-> turn(f)]]
  <2> HIDE DEF D
  <2>1. N \in Nat /\ n \in 0 .. N /\ N \in 1 .. N
    OBVIOUS
  <2>2. none \in S
    BY <1>6
  <2>3. \A f \in S : turn(f) \in S
    <3> SUFFICES ASSUME NEW f \in S, NEW from \in D
                 PROVE  body(f, from) \in P
      OBVIOUS
    <3> QED
      BY <1>4, <1>6
  <2>4. step \in Steps(N, S)
    BY <2>3 DEF Steps
  <2> HIDE DEF S, none, step, N
  <2>5. PICK g : Loop(N, S, none, step, g)
    BY <2>1, <2>2, <2>4, LoopRuns
  <2>6. /\ g \in [0 .. N -> S] /\ g[0] = none
        /\ \A k \in 1 .. N : k - 1 \in 0 .. N /\ g[k - 1] \in S /\ g[k] = turn(g[k - 1])
    <3>1. /\ g \in [0 .. N -> S] /\ g[0] = none
          /\ \A k \in 1 .. N : g[k] = step[k][g[k - 1]]
      BY <2>5 DEF Loop
    <3>2. \A k \in 1 .. N : k - 1 \in 0 .. N
      BY <2>1
    <3>3. \A k \in 1 .. N, f \in S : step[k][f] = turn(f)
      BY DEF step
    <3> HIDE DEF turn
    <3> QED
      BY <3>1, <3>2, <3>3
  <2> DEFINE settled(k) == \A from \in D : from >= n + 2 - k =>
                             g[k][from] = g[k - 1][from]
             T == {0} \cup {k \in 1 .. N : settled(k)}
  <2>7. settled(1)
    <3> SUFFICES ASSUME NEW from \in D, from >= n + 1
                 PROVE  g[1][from] = g[0][from]
      <4>1. n + 2 - 1 = n + 1 /\ 1 - 1 = 0
        OBVIOUS
      <4> QED
        BY <4>1
    <3>1. stop(from)
      BY <1>3, <1>5
    <3>2. 1 \in 1 .. N /\ 1 - 1 = 0
      BY <2>1 DEF N
    <3>3. g[1] = turn(g[0])
      BY <2>6, <3>2
    <3>4. g[1][from] = << >>
      BY <3>1, <3>3
    <3> QED
      BY <2>6, <3>4 DEF none
  <2>8. ASSUME NEW k \in 1 .. N, k - 1 \in T
        PROVE  k \in T
    <3>1. CASE k = 1
      BY <2>7, <3>1
    <3>2. CASE k # 1
      <4>1. PICK l \in 1 .. N : l = k - 1 /\ settled(l)
        BY <2>1, <2>8, <3>2
      <4>2. ASSUME NEW from \in D, from >= n + 2 - k
            PROVE  g[k][from] = g[l][from]
        <5>1. g[k] = turn(g[l]) /\ g[l] = turn(g[l - 1])
          BY <2>6, <4>1
        <5>2. g[k][from] = body(g[l], from) /\ g[l][from] = body(g[l - 1], from)
          BY <5>1
        <5>3. CASE stop(from)
          BY <5>2, <5>3
        <5>4. CASE ~stop(from)
          <6>1. PICK next \in D : next = end(from) + 1
            BY <1>4, <5>4
          <6>2. next \in Nat /\ from \in Nat /\ next > from /\ k = l + 1
            BY <1>3, <1>4, <4>1, <5>4, <6>1
          <6>3. next >= n + 2 - l
            BY <4>2, <6>2
          <6>4. g[l][next] = g[l - 1][next]
            BY <4>1, <6>3
          <6> QED
            BY <5>2, <5>4, <6>1, <6>4
        <5> QED
          BY <5>3, <5>4
      <4> QED
        BY <4>1, <4>2
    <3> QED
      BY <3>1, <3>2
  <2>9. N \in T
    <3> HIDE DEF T
    <3>1. 0 \in T
      BY DEF T
    <3>2. \A k \in 0 .. N : k \in T
      BY <2>1, <2>8, <3>1, TurnByTurn
    <3> QED
      BY <2>1, <3>2
  <2>10. PICK l \in 0 .. N : l = N - 1 /\ N \in 1 .. N
    BY <2>1 DEF N
  <2>11. g[N] = turn(g[l]) /\ settled(N)
    <3>1. N # 0
      BY <2>1 DEF N
    <3> HIDE DEF settled, turn
    <3> QED
      BY <2>6, <2>9, <2>10, <3>1
  <2>12. \A from \in D : g[N][from] = g[l][from]
    <3>1. \A from \in D : from >= n + 2 - N
      BY <1>3 DEF N
    <3> QED
      BY <2>10, <2>11, <3>1
  <2>13. \A from \in D : body(g[l], from) = body(g[N], from)
    BY <1>4, <2>12
  <2>14. turn(g[l]) = turn(g[N])
    <3> HIDE DEF body
    <3> QED
      BY <2>13
  <2> HIDE DEF turn
  <2> QED
    BY <2>11, <2>14
<1>8. parts = turn(parts)
  <2> HIDE DEF turn
  <2> QED
    BY <1>7
<1> HIDE DEF parts
<1>9. \A from \in D : parts[from] = body(parts, from)
  BY <1>8
<1>10. parts[4] \in P
  <2> DEFINE T == {k \in 0 .. n : \A from \in D : from >= n + 1 - k => parts[from] \in P}
  <2>1. 0 \in T
    <3> SUFFICES ASSUME NEW from \in D, from >= n + 1 - 0
                 PROVE  parts[from] \in P
      OBVIOUS
    <3>1. stop(from)
      BY <1>3, <1>5
    <3> QED
      BY <1>6, <1>9, <3>1
  <2>2. ASSUME NEW k \in 1 .. n, k - 1 \in T
        PROVE  k \in T
    <3> SUFFICES ASSUME NEW from \in D, from >= n + 1 - k
                 PROVE  parts[from] \in P
      OBVIOUS
    <3>1. CASE stop(from)
      BY <1>6, <1>9, <3>1
    <3>2. CASE ~stop(from)
      <4>1. PICK next \in D : next = end(from) + 1
        BY <1>4, <3>2
      <4>2. next \in Nat /\ from \in Nat /\ next > from
        BY <1>3, <1>4, <3>2, <4>1
      <4>3. parts[next] \in P
        BY <2>2, <4>2
      <4>4. parts[from] = part(from) \o parts[next]
        BY <1>9, <3>2, <4>1
      <4> QED
        BY <1>4, <1>6, <3>2, <4>3, <4>4
    <3> QED
      BY <3>1, <3>2
  <2>3. n \in T
    <3> HIDE DEF T
    <3>1. \A k \in 0 .. n : k \in T
      BY <2>1, <2>2, TurnByTurn
    <3> QED
      BY <3>1
  <2>4. 4 >= n + 1 - n
    OBVIOUS
  <2> HIDE DEF D
  <2> QED
    BY <1>3, <2>3, <2>4
<1>11. ASSUME ~ (Len(text) >= 4)
       PROVE  parts[4] = << >>
  <2>1. stop(4)
    BY <1>1, <1>3, <1>5, <1>11
  <2> QED
    BY <1>3, <1>9, <2>1
<1> QED
  BY <1>2, <1>10, <1>11 DEF P

-----------------------------------------------------------------------------
(***************************************************************************)
(* The walk, part by part: as long as there is something, it is the only   *)
(* thing that the parts so far name.                                       *)
(***************************************************************************)
Entries ==
  UNION {{fat16_new_fat_item_or_directory_item(Directories[d][i]) :
            i \in InUse(Directories[d])} : d \in DOMAIN Directories}

LEMMA EntriesLead ==
  ASSUME FormattedDisk, NEW r \in Entries
  PROVE  /\ r.type \in {"file", "directory"}
         /\ r.type = "directory" => r.cluster \in DOMAIN Directories
<1>1. PICK d \in DOMAIN Directories :
        \E i \in InUse(Directories[d]) :
          r = fat16_new_fat_item_or_directory_item(Directories[d][i])
  BY DEF Entries
<1>2. PICK i \in InUse(Directories[d]) :
        r = fat16_new_fat_item_or_directory_item(Directories[d][i])
  BY <1>1
<1>3. PICK e : e = Directories[d][i]
  OBVIOUS
<1>4. /\ r.type = (IF FAT_FILE_SUBDIRECTORY \in e.attributes
                     THEN "directory" ELSE "file")
      /\ r.cluster = e.cluster
  BY <1>2, <1>3 DEF fat16_new_fat_item_or_directory_item
<1>5. FAT_FILE_SUBDIRECTORY \in e.attributes => e.cluster \in DOMAIN Directories
  BY <1>3 DEF FormattedDisk, Formatted
<1> QED
  BY <1>4, <1>5

\* The items of the entries of that name.
ItemsNamed(d, name) ==
  {fat16_new_fat_item_or_directory_item(entry) : entry \in Named(d, name)}

LEMMA ItemsFound ==
  ASSUME FormattedDisk, NEW d \in DOMAIN Directories, NEW name \in Seq(Plain),
         NoLabel(d, name)
  PROVE  \/ /\ fat16_find_item_in_directory(d, name) = NotFound
            /\ ItemsNamed(d, name) = {}
         \/ /\ fat16_find_item_in_directory(d, name) \in Entries
            /\ ItemsNamed(d, name) = {fat16_find_item_in_directory(d, name)}
<1>1. PICK r : r = fat16_find_item_in_directory(d, name)
  OBVIOUS
<1>2. FoundIs(d, name, r)
  BY <1>1, FindsNamed DEF FormattedDisk
<1>3. CASE r = NotFound /\ Named(d, name) = {}
  <2>1. ItemsNamed(d, name) = {}
    BY <1>3 DEF ItemsNamed
  <2> QED
    BY <1>1, <1>3, <2>1
<1>4. ASSUME NEW i \in InUse(Directories[d]),
             r = fat16_new_fat_item_or_directory_item(Directories[d][i]),
             Named(d, name) = {Directories[d][i]}
      PROVE  r \in Entries /\ ItemsNamed(d, name) = {r}
  <2>1. r \in Entries
    BY <1>4 DEF Entries
  <2>2. ItemsNamed(d, name) = {r}
    BY <1>4, Zenon DEF ItemsNamed
  <2> QED
    BY <2>1, <2>2
<1> QED
  BY <1>1, <1>2, <1>3, <1>4 DEF FoundIs

\* The walk and what FAT16 has there, after some parts.
Agree(r, named) ==
  \/ r = NotFound /\ named = {}
  \/ r \in Entries /\ named = {r}

\* No label in any directory is called like one of the parts.
Labelless(parts) ==
  \A k \in 1 .. Len(parts) : \A d \in DOMAIN Directories : NoLabel(d, parts[k])

LEMMA WalkEnds ==
  ASSUME FormattedDisk, NEW parts \in Seq(Seq(Plain)), Len(parts) > 0,
         Labelless(parts)
  PROVE  Agree(fat16_get_directory_entry(parts), There(parts))
<1>1. PICK L \in Nat \ {0} : L = Len(parts)
  OBVIOUS
<1> DEFINE onward(r, i) == IF r.type # "directory" THEN NotFound
                           ELSE fat16_find_item_in_directory(r.cluster, parts[i])
           first == fat16_find_item_in_directory(Root, parts[1])
           turn(w) == [i \in 1 .. Len(parts) |->
                         IF i = 1 THEN first ELSE onward(w[i - 1], i)]
           walk == CHOOSE w : w = turn(w)
<1>2. fat16_get_directory_entry(parts) = walk[Len(parts)]
  BY Zenon DEF fat16_get_directory_entry
<1> DEFINE root == [type |-> "directory", cluster |-> Root, size |-> 0]
           below(U, i) == UNION {ItemsNamed(d.cluster, parts[i]) :
                                   d \in {x \in U : x.type = "directory"}}
           turned(u) == [i \in 0 .. Len(parts) |->
                           IF i = 0 THEN {root} ELSE below(u[i - 1], i)]
           upto == CHOOSE u : u = turned(u)
<1>3. There(parts) = upto[Len(parts)]
  BY Zenon DEF There, ItemsNamed
<1>4. ASSUME NEW d \in DOMAIN Directories, NEW i \in 1 .. L
      PROVE  /\ Agree(fat16_find_item_in_directory(d, parts[i]),
                      ItemsNamed(d, parts[i]))
             /\ fat16_find_item_in_directory(d, parts[i]) \in Entries \cup {NotFound}
             /\ ItemsNamed(d, parts[i]) \subseteq Entries
  <2>1. parts[i] \in Seq(Plain) /\ NoLabel(d, parts[i])
    BY <1>1 DEF Labelless
  <2> QED
    BY <2>1, ItemsFound DEF Agree
<1>5. Root \in DOMAIN Directories
  BY Fat16Assumption
<1>6. root.type = "directory" /\ root.cluster = Root /\ NotFound.type = "none"
  BY DEF NotFound
<1>7. ASSUME NEW r \in Entries \cup {NotFound}, NEW i \in 1 .. L
      PROVE  onward(r, i) \in Entries \cup {NotFound}
  <2>1. CASE r.type = "directory"
    <3>1. r \in Entries /\ r.cluster \in DOMAIN Directories
      BY <1>6, <2>1, EntriesLead
    <3> QED
      BY <1>4, <2>1, <3>1
  <2>2. CASE r.type # "directory"
    BY <2>2
  <2> QED
    BY <2>1, <2>2
<1>8. ASSUME NEW U \in SUBSET (Entries \cup {root}), NEW i \in 1 .. L
      PROVE  below(U, i) \in SUBSET (Entries \cup {root})
  <2>1. ASSUME NEW d \in U, d.type = "directory"
        PROVE  ItemsNamed(d.cluster, parts[i]) \subseteq Entries
    <3>1. d.cluster \in DOMAIN Directories
      <4>1. CASE d \in Entries
        BY <2>1, <4>1, EntriesLead
      <4>2. CASE d = root
        BY <1>5, <1>6, <4>2
      <4> QED
        BY <4>1, <4>2
    <3> QED
      BY <1>4, <3>1
  <2> QED
    BY <2>1
<1>9. ASSUME NEW r, NEW named, Agree(r, named), NEW i \in 1 .. L
      PROVE  Agree(onward(r, i), below(named, i))
  <2>1. CASE r = NotFound /\ named = {}
    BY <1>6, <2>1 DEF Agree
  <2>2. CASE r \in Entries /\ named = {r} /\ r.type = "directory"
    <3>1. r.cluster \in DOMAIN Directories
      BY <2>2, EntriesLead
    <3>2. below(named, i) = ItemsNamed(r.cluster, parts[i])
      BY <2>2
    <3> QED
      BY <1>4, <2>2, <3>1, <3>2
  <2>3. CASE r \in Entries /\ named = {r} /\ r.type # "directory"
    <3>1. below(named, i) = {}
      BY <2>3
    <3> QED
      BY <2>3, <3>1 DEF Agree
  <2> QED
    BY <1>9, <2>1, <2>2, <2>3 DEF Agree
<1>10. Agree(first, below({root}, 1))
  <2>1. below({root}, 1) = ItemsNamed(Root, parts[1])
    <3>1. {x \in {root} : x.type = "directory"} = {root}
      BY <1>6
    <3>2. UNION {ItemsNamed(d.cluster, parts[1]) : d \in {root}}
            = ItemsNamed(root.cluster, parts[1])
      OBVIOUS
    <3> QED
      BY <1>6, <3>1, <3>2
  <2>2. 1 \in 1 .. L
    OBVIOUS
  <2> QED
    BY <1>4, <1>5, <2>1, <2>2
<1>11. first \in Entries \cup {NotFound}
  BY <1>4, <1>5
<1> HIDE DEF onward, below, first, root
<1>12. \E w : w = turn(w)
  <2> DEFINE S == Entries \cup {NotFound}
             step == [k \in 1 .. (L - 1) |-> [r \in S |-> onward(r, k + 1)]]
  <2>1. step \in Steps(L - 1, S)
    <3>1. \A k \in 1 .. (L - 1) : k + 1 \in 1 .. L
      OBVIOUS
    <3> QED
      BY <1>7, <3>1 DEF Steps
  <2>2. L - 1 \in Nat /\ first \in S
    BY <1>11
  <2> HIDE DEF S, step
  <2>3. PICK g : Loop(L - 1, S, first, step, g)
    BY <2>1, <2>2, LoopRuns
  <2>4. PICK w : w = [i \in 1 .. L |-> g[i - 1]]
    OBVIOUS
  <2>5. ASSUME NEW i \in 1 .. L
        PROVE  w[i] = IF i = 1 THEN first ELSE onward(w[i - 1], i)
    <3>1. CASE i = 1
      <4>1. w[1] = g[0]
        BY <2>4, <3>1
      <4> QED
        BY <2>3, <3>1, <4>1 DEF Loop
    <3>2. CASE i # 1
      <4>1. PICK k \in 1 .. (L - 1) : k = i - 1 /\ i = k + 1 /\ k - 1 \in 0 .. (L - 1)
        BY <3>2
      <4>2. g[k] = step[k][g[k - 1]] /\ g[k - 1] \in S
        BY <2>3, <4>1 DEF Loop
      <4>3. w[i] = g[k] /\ w[i - 1] = g[k - 1]
        <5>1. k \in 1 .. L
          OBVIOUS
        <5> QED
          BY <2>4, <4>1, <5>1
      <4>4. step[k][g[k - 1]] = onward(g[k - 1], k + 1)
        BY <4>2 DEF step
      <4> QED
        BY <3>2, <4>1, <4>2, <4>3, <4>4
    <3> QED
      BY <3>1, <3>2
  <2>6. w = [i \in 1 .. L |-> IF i = 1 THEN first ELSE onward(w[i - 1], i)]
    <3>1. w = [i \in 1 .. L |-> w[i]]
      BY <2>4
    <3> QED
      BY <2>5, <3>1
  <2> QED
    BY <1>1, <2>6
<1>13. \E u : u = turned(u)
  <2> DEFINE S == SUBSET (Entries \cup {root})
             step == [k \in 1 .. L |-> [U \in S |-> below(U, k)]]
  <2>1. step \in Steps(L, S)
    BY <1>8 DEF Steps
  <2>2. L \in Nat /\ {root} \in S
    OBVIOUS
  <2> HIDE DEF S
  <2>3. PICK g : Loop(L, S, {root}, step, g)
    BY <2>1, <2>2, LoopRuns
  <2>4. /\ g \in [0 .. L -> S] /\ g[0] = {root}
        /\ \A k \in 1 .. L : k - 1 \in 0 .. L /\ g[k] = step[k][g[k - 1]]
    BY <2>3 DEF Loop
  <2>5. ASSUME NEW i \in 0 .. L
        PROVE  g[i] = IF i = 0 THEN {root} ELSE below(g[i - 1], i)
    <3>1. CASE i = 0
      BY <2>4, <3>1
    <3>2. CASE i # 0
      <4>1. i \in 1 .. L
        BY <3>2
      <4>2. g[i - 1] \in S /\ g[i] = step[i][g[i - 1]]
        BY <2>4, <4>1
      <4> QED
        BY <3>2, <4>1, <4>2
    <3> QED
      BY <3>1, <3>2
  <2>6. g = [i \in 0 .. L |-> g[i]]
    BY <2>4
  <2> QED
    BY <1>1, <2>5, <2>6
<1>14. walk = turn(walk) /\ upto = turned(upto)
  <2> HIDE DEF turn, turned
  <2> QED
    BY <1>12, <1>13
<1> HIDE DEF walk, upto
<1>15. /\ walk[1] = first /\ upto[0] = {root}
       /\ \A i \in 1 .. L : upto[i] = below(upto[i - 1], i)
       /\ \A i \in 1 .. L : i # 1 => walk[i] = onward(walk[i - 1], i)
  <2>1. /\ \A i \in 1 .. L : walk[i] = IF i = 1 THEN first ELSE onward(walk[i - 1], i)
        /\ \A i \in 0 .. L : upto[i] = IF i = 0 THEN {root} ELSE below(upto[i - 1], i)
    BY <1>1, <1>14
  <2>2. 1 \in 1 .. L /\ 0 \in 0 .. L /\ \A i \in 1 .. L : i \in 0 .. L /\ i # 0
    OBVIOUS
  <2> QED
    BY <2>1, <2>2
<1> DEFINE T == {k \in 0 .. (L - 1) : Agree(walk[k + 1], upto[k + 1])}
<1>16. 0 \in T
  <2>1. 1 \in 1 .. L /\ 0 + 1 = 1 /\ 1 - 1 = 0 /\ 0 \in 0 .. (L - 1)
    OBVIOUS
  <2>2. upto[1] = below({root}, 1)
    BY <1>15, <2>1
  <2> QED
    BY <1>10, <1>15, <2>1, <2>2
<1>17. ASSUME NEW k \in 1 .. (L - 1), k - 1 \in T
       PROVE  k \in T
  <2>1. PICK i \in 1 .. L : i = k + 1 /\ i - 1 = k /\ (k - 1) + 1 = k /\ i # 1
    OBVIOUS
  <2>2. Agree(walk[k], upto[k])
    BY <1>17, <2>1
  <2>3. walk[i] = onward(walk[k], i) /\ upto[i] = below(upto[k], i)
    BY <1>15, <2>1
  <2>4. Agree(walk[i], upto[i])
    BY <1>9, <2>2, <2>3
  <2> QED
    BY <2>1, <2>4
<1>18. L - 1 \in T
  <2> HIDE DEF T
  <2>1. L - 1 \in Nat /\ L - 1 \in 0 .. (L - 1)
    OBVIOUS
  <2>2. \A k \in 0 .. (L - 1) : k \in T
    BY <1>16, <1>17, <2>1, TurnByTurn
  <2> QED
    BY <2>1, <2>2
<1>19. Agree(walk[L], upto[L])
  <2>1. (L - 1) + 1 = L
    OBVIOUS
  <2> QED
    BY <1>18, <2>1
<1> QED
  BY <1>1, <1>2, <1>3, <1>19

\* A path that is more than a drive leads to the only thing that it names.
LEMMA PathLeads ==
  ASSUME FormattedDisk, PlainPaths, NEW path \in Paths,
         Len(path.text) <= MaxPath, PathParts(path.text) # << >>
  PROVE  /\ Len(path.text) >= 4
         /\ Len(pathparser_parse(path.text)) > 0
         /\ Agree(ItemOf(path), There(PathParts(path.text)))
<1>1. path.text \in Seq(Plain)
  BY DEF PlainPaths, Plain
<1>5. pathparser_parse(path.text) = PathParts(path.text)
  BY <1>1, Fat16Assumption DEF pathparser_parse
<1>2. PICK parts \in Seq(Seq(Plain)) : parts = PathParts(path.text)
  BY <1>1, PartsAre
<1>3. Len(parts) > 0
  BY <1>2
<1>4. Labelless(parts)
  <2> SUFFICES ASSUME NEW k \in 1 .. Len(parts), NEW d \in DOMAIN Directories
               PROVE  NoLabel(d, parts[k])
    BY DEF Labelless
  <2>1. k \in DOMAIN PathParts(path.text)
    BY <1>2
  <2> QED
    BY <1>2, <2>1 DEF PlainPaths, NoLabel
<1> QED
  BY <1>1, <1>2, <1>3, <1>4, <1>5, PartsAre, WalkEnds DEF ItemOf

(***************************************************************************)
(* A path on drive 0 can be opened exactly when it is not longer than      *)
(* MaxPath and FAT16 has something there: the count of the entries, the    *)
(* texts that the code makes of their names, its comparison of them and    *)
(* the walk lose nothing and take nothing else.  The directories can have  *)
(* any size, as long as none of them is full, and the paths any depth.     *)
(***************************************************************************)
THEOREM PathsOpenWhatIsThere ==
  ASSUME FormattedDisk, PlainPaths
  PROVE  Spec => []OpensWhatIsThere
<1>1. OpensWhatIsThere
  <2> SUFFICES ASSUME filesystem, NEW path \in Paths, path.mode = "r",
                      SubSeq(path.text, 1, 3) = <<48, 58, Slash>>,
                      PathParts(path.text) # << >>
               PROVE  CanOpen(path) <=> /\ Len(path.text) <= MaxPath
                                        /\ There(PathParts(path.text)) # {}
    BY DEF OpensWhatIsThere
  <2>2. PICK text \in Seq(Plain) : text = path.text
    BY DEF PlainPaths, Plain
  <2>8. CASE ~ (Len(path.text) <= MaxPath)
    <3>1. pathparser_parse(path.text) = << >>
      BY <2>2, <2>8, Fat16Assumption DEF pathparser_parse
    <3>2. ~CanOpen(path)
      BY <3>1 DEF CanOpen
    <3> QED
      BY <2>8, <3>2
  <2>9. SUFFICES ASSUME Len(path.text) <= MaxPath
                 PROVE  CanOpen(path) <=> There(PathParts(path.text)) # {}
    BY <2>8
  <2>1. /\ Len(path.text) >= 4
        /\ Len(pathparser_parse(path.text)) > 0
        /\ Agree(ItemOf(path), There(PathParts(path.text)))
    BY <2>9, PathLeads
  <2>3. text[1] = 48 /\ text[2] = 58 /\ text[3] = Slash
    <3>1. PICK s : s = SubSeq(text, 1, 3)
      OBVIOUS
    <3>2. s[1] = text[1] /\ s[2] = text[2] /\ s[3] = text[3]
      BY <2>1, <2>2, <3>1
    <3>3. s = <<48, 58, Slash>>
      BY <2>2, <3>1
    <3> QED
      BY <3>2, <3>3
  <2>4. pathparser_path_valid_format(path.text)
    BY <2>1, <2>2, <2>3 DEF pathparser_path_valid_format, isdigit
  <2>5. pathparser_get_drive_by_path(path.text) = 0
    BY <2>2, <2>3 DEF pathparser_get_drive_by_path, tonumericdigit
  <2>6. CanOpen(path) <=> ItemOf(path) # NotFound
    BY <2>1, <2>4, <2>5 DEF CanOpen, ItemOf
  <2>7. NotFound \notin Entries
    BY EntriesLead DEF NotFound
  <2> QED
    BY <2>1, <2>6, <2>7 DEF Agree
<1> QED
  BY <1>1, PTL

\* So the walk ends at what the path names.
WalksToNamed ==
  \A path \in Walked :
    ItemOf(path) # NotFound => ItemOf(path) \in There(pathparser_parse(path.text))

LEMMA FormattedWalks ==
  ASSUME FormattedDisk, PlainPaths
  PROVE  WalksToNamed
<1> SUFFICES ASSUME NEW path \in Walked, ItemOf(path) # NotFound
             PROVE  ItemOf(path) \in There(pathparser_parse(path.text))
  BY DEF WalksToNamed
<1>1. path \in Paths /\ Len(pathparser_parse(path.text)) > 0
  BY DEF Walked
<1>2. Len(path.text) <= MaxPath
  <2>1. PICK text \in Seq(Plain) : text = path.text
    BY <1>1 DEF PlainPaths, Plain
  <2>2. CASE Len(text) > MaxPath
    BY <1>1, <2>1, <2>2 DEF pathparser_parse
  <2> QED
    BY <2>1, <2>2, Fat16Assumption
<1>3. pathparser_parse(path.text) = PathParts(path.text)
  <2>1. PICK text \in Seq(Plain) : text = path.text
    BY <1>1 DEF PlainPaths, Plain
  <2> QED
    BY <1>2, <2>1, Fat16Assumption DEF pathparser_parse
<1>4. PathParts(path.text) # << >>
  BY <1>1, <1>3
<1> QED
  BY <1>1, <1>2, <1>3, <1>4, PathLeads DEF Agree

-----------------------------------------------------------------------------
(***************************************************************************)
(* The inductive invariant: an open descriptor knows its slot, and the     *)
(* numbers that are held are those of the slots in use, each with the item *)
(* of its path.                                                            *)
(***************************************************************************)
FInv ==
  /\ file_descriptors \in [Slots -> Descriptor \cup {NULL}]
  /\ \A i \in Slots : file_descriptors[i] # NULL =>
       /\ file_descriptors[i].index = i + 1
       /\ \E h \in held : h.fd = i + 1
  /\ \A h \in held :
       /\ h.fd \in Int /\ h.path \in Walked /\ ItemOf(h.path) # NotFound
       /\ h.fd - 1 \in Slots
       /\ file_descriptors[h.fd - 1] # NULL
       /\ file_descriptors[h.fd - 1].item = ItemOf(h.path)

LEMMA SlotsAreNumbers == Slots \subseteq Nat
BY DEF Slots

\* What a number that is not refused stands for.
LEMMA DescriptorOf ==
  ASSUME FInv, NEW fd \in Numbers, file_get_descriptor(fd) # NULL
  PROVE  /\ fd \in Nat /\ fd - 1 \in Slots
         /\ file_get_descriptor(fd) = file_descriptors[fd - 1]
         /\ file_get_descriptor(fd) \in Descriptor
         /\ file_get_descriptor(fd).index - 1 = fd - 1
<1>1. fd \in Nat /\ fd - 1 \in Slots
  BY FilesAssumption DEF Numbers, Slots, file_get_descriptor
<1>2. file_get_descriptor(fd) = file_descriptors[fd - 1]
  BY DEF file_get_descriptor
<1>3. PICK i \in Slots : i = fd - 1
  BY <1>1
<1>4. file_descriptors[i] \in Descriptor /\ file_descriptors[i].index = i + 1
  BY <1>2, <1>3 DEF FInv
<1> QED
  BY <1>1, <1>2, <1>3, <1>4

LEMMA FopenKeeps ==
  ASSUME FInv, NEW path \in Paths, Fopen(path)
  PROVE  FInv'
<1> PICK item : item = ItemOf(path)
  OBVIOUS
<1>1. PICK i \in Slots :
        /\ file_descriptors[i] = NULL /\ item = ItemOf(path)
        /\ file_descriptors' = [file_descriptors EXCEPT ![i] =
             [index |-> i + 1, item |-> item, position |-> 0]]
        /\ held' = held \cup {[fd |-> i + 1, path |-> path]}
  <2>1. PICK k \in FreeSlots : \A j \in FreeSlots : k <= j
    <3>1. FreeSlots \subseteq Nat /\ FreeSlots # {}
      BY SlotsAreNumbers DEF FreeSlots, Fopen
    <3> QED
      BY <3>1, LeastNumber
  <2>2. PICK i : i = CHOOSE m \in FreeSlots : \A j \in FreeSlots : m <= j
    OBVIOUS
  <2>3. i \in FreeSlots
    BY <2>1, <2>2
  <2> QED
    BY <2>2, <2>3 DEF Fopen, FreeSlots, ItemOf
<1>2. path \in Walked /\ item # NotFound
  BY <1>1 DEF Fopen, CanOpen, Walked, ItemOf
<1>3. PICK new : new = [index |-> i + 1, item |-> item, position |-> 0]
  OBVIOUS
<1>4. new \in Descriptor /\ new # NULL /\ new.index = i + 1 /\ new.item = item
  <2>1. i + 1 \in Nat /\ 0 \in 0 .. (Word - 1)
    BY SlotsAreNumbers, FilesAssumption
  <2>2. item \in {ItemOf(q) : q \in Walked}
    BY <1>1, <1>2
  <2>3. new \in Descriptor
    BY <1>3, <2>1, <2>2 DEF Descriptor
  <2> QED
    BY <1>3, <2>3, NullAssumption
<1>5. /\ file_descriptors'[i] = new
      /\ \A j \in Slots : j # i => file_descriptors'[j] = file_descriptors[j]
      /\ file_descriptors' \in [Slots -> Descriptor \cup {NULL}]
  BY <1>1, <1>3, <1>4 DEF FInv
<1>6. PICK h0 : h0 = [fd |-> i + 1, path |-> path]
  OBVIOUS
<1>7. h0.fd = i + 1 /\ h0.path = path /\ held' = held \cup {h0}
  BY <1>1, <1>6
<1>8. ASSUME NEW j \in Slots, file_descriptors'[j] # NULL
      PROVE  /\ file_descriptors'[j].index = j + 1
             /\ \E h \in held' : h.fd = j + 1
  <2>1. CASE j = i
    BY <1>4, <1>5, <1>7, <2>1
  <2>2. CASE j # i
    BY <1>5, <1>7, <1>8, <2>2 DEF FInv
  <2> QED
    BY <2>1, <2>2
<1>9. ASSUME NEW h \in held'
      PROVE  /\ h.fd \in Int /\ h.path \in Walked /\ ItemOf(h.path) # NotFound
             /\ h.fd - 1 \in Slots
             /\ file_descriptors'[h.fd - 1] # NULL
             /\ file_descriptors'[h.fd - 1].item = ItemOf(h.path)
  <2>1. CASE h = h0
    <3>1. h.fd - 1 = i /\ h.fd \in Int
      BY <1>7, <2>1, SlotsAreNumbers
    <3> QED
      BY <1>1, <1>2, <1>4, <1>5, <1>7, <2>1, <3>1
  <2>2. CASE h \in held
    <3>1. h.fd - 1 \in Slots /\ h.fd - 1 # i
      BY <1>1, <2>2 DEF FInv
    <3> QED
      BY <1>5, <2>2, <3>1 DEF FInv
  <2> QED
    BY <1>7, <2>1, <2>2
<1> QED
  BY <1>5, <1>8, <1>9 DEF FInv

\* The position that fseek goes to is a uint32_t.
LEMMA PositionTyped ==
  ASSUME NEW position \in Int, NEW offset \in Int
  PROVE  /\ Unsigned(offset) \in 0 .. (Word - 1)
         /\ (position + Unsigned(offset)) % Word \in 0 .. (Word - 1)
<1>1. PICK W \in Nat \ {0} : W = Word
  BY FilesAssumption
<1>2. PICK a \in Int : a = Unsigned(offset) /\ a \in 0 .. (W - 1)
  BY <1>1 DEF Unsigned
<1>3. PICK b \in Int : b = position + a
  OBVIOUS
<1>4. b % W \in 0 .. (W - 1)
  OBVIOUS
<1> QED
  BY <1>1, <1>2, <1>3, <1>4

LEMMA FseekKeeps ==
  ASSUME FInv, NEW fd \in Numbers, NEW offset \in Offsets, NEW whence,
         Fseek(fd, offset, whence)
  PROVE  FInv'
<1>1. PICK i \in Slots, desc \in Descriptor, to \in 0 .. (Word - 1) :
        /\ desc = file_descriptors[i]
        /\ file_descriptors' = [file_descriptors EXCEPT ![i].position = to]
        /\ held' = held
  <2>1. PICK desc : desc = file_get_descriptor(fd) /\ desc # NULL
    BY DEF Fseek
  <2>2. PICK i \in Slots : i = fd - 1 /\ i = desc.index - 1
    BY <2>1, DescriptorOf
  <2>3. desc \in Descriptor /\ desc = file_descriptors[i]
    BY <2>1, <2>2, DescriptorOf
  <2>4. desc.position \in Int
    BY <2>3, FilesAssumption DEF Descriptor
  <2>5. offset \in Int
    BY FilesAssumption
  <2>6. /\ Unsigned(offset) \in 0 .. (Word - 1)
        /\ (desc.position + Unsigned(offset)) % Word \in 0 .. (Word - 1)
    BY <2>4, <2>5, PositionTyped
  <2>7. PICK to : to = IF whence = "SEEK_SET"
                         THEN Unsigned(offset)
                         ELSE (desc.position + Unsigned(offset)) % Word
    OBVIOUS
  <2>8. to \in 0 .. (Word - 1)
    BY <2>6, <2>7
  <2>9. /\ file_descriptors' = [file_descriptors EXCEPT ![i].position = to]
        /\ held' = held
    BY <2>1, <2>2, <2>7, Zenon DEF Fseek
  <2> QED
    BY <2>3, <2>8, <2>9
<1>2. PICK new : new = [desc EXCEPT !.position = to]
  OBVIOUS
<1>3. new \in Descriptor /\ new.index = desc.index /\ new.item = desc.item
  BY <1>2 DEF Descriptor
<1>4. new # NULL /\ desc # NULL
  BY <1>3, NullAssumption
<1>5. /\ file_descriptors'[i] = new
      /\ \A j \in Slots : j # i => file_descriptors'[j] = file_descriptors[j]
      /\ file_descriptors' \in [Slots -> Descriptor \cup {NULL}]
  BY <1>1, <1>2, <1>3 DEF FInv
<1>6. ASSUME NEW j \in Slots
      PROVE  /\ (file_descriptors'[j] = NULL) = (file_descriptors[j] = NULL)
             /\ file_descriptors'[j] # NULL =>
                  /\ file_descriptors'[j].index = file_descriptors[j].index
                  /\ file_descriptors'[j].item = file_descriptors[j].item
  BY <1>1, <1>3, <1>4, <1>5
<1>7. ASSUME NEW j \in Slots, file_descriptors'[j] # NULL
      PROVE  /\ file_descriptors'[j].index = j + 1
             /\ \E h \in held' : h.fd = j + 1
  BY <1>1, <1>6, <1>7 DEF FInv
<1>8. ASSUME NEW h \in held'
      PROVE  /\ h.fd \in Int /\ h.path \in Walked /\ ItemOf(h.path) # NotFound
             /\ h.fd - 1 \in Slots
             /\ file_descriptors'[h.fd - 1] # NULL
             /\ file_descriptors'[h.fd - 1].item = ItemOf(h.path)
  BY <1>1, <1>6 DEF FInv
<1> QED
  BY <1>5, <1>7, <1>8 DEF FInv

LEMMA FcloseKeeps ==
  ASSUME FInv, NEW fd \in Numbers, Fclose(fd)
  PROVE  FInv'
<1>1. PICK i \in Slots :
        /\ i = fd - 1 /\ fd \in Nat
        /\ file_descriptors' = [file_descriptors EXCEPT ![i] = NULL]
        /\ held' = {h \in held : h.fd # fd}
  <2>1. PICK desc : desc = file_get_descriptor(fd) /\ desc # NULL
    BY DEF Fclose
  <2>2. PICK i \in Slots : i = fd - 1 /\ i = desc.index - 1 /\ fd \in Nat
    BY <2>1, DescriptorOf
  <2> QED
    BY <2>1, <2>2 DEF Fclose
<1>2. /\ file_descriptors'[i] = NULL
      /\ \A j \in Slots : j # i => file_descriptors'[j] = file_descriptors[j]
      /\ file_descriptors' \in [Slots -> Descriptor \cup {NULL}]
  BY <1>1 DEF FInv
<1>3. ASSUME NEW j \in Slots, file_descriptors'[j] # NULL
      PROVE  /\ file_descriptors'[j].index = j + 1
             /\ \E h \in held' : h.fd = j + 1
  <2>1. j # i /\ file_descriptors'[j] = file_descriptors[j]
    BY <1>2, <1>3
  <2>2. PICK h \in held : h.fd = j + 1
    BY <1>3, <2>1 DEF FInv
  <2>3. j + 1 # fd
    BY <1>1, <2>1, SlotsAreNumbers
  <2> QED
    BY <1>1, <1>3, <2>1, <2>2, <2>3 DEF FInv
<1>4. ASSUME NEW h \in held'
      PROVE  /\ h.fd \in Int /\ h.path \in Walked /\ ItemOf(h.path) # NotFound
             /\ h.fd - 1 \in Slots
             /\ file_descriptors'[h.fd - 1] # NULL
             /\ file_descriptors'[h.fd - 1].item = ItemOf(h.path)
  <2>1. h \in held /\ h.fd # fd
    BY <1>1
  <2>2. h.fd - 1 # i
    BY <1>1, <2>1 DEF FInv
  <2> QED
    BY <1>2, <2>1, <2>2 DEF FInv
<1> QED
  BY <1>2, <1>3, <1>4 DEF FInv

(***************************************************************************)
(* Whatever is opened, moved in and closed, in any order: fs_init and the  *)
(* operations of file.c keep the invariant.                                *)
(***************************************************************************)
THEOREM FilesInductive == Spec => []FInv
<1>1. Init => FInv
  <2> SUFFICES ASSUME Init PROVE FInv
    OBVIOUS
  <2>1. /\ file_descriptors \in [Slots -> Descriptor \cup {NULL}]
        /\ \A i \in Slots : file_descriptors[i] = NULL
        /\ held = {}
    BY DEF Init
  <2> QED
    BY <2>1 DEF FInv
<1>2. FInv /\ [Next]_vars => FInv'
  <2> SUFFICES ASSUME FInv, [Next]_vars
               PROVE  FInv'
    OBVIOUS
  <2>1. ASSUME UNCHANGED vars
        PROVE  FInv'
    BY <2>1 DEF FInv, vars
  <2>2. ASSUME NEW path \in Paths, Fopen(path) \/ FopenFails(path)
        PROVE  FInv'
    <3>1. CASE Fopen(path)
      BY <3>1, FopenKeeps
    <3>2. CASE FopenFails(path)
      BY <2>1, <3>2 DEF FopenFails
    <3> QED
      BY <2>2, <3>1, <3>2
  <2>3. ASSUME NEW fd \in Numbers, NEW offset \in Offsets,
               NEW whence \in {"SEEK_SET", "SEEK_CUR", "SEEK_END"},
               Fseek(fd, offset, whence) \/ FseekFails(fd, offset, whence)
        PROVE  FInv'
    <3>1. CASE Fseek(fd, offset, whence)
      BY <3>1, FseekKeeps
    <3>2. CASE FseekFails(fd, offset, whence)
      BY <2>1, <3>2 DEF FseekFails
    <3> QED
      BY <2>3, <3>1, <3>2
  <2>4. ASSUME NEW fd \in Numbers, Fread(fd) \/ Fclose(fd) \/ FcloseFails(fd)
        PROVE  FInv'
    <3>1. CASE Fread(fd) \/ FcloseFails(fd)
      BY <2>1, <3>1 DEF Fread, FcloseFails
    <3>2. CASE Fclose(fd)
      BY <3>2, FcloseKeeps
    <3> QED
      BY <2>4, <3>1, <3>2
  <2> QED
    BY <2>1, <2>2, <2>3, <2>4, Zenon DEF Next
<1> QED
  BY <1>1, <1>2, PTL DEF Spec

\* A descriptor knows its slot and has a position of 32 bits: file_new_descriptor
\* and fat16_seek.
THEOREM FilesTypeOK == Spec => []TypeOK
<1>1. FInv => TypeOK
  BY DEF FInv, TypeOK, Descriptor
<1> QED
  BY <1>1, FilesInductive, PTL

(***************************************************************************)
(* On a disk with directories as FAT16 has them, a number that fopen       *)
(* returned names its file until fclose, and no slot is in use that nobody *)
(* holds a number of.                                                      *)
(***************************************************************************)
THEOREM NumbersNameFiles ==
  ASSUME FormattedDisk, PlainPaths
  PROVE  Spec => []NumberNamesFile
<1>0. WalksToNamed
  BY FormattedWalks
<1>1. FInv => NumberNamesFile
  <2> SUFFICES ASSUME FInv PROVE NumberNamesFile
    OBVIOUS
  <2>1. ASSUME NEW h \in held, h.fd < MaxDescriptors
        PROVE  /\ file_get_descriptor(h.fd) # NULL
               /\ file_get_descriptor(h.fd).item
                    \in There(pathparser_parse(h.path.text))
    <3>1. PICK i \in Slots : i = h.fd - 1 /\ h.fd \in Int
      BY DEF FInv
    <3>2. file_get_descriptor(h.fd) = file_descriptors[i]
      <4>1. PICK fd \in Int : fd = h.fd /\ i = fd - 1 /\ fd < MaxDescriptors
        BY <2>1, <3>1
      <4>2. ~ (fd <= 0 \/ fd >= MaxDescriptors)
        BY <4>1, SlotsAreNumbers, FilesAssumption
      <4> QED
        BY <4>1, <4>2 DEF file_get_descriptor
    <3>3. /\ file_descriptors[i] # NULL /\ h.path \in Walked
          /\ file_descriptors[i].item = ItemOf(h.path)
          /\ ItemOf(h.path) # NotFound
      BY <3>1 DEF FInv
    <3>4. ItemOf(h.path) \in There(pathparser_parse(h.path.text))
      BY <1>0, <3>3 DEF WalksToNamed
    <3> QED
      BY <3>2, <3>3, <3>4
  <2>2. ASSUME NEW i \in Slots, file_descriptors[i] # NULL
        PROVE  i \in {h.fd - 1 : h \in held}
    <3>1. PICK h \in held : h.fd = i + 1
      BY <2>2 DEF FInv
    <3>2. i = h.fd - 1
      BY <3>1, SlotsAreNumbers
    <3> QED
      BY <3>2
  <2>3. ASSUME NEW h \in held
        PROVE  h.fd - 1 \in {i \in Slots : file_descriptors[i] # NULL}
    BY DEF FInv
  <2>4. {i \in Slots : file_descriptors[i] # NULL} = {h.fd - 1 : h \in held}
    BY <2>2, <2>3
  <2> QED
    BY <2>1, <2>4 DEF NumberNamesFile
<1> QED
  BY <1>1, FilesInductive, PTL

\* The bytes of a read, and the part of a text from first to last.
Total(r) == r.size * r.nmemb

Part(text, first, last) == SubSeq(text, first, last)

\* The disk has the first size bytes of a text from start on.
Written(text, size, start) ==
  \A k \in 1 .. size : text[k] = Byte(start + k - 1)

\* A part of such a text is a slice of the disk.
LEMMA PartIsSlice ==
  ASSUME NEW text, NEW size \in Nat, NEW start \in Int,
         Written(text, size, start),
         NEW first \in Nat \ {0}, NEW last \in Nat, last <= size,
         NEW from \in Int, from = start + first - 1,
         NEW total \in Nat, total = last - first + 1
  PROVE  Part(text, first, last) = Slice(from, total)
<1>1. ASSUME NEW k \in 1 .. total
      PROVE  text[k + first - 1] = Byte(from + k - 1)
  <2>1. PICK m \in 1 .. size : m = k + first - 1
    OBVIOUS
  <2>2. from + k - 1 = start + m - 1
    BY <2>1
  <2> QED
    BY <2>1, <2>2 DEF Written
<1>2. Part(text, first, last)
        = [k \in 1 .. (1 + last - first) |-> text[k + first - 1]]
  BY DEF Part
<1>3. 1 + last - first = total
  OBVIOUS
<1> QED
  BY <1>1, <1>2, <1>3 DEF Slice

(***************************************************************************)
(* With files of one cluster, fread returns what was written to the file   *)
(* at the position that fseek left, for every size of sectors and clusters *)
(* and every number and size of items: fat16_read, fat16_read_internal and *)
(* diskstreamer_read.  MCFilesChain shows how longer files are misread.    *)
(***************************************************************************)
THEOREM SmallFilesRead ==
  ASSUME SmallFiles
  PROVE  Spec => []ReadsContents
<1>1. FInv => ReadsContents
  <2> SUFFICES ASSUME FInv, NEW i \in OpenFiles, NEW r \in Reads,
                      file_descriptors[i].position + Total(r)
                        <= file_descriptors[i].item.size
               PROVE  fat16_read(file_descriptors[i], r.size, r.nmemb) =
                        [ok    |-> TRUE,
                         bytes |-> Part(
                           Contents[file_descriptors[i].item.cluster],
                           file_descriptors[i].position + 1,
                           file_descriptors[i].position + Total(r))]
    BY Zenon DEF ReadsContents, Total, Part
  <2>1. PICK desc : desc = file_descriptors[i]
    OBVIOUS
  <2>2. desc \in Descriptor /\ desc.item.type = "file"
    BY <2>1 DEF FInv, OpenFiles
  <2>3. PICK path \in Walked : desc.item = ItemOf(path)
    BY <2>2 DEF Descriptor
  <2>14. PICK text : text = Contents[desc.item.cluster]
    OBVIOUS
  <2>4. PICK cluster \in Nat, length \in 0 .. ClusterBytes :
          /\ cluster = desc.item.cluster /\ length = desc.item.size
          /\ cluster >= 2 /\ text = Contents[cluster]
          /\ Written(text, length, ClusterAt(cluster))
    <3>1. PICK item : item = desc.item /\ item = ItemOf(path)
      BY <2>3
    <3>2. /\ item.cluster \in Nat /\ item.cluster >= 2
          /\ item.size \in 0 .. ClusterBytes
          /\ \A k \in 1 .. item.size :
               Contents[item.cluster][k] = Byte(ClusterAt(item.cluster) + k - 1)
      BY <2>2, <3>1, Zenon DEF SmallFiles
    <3>3. Written(text, item.size, ClusterAt(item.cluster))
      BY <2>14, <3>1, <3>2 DEF Written
    <3> QED
      BY <2>14, <3>1, <3>2, <3>3
  <2>5. PICK position \in Nat : position = desc.position
    BY <2>2, FilesAssumption DEF Descriptor
  <2>6. PICK size \in Nat \ {0}, nmemb \in Nat :
          size = r.size /\ nmemb = r.nmemb
    BY FilesAssumption DEF SmallFiles
  <2>7. PICK total \in Nat : total = size * nmemb /\ total = Total(r)
    BY <2>6 DEF Total
  <2>8. position + total <= length
    BY <2>1, <2>4, <2>5, <2>6, <2>7
  <2>9. ClusterBytes \in Nat /\ length \in Nat /\ length <= ClusterBytes
    BY Fat16Assumption DEF ClusterBytes
  <2>10. (RootEntries * EntrySize) % SectorSize = 0
    BY DEF SmallFiles
  <2>11. PICK start \in Int : start = ClusterAt(cluster)
    BY <2>4, <2>10, ClusterPlace
  <2>12. fat16_read(desc, size, nmemb) =
           [ok |-> TRUE, bytes |-> Slice(start + position, total)]
    <3>1. desc.position + size * nmemb <= ClusterBytes
      BY <2>5, <2>7, <2>8, <2>9
    <3>2. fat16_read(desc, size, nmemb) =
            [ok    |-> TRUE,
             bytes |-> Slice(ClusterAt(desc.item.cluster) + desc.position,
                             size * nmemb)]
      BY <2>4, <2>5, <2>10, <3>1, ItemsRead
    <3> QED
      BY <2>4, <2>5, <2>7, <2>11, <3>2
  <2>13. Part(text, position + 1, position + total)
           = Slice(start + position, total)
    <3>1. Written(text, length, start)
      BY <2>4, <2>11
    <3>2. PICK first \in Nat \ {0}, last \in Nat, from \in Int :
            /\ first = position + 1 /\ last = position + total
            /\ from = start + position
      OBVIOUS
    <3>3. /\ last <= length /\ length \in Nat
          /\ from = start + first - 1 /\ total = last - first + 1
      BY <2>8, <2>9, <3>2
    <3>4. Part(text, first, last) = Slice(from, total)
      BY <3>1, <3>3, PartIsSlice
    <3> QED
      BY <3>2, <3>4
  <2> QED
    BY <2>1, <2>4, <2>5, <2>6, <2>7, <2>12, <2>13
<1> QED
  BY <1>1, FilesInductive, PTL

=============================================================================
