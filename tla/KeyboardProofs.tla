--------------------------- MODULE KeyboardProofs ---------------------------
(***************************************************************************)
(* The ring buffers of the keyboard are queues, for any number of          *)
(* processes, any size of the ring that divides the modulus of the counts, *)
(* and any order of keys, reads and switches, as long as no more keys wait *)
(* than a ring has slots.                                                  *)
(***************************************************************************)
EXTENDS Keyboard, NumberFacts, SequenceTheorems

\* What waits for a process are characters, and no more than are typed ahead.
TypedBounded ==
  /\ typed \in [Procs -> Seq(1 .. 255)]
  /\ \A p \in Procs : Len(typed[p]) <= TypeAhead

KInv == TypeOK /\ TypedBounded /\ RingHoldsTyped

-----------------------------------------------------------------------------
\* A count stays below the modulus.
LEMMA AdvanceType ==
  ASSUME NEW n \in 0 .. (IntModulus - 1)
  PROVE  Advance(n) \in 0 .. (IntModulus - 1)
<1>1. n + 1 \in Int /\ IntModulus \in Nat \ {0}
  BY KeyboardAssumption
<1> QED
  BY <1>1, QuotientRemainder DEF Advance

\* A count that advanced, and wrapped or not, indexes the next slot.
LEMMA AdvanceIndex ==
  ASSUME NEW n \in 0 .. (IntModulus - 1), NEW k \in Int
  PROVE  (Advance(n) + k) % BufferSize = (n + 1 + k) % BufferSize
<1>1. PICK m \in Int : m = n + 1
  OBVIOUS
<1>2. /\ BufferSize \in Nat \ {0} /\ IntModulus \in Nat \ {0}
      /\ IntModulus % BufferSize = 0
  BY KeyboardAssumption
<1>3. PICK a \in Int : a = m % IntModulus
  BY <1>2, QuotientRemainder
<1>4. a % BufferSize = m % BufferSize
  BY <1>2, <1>3, RemainderNested
<1>5. (a + k) % BufferSize = (m + k) % BufferSize
  <2>1. ((a % BufferSize) + k) % BufferSize = (a + k) % BufferSize
    BY <1>2, RemainderAdd
  <2>2. ((m % BufferSize) + k) % BufferSize = (m + k) % BufferSize
    BY <1>2, RemainderAdd
  <2> QED
    BY <1>4, <2>1, <2>2
<1> QED
  BY <1>1, <1>3, <1>5 DEF Advance

\* When tail is n keys ahead of head, it indexes the slot n after that of head.
LEMMA TailIndex ==
  ASSUME NEW t \in 0 .. (IntModulus - 1), NEW h \in 0 .. (IntModulus - 1),
         NEW n \in Nat, (t - h) % IntModulus = n
  PROVE  t % BufferSize = (h + n) % BufferSize
<1>1. /\ BufferSize \in Nat \ {0} /\ IntModulus \in Nat \ {0}
      /\ IntModulus % BufferSize = 0
  BY KeyboardAssumption
<1>2. PICK d \in Int : d = t - h
  OBVIOUS
<1>3. PICK s \in Int : s = h + n
  OBVIOUS
<1>4. s % IntModulus = t
  <2>1. ((d % IntModulus) + h) % IntModulus = (d + h) % IntModulus
    <3>1. h \in Int
      OBVIOUS
    <3> QED
      BY <1>1, <3>1, RemainderAdd
  <2>2. t % IntModulus = t
    BY <1>1, RemainderSmall
  <2> QED
    BY <1>2, <1>3, <2>1, <2>2
<1>5. (s % IntModulus) % BufferSize = s % BufferSize
  BY <1>1, RemainderNested
<1> QED
  BY <1>3, <1>4, <1>5

\* A push adds one to the distance of the counts.
LEMMA PushDistance ==
  ASSUME NEW t \in 0 .. (IntModulus - 1), NEW h \in 0 .. (IntModulus - 1),
         NEW n \in Nat, (t - h) % IntModulus = n, n + 1 < IntModulus
  PROVE  (Advance(t) - h) % IntModulus = n + 1
<1>1. IntModulus \in Nat \ {0}
  BY KeyboardAssumption
<1>2. PICK d \in Int : d = t - h
  OBVIOUS
<1>3. PICK m \in Int : m = t + 1
  OBVIOUS
<1>4. PICK g \in Int : g = -h
  OBVIOUS
<1>5. ((m % IntModulus) + g) % IntModulus = (m + g) % IntModulus
  BY <1>1, RemainderAdd
<1>6. ((d % IntModulus) + 1) % IntModulus = (d + 1) % IntModulus
  <2>1. PICK one \in Int : one = 1
    OBVIOUS
  <2>2. ((d % IntModulus) + one) % IntModulus = (d + one) % IntModulus
    BY <1>1, RemainderAdd
  <2> QED
    BY <2>1, <2>2
<1>7. (n + 1) % IntModulus = n + 1
  BY <1>1, RemainderSmall
<1>8. m + g = d + 1
  BY <1>2, <1>3, <1>4
<1>9. m % IntModulus \in Int /\ (m % IntModulus) + g = Advance(t) - h
  BY <1>1, <1>3, <1>4, QuotientRemainder DEF Advance
<1> QED
  BY <1>2, <1>5, <1>6, <1>7, <1>8, <1>9

\* A pop takes one from the distance of the counts.
LEMMA PopDistance ==
  ASSUME NEW t \in 0 .. (IntModulus - 1), NEW h \in 0 .. (IntModulus - 1),
         NEW n \in Nat \ {0}, (t - h) % IntModulus = n
  PROVE  (t - Advance(h)) % IntModulus = n - 1
<1>1. IntModulus \in Nat \ {0}
  BY KeyboardAssumption
<1>2. PICK d \in Int : d = t - h
  OBVIOUS
<1>3. n - 1 \in 0 .. (IntModulus - 1)
  BY <1>1, <1>2, QuotientRemainder
<1>4. PICK q \in Int : h + 1 = IntModulus * q + Advance(h)
  <2>1. PICK m \in Int : m = h + 1
    OBVIOUS
  <2>2. /\ m \div IntModulus \in Int
        /\ m = IntModulus * (m \div IntModulus) + (m % IntModulus)
    BY <1>1, QuotientRemainder
  <2> QED
    BY <2>1, <2>2 DEF Advance
<1>5. Advance(h) \in Int
  BY AdvanceType
<1>6. PICK e \in Int : e = d - 1
  OBVIOUS
<1>7. (e + IntModulus * q) % IntModulus = e % IntModulus
  BY <1>1, RemainderTurns
<1>8. PICK minus \in Int : minus = -1
  OBVIOUS
<1>9. ((d % IntModulus) + minus) % IntModulus = (d + minus) % IntModulus
  BY <1>1, RemainderAdd
<1>10. (n - 1) % IntModulus = n - 1
  BY <1>1, <1>3, RemainderSmall
<1>11. e % IntModulus = n - 1
  <2>1. d + minus = e /\ (d % IntModulus) + minus = n - 1
    BY <1>2, <1>6, <1>8
  <2> QED
    BY <1>9, <1>10, <2>1
<1>12. e + IntModulus * q = t - Advance(h)
  BY <1>1, <1>2, <1>4, <1>5, <1>6
<1> QED
  BY <1>7, <1>11, <1>12

-----------------------------------------------------------------------------
\* What RingHoldsTyped says of one ring b with counts t and h, and keys s.
Ring(b, t, h, s) ==
  /\ (t - h) % IntModulus = Len(s)
  /\ \A k \in Index :
       b[(h + k) % BufferSize] = IF k < Len(s) THEN s[k + 1] ELSE 0

\* A push into a ring that is not full.
LEMMA PushRing ==
  ASSUME NEW b \in [Index -> Chars],
         NEW t \in 0 .. (IntModulus - 1), NEW h \in 0 .. (IntModulus - 1),
         NEW s \in Seq(1 .. 255), NEW c \in 1 .. 255,
         Len(s) < BufferSize, Ring(b, t, h, s)
  PROVE  Ring([b EXCEPT ![t % BufferSize] = c], Advance(t), h, Append(s, c))
<1> DEFINE n   == Len(s)
           new == [b EXCEPT ![t % BufferSize] = c]
<1>1. /\ BufferSize \in Nat \ {0} /\ IntModulus \in Nat \ {0}
      /\ BufferSize < IntModulus
  BY KeyboardAssumption
<1>2. n \in Nat /\ Len(Append(s, c)) = n + 1
  BY AppendProperties
<1>3. (Advance(t) - h) % IntModulus = n + 1
  BY <1>1, <1>2, PushDistance DEF Ring
<1>4. t % BufferSize = (h + n) % BufferSize
  BY <1>2, TailIndex DEF Ring
<1>5. ASSUME NEW k \in Index
      PROVE  new[(h + k) % BufferSize] =
               IF k < n + 1 THEN Append(s, c)[k + 1] ELSE 0
  <2>1. k \in Int /\ h + k \in Int /\ h + n \in Int
    BY <1>2 DEF Index
  <2>2. (h + k) % BufferSize \in Index /\ (h + n) % BufferSize \in Index
    BY <1>1, <2>1, QuotientRemainder DEF Index
  <2>3. b[(h + k) % BufferSize] = IF k < n THEN s[k + 1] ELSE 0
    BY DEF Ring
  <2>4. CASE k = n
    <3>1. new[(h + k) % BufferSize] = c
      BY <1>4, <2>2, <2>4
    <3> QED
      BY <1>2, <2>4, <3>1
  <2>5. CASE k # n
    <3>1. (h + k) % BufferSize # (h + n) % BufferSize
      <4>1. PICK x \in Int, y \in Int : x = h + k /\ y = h + n
        BY <2>1
      <4>2. x % BufferSize # y % BufferSize
        <5>1. CASE x < y
          <6>1. y < x + BufferSize
            BY <1>1, <1>2, <4>1 DEF Index
          <6> QED
            BY <1>1, <5>1, <6>1, RemainderApart
        <5>2. CASE y < x
          <6>1. x < y + BufferSize
            BY <1>1, <1>2, <4>1 DEF Index
          <6> QED
            BY <1>1, <5>2, <6>1, RemainderApart
        <5> QED
          BY <2>5, <4>1, <5>1, <5>2, <1>2 DEF Index
      <4> QED
        BY <4>1, <4>2
    <3>2. new[(h + k) % BufferSize] = b[(h + k) % BufferSize]
      BY <1>4, <2>2, <3>1
    <3>3. k < n => Append(s, c)[k + 1] = s[k + 1]
      <4>1. k < n => k + 1 \in 1 .. Len(s)
        BY <1>2 DEF Index
      <4> QED
        BY <4>1, AppendProperties
    <3>4. k < n + 1 <=> k < n
      BY <1>2, <2>1, <2>5
    <3> HIDE DEF new, n
    <3> QED
      BY <2>3, <3>2, <3>3, <3>4
  <2> QED
    BY <2>4, <2>5
<1>6. Ring(new, Advance(t), h, Append(s, c))
  <2> HIDE DEF new, n
  <2> QED
    BY <1>2, <1>3, <1>5 DEF Ring
<1> QED
  BY <1>6

\* A pop from a ring that has a key.
LEMMA PopRing ==
  ASSUME NEW b \in [Index -> Chars],
         NEW t \in 0 .. (IntModulus - 1), NEW h \in 0 .. (IntModulus - 1),
         NEW s \in Seq(1 .. 255), Len(s) <= BufferSize,
         Ring(b, t, h, s), b[h % BufferSize] # 0
  PROVE  /\ s # << >>
         /\ b[h % BufferSize] = Head(s)
         /\ Ring([b EXCEPT ![h % BufferSize] = 0], t, Advance(h), Tail(s))
<1> DEFINE n   == Len(s)
           new == [b EXCEPT ![h % BufferSize] = 0]
<1>1. BufferSize \in Nat \ {0} /\ IntModulus \in Nat \ {0}
  BY KeyboardAssumption
<1>2. 0 \in Index /\ h + 0 = h
  BY <1>1 DEF Index
<1>3. n \in Nat /\ n # 0 /\ b[h % BufferSize] = s[1] /\ s # << >>
  <2>1. b[(h + 0) % BufferSize] = IF 0 < n THEN s[0 + 1] ELSE 0
    BY <1>2 DEF Ring
  <2> QED
    BY <1>2, <2>1
<1>4. Len(Tail(s)) = n - 1 /\ Tail(s) \in Seq(1 .. 255) /\ Head(s) = s[1]
  BY <1>3, HeadTailProperties
<1>5. (t - Advance(h)) % IntModulus = n - 1
  BY <1>3, PopDistance DEF Ring
<1>6. ASSUME NEW k \in Index
      PROVE  new[(Advance(h) + k) % BufferSize] =
               IF k < n - 1 THEN Tail(s)[k + 1] ELSE 0
  <2>1. k \in Int /\ h + 1 + k \in Int
    BY DEF Index
  <2>2. (Advance(h) + k) % BufferSize = (h + 1 + k) % BufferSize
    BY <2>1, AdvanceIndex
  <2>3. CASE k = BufferSize - 1
    <3>1. (h + 1 + k) % BufferSize = h % BufferSize
      <4>1. PICK x \in Int, one \in Int : x = h /\ one = 1
        OBVIOUS
      <4>2. (x + BufferSize * one) % BufferSize = x % BufferSize
        BY <1>1, RemainderTurns
      <4>3. x + BufferSize * one = h + 1 + k
        BY <1>1, <2>3, <4>1
      <4> QED
        BY <4>1, <4>2, <4>3
    <3>2. h % BufferSize \in Index
      <4>1. h \in Int
        OBVIOUS
      <4> QED
        BY <1>1, <4>1, QuotientRemainder DEF Index
    <3>3. new[h % BufferSize] = 0
      BY <3>2
    <3> QED
      BY <1>1, <1>3, <2>2, <2>3, <3>1, <3>3
  <2>4. CASE k # BufferSize - 1
    <3>1. k + 1 \in Index /\ h + 1 + k = h + (k + 1)
      BY <1>1, <2>4 DEF Index
    <3>2. b[(h + 1 + k) % BufferSize] = IF k + 1 < n THEN s[k + 2] ELSE 0
      <4>1. b[(h + (k + 1)) % BufferSize] =
              IF k + 1 < n THEN s[(k + 1) + 1] ELSE 0
        BY <3>1 DEF Ring
      <4> QED
        BY <2>1, <3>1, <4>1
    <3>3. (h + 1 + k) % BufferSize # h % BufferSize
      <4>1. PICK x \in Int, y \in Int : x = h /\ y = h + 1 + k
        BY <2>1
      <4>2. x < y /\ y < x + BufferSize
        BY <1>1, <2>4, <4>1 DEF Index
      <4> QED
        BY <1>1, <4>1, <4>2, RemainderApart
    <3>4. (h + 1 + k) % BufferSize \in Index
      BY <1>1, <2>1, QuotientRemainder DEF Index
    <3>5. new[(h + 1 + k) % BufferSize] = b[(h + 1 + k) % BufferSize]
      BY <3>3, <3>4
    <3>6. k < n - 1 => Tail(s)[k + 1] = s[k + 2]
      <4>1. k < n - 1 => k + 1 \in 1 .. Len(Tail(s)) /\ (k + 1) + 1 = k + 2
        BY <1>3, <1>4 DEF Index
      <4> QED
        BY <1>3, <4>1, HeadTailProperties
    <3>7. k < n - 1 <=> k + 1 < n
      BY <1>3, <2>1
    <3> HIDE DEF new, n
    <3> QED
      BY <2>2, <3>2, <3>5, <3>6, <3>7
  <2> QED
    BY <2>3, <2>4
<1> QED
  BY <1>3, <1>4, <1>5, <1>6 DEF Ring

\* A full or empty ring is told by its slots: these are the keys, in order.
LEMMA RingIsQueue ==
  ASSUME NEW p \in Procs, typed[p] \in Seq(1 .. 255),
         Len(typed[p]) <= BufferSize,
         head[p] \in 0 .. (IntModulus - 1),
         Ring(buffer[p], tail[p], head[p], typed[p])
  PROVE  Unread(p) = typed[p]
<1> DEFINE n == Len(typed[p])
<1>1. BufferSize \in Nat \ {0} /\ n \in Nat
  BY KeyboardAssumption
<1>2. Unread(p) = [k \in 1 .. n |-> buffer[p][(head[p] + k - 1) % BufferSize]]
  BY DEF Unread, Ring
<1>3. ASSUME NEW k \in 1 .. n
      PROVE  buffer[p][(head[p] + k - 1) % BufferSize] = typed[p][k]
  <2>1. PICK j \in Index : j = k - 1
    BY <1>1 DEF Index
  <2>2. head[p] + j = head[p] + k - 1 /\ j < n /\ j + 1 = k
    BY <1>1, <2>1 DEF Index
  <2> QED
    BY <2>2 DEF Ring
<1>4. typed[p] = [k \in 1 .. n |-> typed[p][k]]
  BY LenProperties
<1> QED
  BY <1>2, <1>3, <1>4

-----------------------------------------------------------------------------
\* What a slot may hold is a byte.
LEMMA CharsAreBytes ==
  /\ 0 \in Chars /\ Chars \subseteq 0 .. 255
  /\ TableBytes \subseteq 0 .. 255
<1>1. ScanSetOne \in Seq(0 .. 255) /\ PastTable \subseteq 0 .. 255
  BY KeyboardAssumption
<1>2. ASSUME NEW i \in DOMAIN ScanSetOne
      PROVE  ScanSetOne[i] \in 0 .. 255
  <2>1. ScanSetOne \in Seq(0 .. 255)
    BY <1>1
  <2>2. i \in 1 .. Len(ScanSetOne)
    BY <2>1, LenProperties
  <2> QED
    BY <2>1, <2>2, ElementOfSeq
<1>3. ASSUME NEW c \in TableBytes
      PROVE  c \in 0 .. 255
  BY <1>1, <1>2, <1>3 DEF TableBytes
<1>4. ASSUME NEW c \in Chars
      PROVE  c \in 0 .. 255
  <2>1. CASE c \in TableBytes
    BY <1>3, <2>1
  <2>2. CASE c \in {x + 32 : x \in TableBytes \cap 65 .. 90}
    BY <2>2
  <2> QED
    BY <1>4, <2>1, <2>2 DEF Chars
<1>5. 0 \in Chars
  BY DEF Chars
<1> QED
  BY <1>3, <1>4, <1>5

\* What the handler pushes is a byte, in the case of the caps lock after it.
LEMMA ScancodeToChar ==
  ASSUME NEW scancode \in Scancodes,
         NEW c \in classic_keyboard_scancode_to_char(scancode)'
  PROVE  /\ c \in Chars
         /\ capslock' => c = 0 \/ c \in TableBytes
         /\ ~capslock' => c \notin 65 .. 90
<1>0. PICK len \in Nat :
        /\ len = Len(ScanSetOne) /\ DOMAIN ScanSetOne = 1 .. len
        /\ \A i \in 1 .. len : ScanSetOne[i] \in 0 .. 255
  <2>1. ScanSetOne \in Seq(0 .. 255)
    BY KeyboardAssumption
  <2>2. \A i \in 1 .. Len(ScanSetOne) : ScanSetOne[i] \in 0 .. 255
    BY <2>1, ElementOfSeq
  <2> QED
    BY <2>1, <2>2, LenProperties
<1>1. PastTable \subseteq 0 .. 255 /\ scancode \in Nat
  BY KeyboardAssumption
<1>2. ASSUME NEW byte \in TableBytes
      PROVE  /\ LetterCase(byte)' \in Chars
             /\ capslock' => LetterCase(byte)' = byte
             /\ ~capslock' => LetterCase(byte)' \notin 65 .. 90
  <2>1. byte \in 0 .. 255
    BY CharsAreBytes
  <2>2. LetterCase(byte)' =
          IF ~capslock' /\ byte \in 65 .. 90 THEN byte + 32 ELSE byte
    BY DEF LetterCase
  <2>3. byte \in 65 .. 90 => byte + 32 \in Chars /\ byte + 32 \notin 65 .. 90
    BY <2>1 DEF Chars
  <2>4. byte \in Chars
    BY DEF Chars
  <2> QED
    BY <2>2, <2>3, <2>4
<1>3. CASE scancode > len
  <2>1. c = 0
    BY <1>0, <1>3 DEF classic_keyboard_scancode_to_char
  <2> QED
    BY <2>1, CharsAreBytes
<1>4. CASE scancode = len
  <2>1. ~ (scancode > len)
    BY <1>1, <1>0, <1>4
  <2>2. PICK byte \in PastTable : c = LetterCase(byte)'
    BY <1>0, <1>4, <2>1 DEF classic_keyboard_scancode_to_char
  <2>3. byte \in TableBytes
    BY DEF TableBytes
  <2> QED
    BY <1>2, <2>2, <2>3
<1>5. CASE scancode < len
  <2>1. ~ (scancode > len) /\ ~ (scancode = len)
    BY <1>1, <1>5
  <2>2. c = LetterCase(ScanSetOne[scancode + 1])'
    BY <1>0, <2>1 DEF classic_keyboard_scancode_to_char
  <2>3. PICK i \in DOMAIN ScanSetOne : c = LetterCase(ScanSetOne[i])'
    <3>1. scancode + 1 \in DOMAIN ScanSetOne
      BY <1>1, <1>0, <1>5
    <3> QED
      BY <2>2, <3>1
  <2>4. ScanSetOne[i] \in TableBytes
    BY DEF TableBytes
  <2> QED
    BY <1>2, <2>3, <2>4
<1>6. \/ scancode > len \/ scancode = len
      \/ scancode < len
  BY <1>0, <1>1
<1> QED
  BY <1>3, <1>4, <1>5, <1>6

\* The invariant, ring by ring.
LEMMA InvariantByRing ==
  KInv <=> /\ TypeOK /\ TypedBounded
           /\ \A p \in Procs : Ring(buffer[p], tail[p], head[p], typed[p])
  BY DEF KInv, RingHoldsTyped, Ring, Index

LEMMA InitRings == Init => KInv
<1> SUFFICES ASSUME Init PROVE KInv
  OBVIOUS
<1>1. BufferSize \in Nat \ {0} /\ IntModulus \in Nat \ {0} /\ TypeAhead \in Nat
  BY KeyboardAssumption
<1>2. TypeOK
  <2>1. 0 \in Chars /\ 0 \in 0 .. (IntModulus - 1)
    BY <1>1, CharsAreBytes
  <2> QED
    BY <2>1 DEF Init, TypeOK
<1>3. TypedBounded
  BY <1>1, EmptySeq DEF Init, TypedBounded
<1>4. ASSUME NEW p \in Procs
      PROVE  Ring(buffer[p], tail[p], head[p], typed[p])
  <2>1. /\ buffer[p] = [i \in Index |-> 0]
        /\ tail[p] = 0 /\ head[p] = 0 /\ typed[p] = << >>
    BY DEF Init
  <2>2. 0 % IntModulus = 0
    BY <1>1, RemainderSmall
  <2>3. \A k \in Index : (0 + k) % BufferSize \in Index
    BY <1>1, QuotientRemainder DEF Index
  <2>4. Len(typed[p]) = 0
    BY <2>1
  <2> QED
    BY <2>1, <2>2, <2>3, <2>4 DEF Ring, Index
<1> QED
  BY <1>2, <1>3, <1>4, InvariantByRing

LEMMA KeyDownRings ==
  ASSUME TypeAhead <= BufferSize, KInv,
         NEW scancode \in Scancodes, KeyDown(scancode)
  PROVE  KInv'
<1>1. /\ BufferSize \in Nat \ {0} /\ IntModulus \in Nat \ {0}
      /\ TypeAhead \in Nat
  BY KeyboardAssumption
<1>2. /\ TypeOK /\ TypedBounded
      /\ \A p \in Procs : Ring(buffer[p], tail[p], head[p], typed[p])
  BY InvariantByRing
<1>3. PICK c \in classic_keyboard_scancode_to_char(scancode)' :
        IF c # 0 THEN keyboard_push(focus, c)
                 ELSE UNCHANGED <<buffer, tail, typed>>
  BY DEF KeyDown
<1>4. UNCHANGED <<head, focus, running>> /\ capslock' \in BOOLEAN
  BY <1>2 DEF KeyDown, TypeOK
<1>5. CASE c = 0
  <2>1. TypeOK' /\ TypedBounded'
    BY <1>2, <1>3, <1>4, <1>5 DEF TypeOK, TypedBounded
  <2> QED
    BY <1>2, <1>3, <1>4, <1>5, <2>1 DEF KInv, RingHoldsTyped
<1>6. CASE c # 0
  <2>1. keyboard_push(focus, c) /\ c \in 1 .. 255 /\ focus \in Procs
    <3>1. c \in 0 .. 255
      BY ScancodeToChar, CharsAreBytes
    <3> QED
      BY <1>2, <1>3, <1>6, <3>1 DEF TypeOK
  <2>2. /\ Len(typed[focus]) < TypeAhead /\ typed[focus] \in Seq(1 .. 255)
        /\ tail[focus] \in 0 .. (IntModulus - 1)
        /\ head[focus] \in 0 .. (IntModulus - 1)
        /\ buffer[focus] \in [Index -> Chars]
    BY <1>2, <2>1 DEF KeyDown, TypeOK, TypedBounded
  <2>3. /\ Append(typed[focus], c) \in Seq(1 .. 255)
        /\ Len(Append(typed[focus], c)) = Len(typed[focus]) + 1
        /\ Len(typed[focus]) \in Nat
    BY <2>1, <2>2, AppendProperties, LenProperties
  <2>4. /\ buffer' = [buffer EXCEPT ![focus] =
                        [buffer[focus] EXCEPT ![tail[focus] % BufferSize] = c]]
        /\ tail' = [tail EXCEPT ![focus] = Advance(tail[focus])]
        /\ typed' = [typed EXCEPT ![focus] = Append(typed[focus], c)]
    BY <1>2, <2>1 DEF keyboard_push, keyboard_get_tail_index, TypeOK
  <2>5. Advance(tail[focus]) \in 0 .. (IntModulus - 1) /\ c \in Chars
    BY <2>2, AdvanceType, ScancodeToChar
  <2>6. TypeOK'
    BY <1>2, <1>4, <2>1, <2>2, <2>4, <2>5 DEF TypeOK
  <2>7. TypedBounded'
    BY <1>1, <1>2, <2>1, <2>2, <2>3, <2>4 DEF TypedBounded
  <2>8. ASSUME NEW p \in Procs
        PROVE  Ring(buffer'[p], tail'[p], head'[p], typed'[p])
    <3>1. CASE p = focus
      <4>1. Len(typed[focus]) < BufferSize
        BY <1>1, <2>2, <2>3
      <4>2. Ring([buffer[focus] EXCEPT ![tail[focus] % BufferSize] = c],
                 Advance(tail[focus]), head[focus], Append(typed[focus], c))
        BY <1>2, <2>1, <2>2, <4>1, PushRing
      <4> QED
        BY <1>2, <1>4, <2>4, <3>1, <4>2 DEF TypeOK, TypedBounded
    <3>2. CASE p # focus
      BY <1>2, <1>4, <2>4, <3>2 DEF TypeOK, TypedBounded
    <3> QED
      BY <3>1, <3>2
  <2> QED
    BY <2>6, <2>7, <2>8 DEF KInv, RingHoldsTyped, Ring, Index
<1> QED
  BY <1>5, <1>6

LEMMA GetKeyRings ==
  ASSUME TypeAhead <= BufferSize, KInv, GetKey
  PROVE  /\ KInv'
         /\ typed[running] # << >>
         /\ typed' = [typed EXCEPT ![running] = Tail(typed[running])]
<1>1. /\ BufferSize \in Nat \ {0} /\ IntModulus \in Nat \ {0}
      /\ TypeAhead \in Nat
  BY KeyboardAssumption
<1>2. /\ TypeOK /\ TypedBounded /\ running \in Procs
      /\ \A p \in Procs : Ring(buffer[p], tail[p], head[p], typed[p])
  BY InvariantByRing DEF TypeOK
<1>3. /\ buffer[running][head[running] % BufferSize] # 0
      /\ buffer' = [buffer EXCEPT ![running] =
                      [buffer[running] EXCEPT ![head[running] % BufferSize] = 0]]
      /\ head' = [head EXCEPT ![running] = Advance(head[running])]
      /\ typed' = [typed EXCEPT ![running] = Tail(typed[running])]
      /\ UNCHANGED <<tail, capslock, focus, running>>
  BY <1>2 DEF GetKey, TypeOK
<1>4. /\ typed[running] \in Seq(1 .. 255)
      /\ Len(typed[running]) <= TypeAhead
      /\ tail[running] \in 0 .. (IntModulus - 1)
      /\ head[running] \in 0 .. (IntModulus - 1)
      /\ buffer[running] \in [Index -> Chars]
  BY <1>2 DEF TypeOK, TypedBounded
<1>5. Len(typed[running]) <= BufferSize /\ Len(typed[running]) \in Nat
  BY <1>1, <1>4, LenProperties
<1>6. /\ typed[running] # << >>
      /\ Ring([buffer[running] EXCEPT ![head[running] % BufferSize] = 0],
              tail[running], Advance(head[running]), Tail(typed[running]))
  <2>1. /\ buffer[running][head[running] % BufferSize] # 0
        /\ Ring(buffer[running], tail[running], head[running], typed[running])
    BY <1>2, <1>3
  <2>2. PICK b \in [Index -> Chars], t \in 0 .. (IntModulus - 1),
             h \in 0 .. (IntModulus - 1), keys \in Seq(1 .. 255) :
          /\ b = buffer[running] /\ t = tail[running]
          /\ h = head[running] /\ keys = typed[running]
    BY <1>4
  <2>3. /\ keys # << >>
        /\ Ring([b EXCEPT ![h % BufferSize] = 0], t, Advance(h), Tail(keys))
    <3>1. /\ Len(keys) <= BufferSize /\ Ring(b, t, h, keys)
          /\ b[h % BufferSize] # 0
      BY <1>5, <2>1, <2>2
    <3> HIDE <1>5, <2>1, <2>2
    <3> QED
      BY <3>1, PopRing
  <2> QED
    BY <2>2, <2>3
<1>7. /\ Tail(typed[running]) \in Seq(1 .. 255)
      /\ Len(Tail(typed[running])) = Len(typed[running]) - 1
  BY <1>4, <1>6, HeadTailProperties
<1>8. Advance(head[running]) \in 0 .. (IntModulus - 1)
  BY <1>4, AdvanceType
<1>9. TypeOK'
  <2>1. [buffer[running] EXCEPT ![head[running] % BufferSize] = 0]
          \in [Index -> Chars]
    <3>1. 0 \in Chars
      BY CharsAreBytes
    <3> QED
      BY <1>4, <3>1
  <2>2. buffer' \in [Procs -> [Index -> Chars]]
    BY <1>2, <1>3, <2>1 DEF TypeOK
  <2> QED
    BY <1>2, <1>3, <1>8, <2>2 DEF TypeOK
<1>10. TypedBounded'
  BY <1>1, <1>2, <1>3, <1>4, <1>5, <1>7 DEF TypedBounded
<1>11. ASSUME NEW p \in Procs
       PROVE  Ring(buffer'[p], tail'[p], head'[p], typed'[p])
  <2>1. CASE p = running
    BY <1>2, <1>3, <1>6, <2>1 DEF TypeOK, TypedBounded
  <2>2. CASE p # running
    BY <1>2, <1>3, <2>2 DEF TypeOK, TypedBounded
  <2> QED
    BY <2>1, <2>2
<1> QED
  BY <1>3, <1>6, <1>9, <1>10, <1>11 DEF KInv, RingHoldsTyped, Ring, Index

\* Steps in which no ring changes.
LEMMA OtherRings ==
  ASSUME KInv, focus' \in Procs, running' \in Procs,
         UNCHANGED <<buffer, tail, head, capslock, typed>>
  PROVE  KInv'
<1>1. TypeOK' /\ TypedBounded'
  BY DEF KInv, TypeOK, TypedBounded
<1> QED
  BY <1>1 DEF KInv, RingHoldsTyped

LEMMA NextRings ==
  ASSUME TypeAhead <= BufferSize, KInv, [Next]_vars
  PROVE  KInv'
<1>1. focus \in Procs /\ running \in Procs
  BY DEF KInv, TypeOK
<1>2. ASSUME NEW scancode \in Scancodes, KeyUp(scancode)
      PROVE  KInv'
  BY <1>1, <1>2, OtherRings DEF KeyUp, vars
<1>3. ASSUME NEW scancode \in Scancodes, KeyDown(scancode)
      PROVE  KInv'
  BY <1>3, KeyDownRings
<1>4. CASE GetKey
  BY <1>4, GetKeyRings
<1>5. CASE GetNoKey
  BY <1>1, <1>5, OtherRings DEF GetNoKey, vars
<1>6. CASE Switch
  BY <1>6, OtherRings DEF Switch
<1>7. CASE UNCHANGED vars
  BY <1>1, <1>7, OtherRings DEF vars
<1> QED
  BY <1>2, <1>3, <1>4, <1>5, <1>6, <1>7 DEF Next

-----------------------------------------------------------------------------
(***************************************************************************)
(* Types, the bound on waiting keys and the rings are inductive, when no   *)
(* more keys are typed ahead than a ring of keyboard.c has slots.          *)
(***************************************************************************)
THEOREM KeyboardInductive ==
  ASSUME TypeAhead <= BufferSize
  PROVE  Spec => []KInv
<1>1. Init => KInv
  BY InitRings
<1>2. KInv /\ [Next]_vars => KInv'
  BY NextRings
<1> QED
  BY <1>1, <1>2, PTL DEF Spec

\* Counts, slots and the focus keep their types (keyboard.c).
THEOREM KeyboardTypeOK ==
  ASSUME TypeAhead <= BufferSize
  PROVE  Spec => []TypeOK
<1>1. KInv => TypeOK
  BY DEF KInv
<1> QED
  BY <1>1, KeyboardInductive, PTL

(***************************************************************************)
(* The slots from head on hold what was typed, in order, and the others    *)
(* are empty, so that keyboard_pop finds a key exactly when one waits.     *)
(***************************************************************************)
THEOREM RingsHoldTyped ==
  ASSUME TypeAhead <= BufferSize
  PROVE  Spec => []RingHoldsTyped
<1>1. KInv => RingHoldsTyped
  BY DEF KInv
<1> QED
  BY <1>1, KeyboardInductive, PTL

-----------------------------------------------------------------------------
\* A push in the case of caps lock, as CaseFollowsCapsLock has it.
LEMMA KeyDownCase ==
  ASSUME KInv, NEW scancode \in Scancodes, KeyDown(scancode),
         NEW p \in Procs, Len(typed'[p]) > Len(typed[p])
  PROVE  LET c == typed'[p][Len(typed'[p])] IN
         IF capslock' THEN c \in TableBytes ELSE c \notin 65 .. 90
<1>1. PICK c \in classic_keyboard_scancode_to_char(scancode)' :
        IF c # 0 THEN keyboard_push(focus, c)
                 ELSE UNCHANGED <<buffer, tail, typed>>
  BY DEF KeyDown
<1>2. /\ typed \in [Procs -> Seq(1 .. 255)] /\ focus \in Procs
      /\ typed[p] \in Seq(1 .. 255) /\ Len(typed[p]) \in Nat
  BY LenProperties DEF KInv, TypeOK, TypedBounded
<1>3. /\ c # 0
      /\ typed' = [typed EXCEPT ![focus] = Append(typed[focus], c)]
  BY <1>1, <1>2 DEF keyboard_push
<1>4. p = focus
  BY <1>2, <1>3
<1>5. c \in 1 .. 255
  <2>0. c \in Chars
    BY ScancodeToChar
  <2>1. c \in 0 .. 255
    BY <2>0, CharsAreBytes
  <2> QED
    BY <1>3, <2>1
<1>6. typed'[p] = Append(typed[p], c)
  BY <1>2, <1>3, <1>4
<1>7. typed'[p][Len(typed'[p])] = c
  BY <1>2, <1>5, <1>6, AppendProperties
<1>8. CASE capslock'
  BY <1>3, <1>7, <1>8, ScancodeToChar
<1>9. CASE ~capslock'
  BY <1>7, <1>9, ScancodeToChar
<1> QED
  BY <1>8, <1>9

(***************************************************************************)
(* classic_keyboard_scancode_to_char gives a character the case of caps    *)
(* lock as the key leaves it, also for the byte after the table.           *)
(***************************************************************************)
THEOREM CaseIsThatOfCapsLock ==
  ASSUME TypeAhead <= BufferSize
  PROVE  Spec => CaseFollowsCapsLock
<1> DEFINE Pushed(p) ==
      Len(typed'[p]) > Len(typed[p]) =>
        LET c == typed'[p][Len(typed'[p])] IN
        IF capslock' THEN c \in TableBytes ELSE c \notin 65 .. 90
<1>1. ASSUME KInv, Next, NEW p \in Procs
      PROVE  Pushed(p)
  <2>1. /\ typed \in [Procs -> Seq(1 .. 255)] /\ running \in Procs
        /\ Len(typed[p]) \in Nat
    BY <1>1, LenProperties DEF KInv, TypeOK, TypedBounded
  <2>2. ASSUME UNCHANGED typed
        PROVE  Pushed(p)
    BY <2>1, <2>2
  <2>3. ASSUME NEW scancode \in Scancodes, KeyUp(scancode)
        PROVE  Pushed(p)
    BY <2>2, <2>3 DEF KeyUp, vars
  <2>4. ASSUME NEW scancode \in Scancodes, KeyDown(scancode)
        PROVE  Pushed(p)
    BY <1>1, <2>4, KeyDownCase
  <2>5. CASE GetKey
    <3>1. /\ typed[running] # << >>
          /\ typed' = [typed EXCEPT ![running] = Tail(typed[running])]
      BY <1>1, <2>5, GetKeyRings
    <3>2. Len(Tail(typed[running])) = Len(typed[running]) - 1
      BY <2>1, <3>1, HeadTailProperties
    <3> HIDE DEF Pushed
    <3>3. ~ (Len(typed'[p]) > Len(typed[p]))
      BY <2>1, <3>1, <3>2
    <3> QED
      BY <3>3 DEF Pushed
  <2>6. CASE GetNoKey
    BY <2>2, <2>6 DEF GetNoKey, vars
  <2>7. CASE Switch
    BY <2>2, <2>7 DEF Switch
  <2> HIDE DEF Pushed
  <2> QED
    BY <1>1, <2>3, <2>4, <2>5, <2>6, <2>7 DEF Next
<1>2. KInv /\ [Next]_vars => [\A p \in Procs : Pushed(p)]_vars
  BY <1>1
<1>3. Spec => [][\A p \in Procs : Pushed(p)]_vars
  BY <1>2, KeyboardInductive, PTL DEF Spec
<1> QED
  BY <1>3 DEF CaseFollowsCapsLock

-----------------------------------------------------------------------------
\* In every state that is reached the mapped queue is what was typed.
LEMMA MappedQueue ==
  ASSUME TypeAhead <= BufferSize, KInv
  PROVE  /\ typed = [p \in Procs |-> Unread(p)]
         /\ \A p \in Procs : Unread(p) = typed[p]
<1>1. TypeAhead \in Nat /\ BufferSize \in Nat
  BY KeyboardAssumption
<1>2. ASSUME NEW p \in Procs
      PROVE  Unread(p) = typed[p]
  <2>1. /\ typed[p] \in Seq(1 .. 255) /\ Len(typed[p]) \in Nat
        /\ Len(typed[p]) <= TypeAhead /\ head[p] \in 0 .. (IntModulus - 1)
        /\ Ring(buffer[p], tail[p], head[p], typed[p])
    BY InvariantByRing, LenProperties DEF TypeOK, TypedBounded
  <2> QED
    BY <1>1, <2>1, RingIsQueue
<1>3. typed = [p \in Procs |-> typed[p]]
  BY DEF KInv, TypedBounded
<1> QED
  BY <1>2, <1>3

\* What a step does to the keys that wait: nothing, while the focus and the
\* running process may change; or one is read by the running process, or
\* typed for the one with the focus.
QueueStep ==
  \/ UNCHANGED typed /\ focus' \in Procs /\ running' \in Procs
  \/ /\ typed[running] # << >>
     /\ typed' = [typed EXCEPT ![running] = Tail(typed[running])]
     /\ UNCHANGED <<focus, running>>
  \/ /\ typed'[focus] # << >>
     /\ typed' = [typed EXCEPT ![focus] =
          Append(typed[focus], typed'[focus][Len(typed'[focus])])]
     /\ UNCHANGED <<focus, running>>

LEMMA TypedSteps ==
  ASSUME TypeAhead <= BufferSize, KInv, [Next]_vars
  PROVE  QueueStep
<1>1. /\ typed \in [Procs -> Seq(1 .. 255)]
      /\ running \in Procs /\ focus \in Procs
  BY DEF KInv, TypeOK, TypedBounded
<1>2. ASSUME NEW scancode \in Scancodes, KeyDown(scancode)
      PROVE  QueueStep
  <2>0. UNCHANGED <<focus, running>>
    BY <1>2 DEF KeyDown
  <2>1. PICK c \in classic_keyboard_scancode_to_char(scancode)' :
          IF c # 0 THEN keyboard_push(focus, c)
                   ELSE UNCHANGED <<buffer, tail, typed>>
    BY <1>2 DEF KeyDown
  <2>2. CASE c = 0
    BY <1>1, <2>0, <2>1, <2>2 DEF QueueStep
  <2>3. CASE c # 0
    <3>1. c \in 1 .. 255
      <4>1. c \in 0 .. 255
        BY ScancodeToChar, CharsAreBytes
      <4> QED
        BY <2>3, <4>1
    <3>2. typed' = [typed EXCEPT ![focus] = Append(typed[focus], c)]
      BY <2>1, <2>3 DEF keyboard_push
    <3>3. typed'[focus] = Append(typed[focus], c)
      BY <1>1, <3>2
    <3>4. typed[focus] \in Seq(1 .. 255)
      BY <1>1
    <3>5. /\ Append(typed[focus], c) # << >>
          /\ Append(typed[focus], c)[Len(Append(typed[focus], c))] = c
      BY <3>1, <3>4, AppendProperties
    <3>6. typed'[focus] # << >> /\ c = typed'[focus][Len(typed'[focus])]
      BY <3>3, <3>5
    <3> QED
      BY <2>0, <3>2, <3>6 DEF QueueStep
  <2> QED
    BY <2>2, <2>3
<1>3. ASSUME GetKey
      PROVE  QueueStep
  <2>1. UNCHANGED <<focus, running>>
    BY <1>3 DEF GetKey
  <2> QED
    BY <1>3, <2>1, GetKeyRings DEF QueueStep
<1>4. ASSUME UNCHANGED vars
      PROVE  QueueStep
  BY <1>1, <1>4 DEF vars, QueueStep
<1>5. ASSUME NEW scancode \in Scancodes, KeyUp(scancode)
      PROVE  QueueStep
  BY <1>4, <1>5 DEF KeyUp
<1>6. ASSUME GetNoKey
      PROVE  QueueStep
  BY <1>4, <1>6 DEF GetNoKey
<1>7. ASSUME Switch
      PROVE  QueueStep
  BY <1>7 DEF Switch, QueueStep
<1> QED
  BY <1>2, <1>3, <1>4, <1>5, <1>6, <1>7 DEF Next

(***************************************************************************)
(* For each process, the ring with its counts and its zero slots is a      *)
(* queue: keyboard_push appends a key to the queue of the process with the *)
(* focus, and keyboard_pop gives the running one the oldest key of its     *)
(* own, once, whatever the focus did since (keyboard.c).                   *)
(***************************************************************************)
THEOREM RingsImplementQueue ==
  ASSUME TypeAhead <= BufferSize
  PROVE  Spec => ImplementsQueue
<1> DEFINE queue == [p \in Procs |-> Unread(p)]
<1>1. Init => Queue!Init
  <2> SUFFICES ASSUME Init PROVE Queue!Init
    OBVIOUS
  <2>1. typed = queue
    BY InitRings, MappedQueue
  <2> QED
    BY <2>1 DEF Init, Queue!Init
<1>2. KInv => typed = queue
  BY MappedQueue
<1> HIDE DEF queue
<1>3. KInv /\ [Next]_vars /\ typed = queue /\ (typed = queue)'
        => \/ UNCHANGED queue /\ focus' \in Procs /\ running' \in Procs
           \/ /\ queue[running] # << >>
              /\ queue' = [queue EXCEPT ![running] = Tail(queue[running])]
              /\ UNCHANGED <<focus, running>>
           \/ /\ queue'[focus] # << >>
              /\ queue' = [queue EXCEPT ![focus] =
                   Append(queue[focus], queue'[focus][Len(queue'[focus])])]
              /\ UNCHANGED <<focus, running>>
  BY TypedSteps DEF QueueStep
<1>4. KInv /\ [Next]_vars /\ typed = queue /\ (typed = queue)'
        => [Queue!Next]_<<queue, focus, running>>
  BY <1>3 DEF Queue!Next, Queue!Read, Queue!Type, Queue!Switch, queue
<1>5. Spec => [](typed = queue)
  BY <1>2, KeyboardInductive, PTL
<1>6. Queue!Spec <=>
        Queue!Init /\ [][Queue!Next]_<<queue, focus, running>>
  BY DEF Queue!Spec, Queue!vars, queue
<1> QED
  BY <1>1, <1>4, <1>5, <1>6, KeyboardInductive, PTL DEF Spec, ImplementsQueue

=============================================================================
