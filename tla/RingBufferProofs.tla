-------------------------- MODULE RingBufferProofs --------------------------
(***************************************************************************)
(* For every size of at least two and every mixture of modes, reader and   *)
(* writer of the ring buffer never own the same bin; and if the writer     *)
(* waits instead of lapping the reader, what is read is a queue of what    *)
(* was written.                                                            *)
(***************************************************************************)
EXTENDS RingBuffer, TLAPS

(* The strengthening: SameBin alone is not inductive, because next() needs *)
(* its arguments to be indices of the array.                               *)
IInv == TypeOK /\ NeverSameBin

(* Walking on from one bin never ends in the other side's bin, provided a  *)
(* bin to walk back to is not that bin: either the caller starts elsewhere *)
(* or it jumps.                                                            *)
LEMMA NextAvoids ==
    ASSUME NEW cur \in Bins, NEW other \in Bins, NEW prevent \in BOOLEAN
    PROVE  /\ next(cur, other, prevent) \in Bins
           /\ next(cur, other, prevent) # other
  BY SizeAssumption DEF next, Wrapped, Bins

(* The bin a skipping reader starts from exists. *)
LEMMA PrevFrameIsBin ==
    ASSUME previous_write \in Bins
    PROVE  PrevFrame \in Bins
  BY SizeAssumption DEF PrevFrame, Bins

LEMMA ModInRange ==
    ASSUME NEW a \in Int
    PROVE  a % size \in Bins
  BY SizeAssumption DEF Bins

LEMMA FunctionInSeq ==
    ASSUME NEW S, NEW n \in Nat, NEW f \in [1..n -> S]
    PROVE  f \in Seq(S) /\ Len(f) = n
  OBVIOUS

LEMMA AppendInSeq ==
    ASSUME NEW S, NEW q \in Seq(S), NEW e \in S
    PROVE  Append(q, e) \in Seq(S)
  OBVIOUS

LEMMA InitEstablishes == Init => IInv
  BY SizeAssumption, BoundAssumption DEF Init, IInv, TypeOK, NeverSameBin, Bins

LEMMA WriteKeeps ==
    ASSUME IInv, NEW allow_lapping \in BOOLEAN, nextWrite(allow_lapping)
    PROVE  IInv'
<1> USE DEF IInv, TypeOK, NeverSameBin
<1>1. /\ current_write' \in Bins
      /\ current_write' # current_read
  BY NextAvoids DEF nextWrite
<1>2. writes + 1 \in 1..MaxWrites
  BY BoundAssumption DEF nextWrite
<1>3. items' \in [Bins -> 0..MaxWrites]
  BY <1>2, BoundAssumption DEF nextWrite
<1>4. published' \in Seq(1..MaxWrites)
  <2>1. CASE current_write' = current_write
    BY <2>1 DEF nextWrite
  <2>2. CASE current_write' # current_write
    BY <1>2, <2>2 DEF nextWrite
  <2> QED BY <2>1, <2>2
<1>5. writes' \in 0..MaxWrites /\ previous_write' \in Bins
  BY <1>2, BoundAssumption DEF nextWrite
<1> QED BY <1>1, <1>3, <1>4, <1>5 DEF nextWrite

LEMMA ReadKeeps ==
    ASSUME IInv, NEW skip_frames \in BOOLEAN, nextRead(skip_frames)
    PROVE  IInv'
<1> USE DEF IInv, TypeOK, NeverSameBin
<1>1. (IF skip_frames THEN PrevFrame ELSE current_read) \in Bins
  BY PrevFrameIsBin
<1>2. /\ current_read' \in Bins
      /\ current_read' # current_write
  BY <1>1, NextAvoids DEF nextRead
<1>3. \A n \in Nat : items[Ahead(n)] \in 0..MaxWrites
  <2> SUFFICES ASSUME NEW n \in Nat
               PROVE  items[Ahead(n)] \in 0..MaxWrites
    OBVIOUS
  <2>1. current_read + n \in Int
    BY SizeAssumption DEF Bins
  <2>2. Ahead(n) \in Bins
    BY <2>1, ModInRange DEF Ahead
  <2> QED BY <2>2
<1>4. Distance(current_read') \in Nat
  <2>1. current_read' - current_read \in Int
    BY <1>2, SizeAssumption DEF Bins
  <2>2. (current_read' - current_read) % size \in Bins
    BY <2>1, ModInRange
  <2> QED BY <2>2, SizeAssumption DEF Distance, Bins
<1>5. passed' \in Seq(0..MaxWrites)
  <2> DEFINE taken == [n \in 1..Distance(current_read') |-> items[Ahead(n)]]
  <2>1. taken \in Seq(0..MaxWrites)
    <3>1. \A n \in 1..Distance(current_read') : items[Ahead(n)] \in 0..MaxWrites
      BY <1>3, <1>4
    <3>2. taken \in [1..Distance(current_read') -> 0..MaxWrites]
      BY <3>1
    <3> HIDE DEF taken
    <3> QED BY <3>2, <1>4, FunctionInSeq
  <2>2. passed' = passed \o taken
    BY DEF nextRead
  <2> QED BY <2>1, <2>2
<1> QED BY <1>2, <1>5 DEF nextRead

LEMMA Inductive == Spec => []IInv
<1>1. IInv /\ [Next]_vars => IInv'
  <2> SUFFICES ASSUME IInv, [Next]_vars
               PROVE  IInv'
    OBVIOUS
  <2>1. CASE UNCHANGED vars
    BY <2>1 DEF IInv, TypeOK, NeverSameBin, vars
  <2>2. CASE \E allow_lapping \in WriteModes : nextWrite(allow_lapping)
    BY <2>2, WriteKeeps, ModeAssumption
  <2>3. CASE \E skip_frames \in ReadModes : nextRead(skip_frames)
    BY <2>3, ReadKeeps, ModeAssumption
  <2> QED BY <2>1, <2>2, <2>3 DEF Next
<1> QED BY <1>1, InitEstablishes, PTL DEF Spec

(* The reader and the writer never have the same bin, in any mode and with *)
(* any number of bins (ringbuffer.h, the first promise of the class).      *)
THEOREM ReaderAndWriterApart == Spec => []NeverSameBin
<1>1. IInv => NeverSameBin
  BY DEF IInv
<1> QED BY <1>1, Inductive, PTL

-----------------------------------------------------------------------------
(* Walking round the ring: the two expressions with % without it. *)

LEMMA ModBelow == ASSUME NEW x \in Int, 0 <= x, x < size PROVE x % size = x
BY SizeAssumption

LEMMA ModNegative == ASSUME NEW x \in Int, -size <= x, x < 0 PROVE x % size = x + size
BY SizeAssumption

LEMMA ModAbove == ASSUME NEW x \in Int, size <= x, x < 2 * size PROVE x % size = x - size
BY SizeAssumption

Gap(a, b) == IF b >= a THEN b - a ELSE b - a + size
Onward(a, n) == IF a + n < size THEN a + n ELSE a + n - size

LEMMA GapIs == ASSUME NEW a \in Bins, NEW b \in Bins PROVE (b - a) % size = Gap(a, b)
<1>1. size \in Int /\ a \in 0..(size - 1) /\ b \in 0..(size - 1)
  BY SizeAssumption DEF Bins
<1>2. PICK x \in Int : x = b - a BY <1>1
<1>3. b >= a => 0 <= x /\ x < size BY <1>1, <1>2
<1>4. ~(b >= a) => -size <= x /\ x < 0 BY <1>1, <1>2
<1>5. x % size = IF b >= a THEN x ELSE x + size
  BY <1>3, <1>4, ModBelow, ModNegative
<1>. QED BY <1>1, <1>2, <1>5 DEF Gap

LEMMA OnwardIs == ASSUME NEW a \in Bins, NEW n \in 0..size PROVE (a + n) % size = Onward(a, n)
<1>1. size \in Int /\ a \in 0..(size - 1) /\ n \in 0..size
  BY SizeAssumption DEF Bins
<1>2. PICK x \in Int : x = a + n BY <1>1
<1>3. x < size => 0 <= x BY <1>1, <1>2
<1>4. ~(x < size) => size <= x /\ x < 2 * size BY <1>1, <1>2
<1>5. x % size = IF x < size THEN x ELSE x - size
  BY <1>3, <1>4, ModBelow, ModAbove
<1>. QED BY <1>1, <1>2, <1>5 DEF Onward

(* Having gone e of the d bins to b, everything is e nearer. *)
LEMMA NearerByGap ==
    ASSUME NEW a \in Bins, NEW b \in Bins, NEW c \in Bins, Gap(a, c) < Gap(a, b)
    PROVE  /\ Gap(c, b) = Gap(a, b) - Gap(a, c)
           /\ \A n \in 1..(Gap(a, b) - Gap(a, c)) : Onward(c, n) = Onward(a, Gap(a, c) + n)
BY SizeAssumption DEF Bins, Gap, Onward

LEMMA DistanceIs ==
    ASSUME current_read \in Bins, NEW b \in Bins
    PROVE  Distance(b) = Gap(current_read, b)
BY GapIs DEF Distance

LEMMA AheadIs ==
    ASSUME current_read \in Bins, NEW n \in 0..size
    PROVE  Ahead(n) = Onward(current_read, n)
BY OnwardIs DEF Ahead

(* The bin before and the bin after. *)
Back(b) == IF b = 0 THEN size - 1 ELSE b - 1

LEMMA RingFacts ==
    ASSUME NEW b \in Bins
    PROVE  /\ Back(b) \in Bins /\ Wrapped(b + 1) \in Bins
           /\ Back(b) # b /\ Wrapped(b + 1) # b
           /\ Wrapped(Back(b) + 1) = b /\ Back(Wrapped(b + 1)) = b
BY SizeAssumption DEF Bins, Back, Wrapped

-----------------------------------------------------------------------------
(* A writer that waits (its one mode is TRUE) behind the reader. *)

(* It has just left the bin before its own, or waited in its own; every bin *)
(* but its own is no newer than the one before it.                          *)
JustBehind ==
    /\ previous_write \in {current_write, Back(current_write)}
    /\ \A b \in Bins \ {current_write} : items[b] <= items[Back(current_write)]
    /\ \A b \in Bins : items[b] <= writes

LEMMA WriterWaits ==
    ASSUME IInv, nextWrite(TRUE)
    PROVE  \/ /\ Wrapped(current_write + 1) = current_read
              /\ current_write' = current_write
           \/ /\ Wrapped(current_write + 1) # current_read
              /\ current_write' = Wrapped(current_write + 1)
BY DEF nextWrite, next

(* A skipping reader ends up right behind the writer. *)
LEMMA SkipEndsBehind ==
    ASSUME IInv, JustBehind, nextRead(TRUE)
    PROVE  current_read' = Back(current_write)
<1>1. current_read' = next(PrevFrame, current_write, TRUE) /\ PrevFrame = Back(previous_write)
  BY DEF nextRead, PrevFrame, Back
<1>2. previous_write \in Bins /\ current_write \in Bins
  BY DEF IInv, TypeOK
<1>3. current_read' = IF previous_write # current_write THEN previous_write
                      ELSE Back(previous_write)
  BY <1>1, <1>2, RingFacts DEF next
<1>. QED BY <1>2, <1>3, RingFacts DEF JustBehind

LEMMA JustBehindStep ==
    ASSUME IInv, JustBehind, nextWrite(TRUE) \/ (\E skip \in BOOLEAN : nextRead(skip))
    PROVE  JustBehind'
<1>1. current_write \in Bins /\ items \in [Bins -> 0..MaxWrites] /\ writes \in Nat
      /\ \A b \in Bins : items[b] \in Nat
  BY BoundAssumption DEF IInv, TypeOK
<1>2. CASE nextWrite(TRUE)
  <2>1. /\ items' = [items EXCEPT ![current_write] = writes + 1] /\ writes' = writes + 1
        /\ previous_write' = current_write
    BY <1>2 DEF nextWrite
  <2>2. \A b \in Bins : items'[b] <= writes'
    BY <1>1, <2>1 DEF JustBehind
  <2>3. CASE current_write' = current_write
    <3>1. \A b \in Bins \ {current_write} : items'[b] = items[b] BY <1>1, <2>1
    <3>2. \A b \in Bins \ {current_write} : items'[b] <= items'[Back(current_write)]
      BY <1>1, <3>1, RingFacts DEF JustBehind
    <3>. QED BY <2>1, <2>2, <2>3, <3>2 DEF JustBehind
  <2>4. CASE current_write' = Wrapped(current_write + 1)
    <3>1. Back(current_write') = current_write BY <1>1, <2>4, RingFacts
    <3>2. items'[current_write] = writes' BY <1>1, <2>1
    <3>3. \A b \in Bins \ {current_write'} : items'[b] <= items'[Back(current_write')]
      BY <2>2, <3>1, <3>2
    <3>4. previous_write' = Back(current_write') BY <2>1, <3>1
    <3>. QED BY <2>2, <3>3, <3>4 DEF JustBehind, Back
  <2>. QED BY <1>2, <2>3, <2>4, WriterWaits
<1>3. CASE \E skip \in BOOLEAN : nextRead(skip)
  BY <1>3 DEF nextRead, JustBehind, Back
<1>. QED BY <1>2, <1>3

-----------------------------------------------------------------------------
(* The items in the bins from the reader to the writer. *)

Between == [n \in 1..(Distance(current_write) - 1) |-> items[Ahead(n)]]
Taken == [n \in 1..Distance(current_read') |-> items[Ahead(n)]]

LEMMA BinNumbers ==
    ASSUME IInv
    PROVE  /\ Distance(current_write) \in 1..(size - 1)
           /\ \A n \in 0..size : Ahead(n) \in Bins
           /\ Ahead(Distance(current_write)) = current_write
           /\ \A n \in 1..(Distance(current_write) - 1) : Ahead(n) # current_write
<1>1. /\ size \in Int /\ size >= 2
      /\ current_read \in 0..(size - 1) /\ current_write \in 0..(size - 1)
      /\ current_read # current_write
  BY SizeAssumption DEF IInv, TypeOK, NeverSameBin, Bins
<1>2. Distance(current_write) = IF current_write >= current_read
                                THEN current_write - current_read
                                ELSE current_write - current_read + size
  BY DistanceIs DEF IInv, TypeOK, Gap
<1>3. \A n \in 0..size : Ahead(n) = IF current_read + n < size THEN current_read + n
                                     ELSE current_read + n - size
  BY AheadIs DEF IInv, TypeOK, Onward
<1> HIDE DEF Bins
<1>4. Distance(current_write) \in 1..(size - 1) BY <1>1, <1>2
<1>5. \A n \in 0..size : Ahead(n) \in 0..(size - 1) BY <1>1, <1>3
<1>6. Ahead(Distance(current_write)) = current_write BY <1>1, <1>2, <1>3, <1>4
<1>7. ASSUME NEW n \in 1..(Distance(current_write) - 1) PROVE Ahead(n) # current_write
  BY <1>1, <1>2, <1>3, <1>4
<1>. QED BY <1>4, <1>5, <1>6, <1>7 DEF Bins

LEMMA Concatenation ==
    ASSUME NEW S, NEW p \in Seq(S), NEW f \in Seq(S)
    PROVE  /\ p \o f \in Seq(S) /\ Len(p \o f) = Len(p) + Len(f)
           /\ \A i \in 1..Len(p) : (p \o f)[i] = p[i]
           /\ \A i \in 1..Len(f) : (p \o f)[Len(p) + i] = f[i]
OBVIOUS

LEMMA SameSequence ==
    ASSUME NEW S, NEW p \in Seq(S), NEW q \in Seq(S), Len(p) = Len(q),
           \A i \in 1..Len(p) : p[i] = q[i]
    PROVE  p = q
OBVIOUS

(* g is f and then h. *)
SplitsInto(g, f, h) ==
    /\ Len(g) = Len(f) + Len(h)
    /\ \A i \in 1..Len(f) : g[i] = f[i]
    /\ \A i \in 1..Len(h) : g[Len(f) + i] = h[i]

(* To have read f and then h is to have read g. *)
SameInTwo(p, g, f, h) == p \o g = (p \o f) \o h

Items == 0..MaxWrites

LEMMA SplitPart ==
    ASSUME NEW p \in Seq(Items), NEW f \in Seq(Items), NEW g \in Seq(Items),
           NEW h \in Seq(Items), SplitsInto(g, f, h)
    PROVE  SameInTwo(p, g, f, h)
<1>0. /\ Len(g) = Len(f) + Len(h) /\ \A i \in 1..Len(f) : g[i] = f[i]
      /\ \A i \in 1..Len(h) : g[Len(f) + i] = h[i]
  BY DEF SplitsInto
<1>1. f \o h \in Seq(Items) /\ Len(f \o h) = Len(g) BY <1>0, Concatenation
<1>2. ASSUME NEW i \in 1..Len(g) PROVE g[i] = (f \o h)[i]
  <2>1. CASE i \in 1..Len(f) BY <1>0, <2>1, Concatenation
  <2>2. CASE i \notin 1..Len(f)
    <3>1. PICK j \in 1..Len(h) : i = Len(f) + j
      <4>1. i - Len(f) \in 1..Len(h) /\ i = Len(f) + (i - Len(f)) BY <1>0, <2>2
      <4>. QED BY <4>1
    <3>2. (f \o h)[Len(f) + j] = h[j] /\ g[Len(f) + j] = h[j] BY <1>0, Concatenation
    <3>. QED BY <3>1, <3>2
  <2>. QED BY <2>1, <2>2
<1>3. g = f \o h BY <1>1, <1>2, SameSequence
<1>. QED BY <1>3 DEF SameInTwo

(* g is f with x behind it. *)
GrowsBy(g, f, x) ==
    /\ Len(g) = Len(f) + 1
    /\ \A i \in 1..Len(f) : g[i] = f[i]
    /\ g[Len(f) + 1] = x

(* To append x to all of p and f is to have f grow to g. *)
SameAppended(p, f, g, x) == Append(p \o f, x) = p \o g

LEMMA AppendToPart ==
    ASSUME NEW p \in Seq(Items), NEW f \in Seq(Items), NEW g \in Seq(Items),
           NEW x \in Items, GrowsBy(g, f, x)
    PROVE  SameAppended(p, f, g, x)
<1>0. /\ Len(g) = Len(f) + 1 /\ \A i \in 1..Len(f) : g[i] = f[i]
      /\ g[Len(f) + 1] = x
  BY DEF GrowsBy
<1>1. g = Append(f, x)
  <2>1. Append(f, x) \in Seq(Items) /\ Len(Append(f, x)) = Len(f) + 1
    OBVIOUS
  <2>2. ASSUME NEW i \in 1..Len(g) PROVE g[i] = Append(f, x)[i]
    <3>1. CASE i = Len(f) + 1 BY <1>0, <3>1
    <3>2. CASE i # Len(f) + 1 BY <1>0, <3>2
    <3>. QED BY <3>1, <3>2
  <2>3. PICK k \in Seq(Items) : k = Append(f, x) BY <2>1
  <2>4. Len(g) = Len(k) /\ \A i \in 1..Len(g) : g[i] = k[i] BY <1>0, <2>1, <2>2, <2>3
  <2>5. g = k BY <2>4, SameSequence
  <2>. QED BY <2>3, <2>5
<1>2. Append(p \o f, x) = p \o Append(f, x)
  OBVIOUS
<1>. QED BY <1>1, <1>2 DEF SameAppended

LEMMA PartsAreSequences ==
    ASSUME IInv
    PROVE  /\ Between \in Seq(0..MaxWrites) /\ Len(Between) = Distance(current_write) - 1
           /\ \A n \in 1..(Distance(current_write) - 1) : Between[n] = items[Ahead(n)]
<1>1. Distance(current_write) \in 1..(size - 1) /\ size \in Nat
  BY BinNumbers, SizeAssumption
<1>2. \A n \in 1..(Distance(current_write) - 1) : items[Ahead(n)] \in 0..MaxWrites
  <2>1. \A n \in 1..(Distance(current_write) - 1) : n \in 0..size BY <1>1
  <2>. QED BY <2>1, BinNumbers DEF IInv, TypeOK
<1>3. PICK m \in Nat : m = Distance(current_write) - 1 BY <1>1
<1>4. Between \in [1..m -> 0..MaxWrites] /\ \A n \in 1..m : Between[n] = items[Ahead(n)]
  BY <1>2, <1>3 DEF Between
<1>5. Between \in Seq(0..MaxWrites) /\ Len(Between) = m
  BY <1>4, FunctionInSeq
<1>. QED BY <1>3, <1>4, <1>5

LEMMA QueueAfterWrite ==
    ASSUME IInv, QueueOfPublished, nextWrite(TRUE), IInv'
    PROVE  QueueOfPublished'
<1> DEFINE d == Distance(current_write)
<1>1. /\ published = passed \o Between
      /\ passed' = passed /\ current_read' = current_read
      /\ items' = [items EXCEPT ![current_write] = writes + 1]
      /\ current_write \in Bins
  BY DEF QueueOfPublished, Between, nextWrite, IInv, TypeOK
<1>2. \A n : Ahead(n)' = Ahead(n) BY <1>1 DEF Ahead
<1>3. d \in 1..(size - 1) /\ size \in Nat BY BinNumbers, SizeAssumption
<1>4. \A n \in 1..(d - 1) : items'[Ahead(n)] = items[Ahead(n)]
  <2>1. \A n \in 1..(d - 1) : n \in 0..size BY <1>3
  <2>. QED BY <1>1, <2>1, BinNumbers DEF IInv, TypeOK
<1>5. CASE current_write' = current_write
  <2>1. published' = published BY <1>5 DEF nextWrite
  <2>2. Distance(current_write)' = d BY <1>1, <1>5 DEF Distance
  <2>3. Between' = Between BY <1>2, <1>4, <2>2 DEF Between
  <2>. QED BY <1>1, <2>1, <2>3 DEF QueueOfPublished, Between
<1>6. CASE /\ Wrapped(current_write + 1) # current_read
           /\ current_write' = Wrapped(current_write + 1)
  <2>1. current_write' # current_write BY <1>1, <1>6, RingFacts
  <2>2. published' = Append(published, writes + 1) BY <2>1 DEF nextWrite
  <2>3. Distance(current_write)' = d + 1
    <3>1. Distance(current_write)' = Distance(Wrapped(current_write + 1))
      BY <1>1, <1>6 DEF Distance
    <3>2. /\ size \in Int /\ size >= 2
          /\ current_read \in 0..(size - 1) /\ current_write \in 0..(size - 1)
          /\ current_read # current_write
      BY SizeAssumption DEF IInv, TypeOK, NeverSameBin, Bins
    <3>3. /\ d = IF current_write >= current_read THEN current_write - current_read
                 ELSE current_write - current_read + size
          /\ Distance(Wrapped(current_write + 1)) =
               IF Wrapped(current_write + 1) >= current_read
               THEN Wrapped(current_write + 1) - current_read
               ELSE Wrapped(current_write + 1) - current_read + size
      BY <1>1, DistanceIs, RingFacts DEF IInv, TypeOK, Gap
    <3> HIDE DEF d
    <3>. QED BY <1>6, <3>1, <3>2, <3>3 DEF Wrapped
  <2>4. /\ Between \in Seq(0..MaxWrites) /\ Len(Between) = d - 1
        /\ \A n \in 1..(d - 1) : Between[n] = items[Ahead(n)]
    BY PartsAreSequences
  <2>5. /\ Between' \in Seq(0..MaxWrites) /\ Len(Between') = d
        /\ \A n \in 1..d : Between'[n] = items'[Ahead(n)]
    <3>1. \A n \in 1..d : Between'[n] = items'[Ahead(n)]
      BY <1>2, <1>3, <2>3 DEF Between
    <3>2. Between' = [n \in 1..d |-> items'[Ahead(n)]]
      BY <1>2, <1>3, <2>3 DEF Between
    <3>3. \A n \in 1..d : items'[Ahead(n)] \in 0..MaxWrites
      <4>1. \A n \in 1..d : n \in 0..size BY <1>3
      <4>. QED BY <4>1, BinNumbers DEF IInv, TypeOK
    <3>4. Between' \in [1..d -> 0..MaxWrites] BY <3>2, <3>3
    <3>5. d \in Nat BY <1>3
    <3> HIDE DEF d
    <3>. QED BY <3>1, <3>4, <3>5, FunctionInSeq
  <2>6. items'[Ahead(d)] = writes + 1
    BY <1>1, BinNumbers DEF IInv, TypeOK
  <2>7. writes + 1 \in 0..MaxWrites
    BY BoundAssumption DEF nextWrite, IInv, TypeOK
  <2>8. passed \in Seq(0..MaxWrites) BY DEF IInv, TypeOK
  <2> HIDE DEF d
  <2>9. /\ Len(Between') = Len(Between) + 1
        /\ \A i \in 1..Len(Between) : Between'[i] = Between[i]
        /\ Between'[Len(Between) + 1] = writes + 1
    <3>1. Len(Between) = d - 1 /\ Len(Between') = d /\ (d - 1) + 1 = d
      BY <1>3, <2>4, <2>5
    <3>2. d \in 1..d BY <1>3
    <3>3. Between'[d] = writes + 1 BY <3>2, <2>5, <2>6
    <3>4. ASSUME NEW n \in 1..(d - 1) PROVE Between'[n] = Between[n]
      <4>1. n \in 1..d BY <1>3
      <4>2. items'[Ahead(n)] = items[Ahead(n)] BY <1>4
      <4>. QED BY <4>1, <4>2, <2>4, <2>5
    <3>. QED BY <3>1, <3>3, <3>4
  <2>10. Append(passed \o Between, writes + 1) = passed \o Between'
    <3>1. passed \in Seq(Items) /\ writes + 1 \in Items BY <2>7, <2>8 DEF Items
    <3>2. PICK f \in Seq(Items), g \in Seq(Items) : f = Between /\ g = Between'
      BY <2>4, <2>5 DEF Items
    <3>3. GrowsBy(g, f, writes + 1) BY <2>9, <3>2 DEF GrowsBy
    <3>4. SameAppended(passed, f, g, writes + 1) BY <3>1, <3>3, AppendToPart
    <3>. QED BY <3>2, <3>4 DEF SameAppended
  <2>. QED BY <1>1, <2>2, <2>10 DEF QueueOfPublished, Between
<1>. QED BY <1>5, <1>6, WriterWaits

(* Where a reader may go, behind a writer that waits: nowhere, one bin on, *)
(* or right behind the writer; never past it.                              *)
LEMMA ReaderStaysBehind ==
    ASSUME IInv, JustBehind, NEW skip \in BOOLEAN, nextRead(skip), IInv'
    PROVE  Distance(current_read') \in 0..(Distance(current_write) - 1)
<1>1. /\ size \in Int /\ size >= 2
      /\ current_read \in 0..(size - 1) /\ current_write \in 0..(size - 1)
      /\ current_read # current_write
      /\ current_read \in Bins /\ current_write \in Bins /\ current_read' \in Bins
  BY SizeAssumption DEF IInv, TypeOK, NeverSameBin, Bins
<1>2. \/ current_read' = Back(current_write)
      \/ current_read' = current_read
      \/ current_read' = Wrapped(current_read + 1) /\ current_read' # current_write
  <2>1. CASE skip BY <2>1, SkipEndsBehind
  <2>2. CASE ~skip BY <2>2 DEF nextRead, next
  <2>. QED BY <2>1, <2>2
<1>3. /\ Distance(current_write) = IF current_write >= current_read
                                   THEN current_write - current_read
                                   ELSE current_write - current_read + size
      /\ Distance(current_read') = IF current_read' >= current_read
                                   THEN current_read' - current_read
                                   ELSE current_read' - current_read + size
  BY <1>1, DistanceIs DEF Gap
<1>4. CASE current_read' = Back(current_write)
  BY <1>1, <1>3, <1>4 DEF Back
<1>5. CASE current_read' = current_read
  BY <1>1, <1>3, <1>5
<1>6. CASE current_read' = Wrapped(current_read + 1) /\ current_read' # current_write
  BY <1>1, <1>3, <1>6 DEF Wrapped
<1>. QED BY <1>2, <1>4, <1>5, <1>6

(* Seen from its new place, everything is as much nearer as it has gone. *)
LEMMA AllIsNearer ==
    ASSUME IInv, IInv', current_write' = current_write,
           NEW e \in Int, e = Distance(current_read'),
           NEW d \in Int, d = Distance(current_write), e \in 0..(d - 1)
    PROVE  /\ Distance(current_write)' = d - e
           /\ \A n \in 1..(d - e) : Ahead(n)' = Ahead(e + n)
<1>1. PICK a \in Bins, b \in Bins, c \in Bins :
         a = current_read /\ b = current_write /\ c = current_read'
  BY DEF IInv, TypeOK
<1>2. e = Gap(a, c) /\ d = Gap(a, b) BY <1>1, DistanceIs
<1>3. Distance(current_write)' = Gap(c, b) BY <1>1, GapIs DEF Distance
<1>4. /\ Gap(c, b) = d - e
      /\ \A n \in 1..(d - e) : Onward(c, n) = Onward(a, e + n)
  <2>1. Gap(a, c) < Gap(a, b) BY <1>2
  <2>. QED BY <1>2, <2>1, NearerByGap
<1>5. ASSUME NEW n \in 1..(d - e) PROVE Ahead(n)' = Ahead(e + n)
  <2>1. size \in Nat /\ d \in 1..(size - 1) BY SizeAssumption, BinNumbers
  <2>2. n \in 0..size /\ e + n \in 0..size BY <1>5, <2>1
  <2>3. Ahead(n)' = Onward(c, n) BY <1>1, <2>2, OnwardIs DEF Ahead
  <2>4. Ahead(e + n) = Onward(a, e + n) BY <1>1, <2>2, AheadIs
  <2>. QED BY <1>4, <2>3, <2>4
<1>. QED BY <1>3, <1>4, <1>5

LEMMA QueueAfterRead ==
    ASSUME IInv, JustBehind, QueueOfPublished, NEW skip \in BOOLEAN, nextRead(skip), IInv'
    PROVE  QueueOfPublished'
<1>1. /\ published = passed \o Between /\ published' = published
      /\ passed' = passed \o Taken
      /\ items' = items /\ current_write' = current_write
  BY DEF QueueOfPublished, Between, Taken, nextRead
<1>2. PICK d \in Int : d = Distance(current_write) BY BinNumbers
<1>3. PICK e \in Int : e = Distance(current_read') BY ReaderStaysBehind
<1>4. /\ size \in Nat /\ d \in 1..(size - 1) /\ e \in 0..(d - 1)
  BY <1>2, <1>3, BinNumbers, ReaderStaysBehind, SizeAssumption
<1>5. /\ Distance(current_write)' = d - e
      /\ \A n \in 1..(d - e) : Ahead(n)' = Ahead(e + n)
  BY <1>1, <1>2, <1>3, <1>4, AllIsNearer
<1>6. \A n \in 0..size : items[Ahead(n)] \in 0..MaxWrites
  BY BinNumbers DEF IInv, TypeOK
<1>7. /\ Between \in Seq(0..MaxWrites) /\ Len(Between) = d - 1
      /\ \A n \in 1..(d - 1) : Between[n] = items[Ahead(n)]
  BY <1>2, PartsAreSequences
<1>8. /\ Taken \in Seq(0..MaxWrites) /\ Len(Taken) = e
      /\ \A n \in 1..e : Taken[n] = items[Ahead(n)]
  <2>1. \A n \in 1..e : Taken[n] = items[Ahead(n)] BY <1>3 DEF Taken
  <2>2. \A n \in 1..e : items[Ahead(n)] \in 0..MaxWrites
    <3>1. \A n \in 1..e : n \in 0..size BY <1>4
    <3>. QED BY <1>6, <3>1
  <2>3. Taken = [n \in 1..e |-> items[Ahead(n)]] BY <1>3 DEF Taken
  <2>4. Taken \in [1..e -> 0..MaxWrites] BY <2>2, <2>3
  <2>5. e \in Nat BY <1>4
  <2>6. Taken \in Seq(0..MaxWrites) /\ Len(Taken) = e BY <2>4, <2>5, FunctionInSeq
  <2>. QED BY <2>1, <2>6
<1>9. /\ Between' \in Seq(0..MaxWrites) /\ Len(Between') = d - e - 1
      /\ \A n \in 1..(d - e - 1) : Between'[n] = items[Ahead(e + n)]
  <2>1. PICK m \in Nat : m = d - e - 1 BY <1>4
  <2>2. Between' = [n \in 1..m |-> items'[Ahead(n)']]
    BY <1>5, <2>1 DEF Between
  <2>3. \A n \in 1..m : Ahead(n)' = Ahead(e + n) /\ e + n \in 0..size
    BY <1>4, <1>5, <2>1
  <2>4. \A n \in 1..m : Between'[n] = items[Ahead(e + n)] BY <1>1, <2>2, <2>3
  <2>5. \A n \in 1..m : items'[Ahead(n)'] \in 0..MaxWrites BY <1>1, <1>6, <2>3
  <2>6. Between' \in [1..m -> 0..MaxWrites] BY <2>2, <2>5
  <2>. QED BY <2>1, <2>4, <2>6, FunctionInSeq
<1>10. /\ Len(Between) = Len(Taken) + Len(Between')
       /\ \A i \in 1..Len(Taken) : Between[i] = Taken[i]
       /\ \A i \in 1..Len(Between') : Between[Len(Taken) + i] = Between'[i]
  BY <1>4, <1>7, <1>8, <1>9
<1>11. passed \o Between = (passed \o Taken) \o Between'
  <2>1. passed \in Seq(Items) BY DEF IInv, TypeOK, Items
  <2>2. PICK f \in Seq(Items), g \in Seq(Items), h \in Seq(Items) :
           f = Taken /\ g = Between /\ h = Between'
    BY <1>7, <1>8, <1>9 DEF Items
  <2>3. SplitsInto(g, f, h) BY <1>10, <2>2 DEF SplitsInto
  <2>4. SameInTwo(passed, g, f, h) BY <2>1, <2>3, SplitPart
  <2>. QED BY <2>2, <2>4 DEF SameInTwo
<1>. QED BY <1>1, <1>11 DEF QueueOfPublished, Between

LEMMA QueueStep ==
    ASSUME WriteModes \subseteq {TRUE},
           IInv, JustBehind, QueueOfPublished, [Next]_vars, IInv'
    PROVE  JustBehind' /\ QueueOfPublished'
<1>1. CASE UNCHANGED vars
  <2>1. QueueOfPublished' BY <1>1 DEF vars, QueueOfPublished, Distance, Ahead
  <2>2. JustBehind' BY <1>1 DEF vars, JustBehind, Back
  <2>. QED BY <2>1, <2>2
<1>2. CASE \E allow_lapping \in WriteModes : nextWrite(allow_lapping)
  <2>1. nextWrite(TRUE) BY <1>2
  <2>. QED BY <2>1, JustBehindStep, QueueAfterWrite
<1>3. CASE \E skip \in ReadModes : nextRead(skip)
  <2>1. PICK skip \in BOOLEAN : nextRead(skip) BY <1>3, ModeAssumption
  <2>. QED BY <2>1, JustBehindStep, QueueAfterRead
<1>. QED BY <1>1, <1>2, <1>3 DEF Next

LEMMA QueueInit == Init => JustBehind /\ QueueOfPublished
<1>. SUFFICES ASSUME Init PROVE JustBehind /\ QueueOfPublished
  OBVIOUS
<1>1. /\ size \in Nat /\ size >= 2 /\ current_read = 0 /\ current_write = 1
      /\ previous_write = 0 /\ writes = 0 /\ published = <<>> /\ passed = <<>>
      /\ \A b \in Bins : items[b] = 0
      /\ 0 \in Bins /\ 1 \in Bins
  BY SizeAssumption DEF Init, Bins
<1>2. JustBehind BY <1>1 DEF JustBehind, Back
<1>3. Distance(current_write) = 1 BY <1>1, DistanceIs DEF Gap
<1>4. [n \in 1..(Distance(current_write) - 1) |-> items[Ahead(n)]] = <<>>
  <2>1. 1..(Distance(current_write) - 1) = {} BY <1>3
  <2>. QED BY <2>1
<1>5. QueueOfPublished BY <1>1, <1>4 DEF QueueOfPublished
<1>. QED BY <1>2, <1>5

(* With a writer that waits behind the reader the buffer is a queue, for    *)
(* every size and whatever the reader's modes: what the writer moved on     *)
(* from is what the reader passed, in order, and then what lies between.    *)
(* The mode is the caller's choice: TRUE makes the code of nextWrite wait.  *)
THEOREM WaitingWriterMakesQueue ==
    ASSUME WriteModes \subseteq {TRUE}
    PROVE  Spec => []QueueOfPublished
<1>1. IInv /\ JustBehind /\ QueueOfPublished /\ [Next]_vars /\ IInv'
        => JustBehind' /\ QueueOfPublished'
  BY QueueStep
<1>. QED BY <1>1, QueueInit, Inductive, PTL DEF Spec

(* And a reader that skips gets the newest item there is outside the bin    *)
(* the writer has taken back.                                               *)
THEOREM SkippingReadsTheNewest ==
    ASSUME WriteModes \subseteq {TRUE}
    PROVE  Spec => SkipReadsNewest
<1>1. IInv /\ JustBehind /\ QueueOfPublished /\ [Next]_vars /\ IInv'
        => JustBehind' /\ QueueOfPublished'
  BY QueueStep
<1>2. IInv /\ JustBehind /\ nextRead(TRUE)
        => \A b \in Bins \ {current_write} : items[b] <= items[current_read']
  BY SkipEndsBehind DEF JustBehind
<1>. QED BY <1>1, <1>2, QueueInit, Inductive, PTL DEF Spec, SkipReadsNewest

=============================================================================
