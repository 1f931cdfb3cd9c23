----------------------------- MODULE RingBuffer -----------------------------
(***************************************************************************)
(* macsCommon's RingBuffer<ITEM>: one writer and one reader walk round an  *)
(* array of bins.  nextWrite and nextRead are atomic (mutex); between them *)
(* each side owns the bin it was given.  A bin's content is abstracted to  *)
(* the number of the write that completed it.                              *)
(*                                                                         *)
(* No code in the repository uses the class, so both arguments are left to *)
(* the user of this module: WriteModes are the values of allow_lapping,    *)
(* ReadModes those of skip_frames.                                         *)
(***************************************************************************)
EXTENDS Integers, Sequences

CONSTANTS size, WriteModes, ReadModes,
          MaxWrites   \* Bound: items written.

(* The constructor's note: _size needs to be at least 2. *)
ASSUME SizeAssumption == size \in Nat /\ size >= 2
ASSUME ModeAssumption == WriteModes \subseteq BOOLEAN /\ ReadModes \subseteq BOOLEAN
ASSUME BoundAssumption == MaxWrites \in Nat

VARIABLES
    current_read, current_write, previous_write,
    items,       \* Number of the write that completed each bin; 0: none.
    writes,      \* Items written.
    published,   \* History: items of the bins the writer has moved on from.
    passed       \* History: items of the bins the reader has moved on to or over.

vars == <<current_read, current_write, previous_write, items, writes,
          published, passed>>

Bins == 0..(size - 1)

Init ==
    /\ current_read = 0
    /\ previous_write = 0
    /\ current_write = 1
    /\ items = [b \in Bins |-> 0]
    /\ writes = 0
    /\ published = <<>> /\ passed = <<>>

Wrapped(idx) == IF idx >= size THEN 0 ELSE idx

nextIgnoringOther(cur_idx, not_avail, preventLap) == Wrapped(cur_idx + 1)

next(cur_idx, not_avail, preventLap) ==
    LET idx == Wrapped(cur_idx + 1) IN
    IF idx # not_avail THEN idx
    ELSE IF preventLap THEN cur_idx
    ELSE Wrapped(idx + 1)

(* The writer has filled its bin and asks for the next one. *)
nextWrite(allow_lapping) ==
    /\ writes < MaxWrites
    /\ writes' = writes + 1
    /\ items' = [items EXCEPT ![current_write] = writes + 1]
    /\ previous_write' = current_write
    /\ current_write' = next(current_write, current_read, allow_lapping)
    /\ published' = IF current_write' = current_write THEN published
                    ELSE Append(published, writes + 1)
    /\ UNCHANGED <<current_read, passed>>

PrevFrameAtWrite == previous_write

(* Lines 157-162: the bin before the one written last. *)
PrevFrame == IF previous_write = 0 THEN size - 1 ELSE previous_write - 1

(* The n-th bin after the reader's, and how many there are up to a bin. *)
Ahead(n) == (current_read + n) % size
Distance(bin) == (bin - current_read) % size

nextRead(skip_frames) ==
    /\ current_read' = next(IF skip_frames THEN PrevFrame ELSE current_read,
                            current_write, TRUE)
    /\ passed' = passed \o [n \in 1..Distance(current_read') |-> items[Ahead(n)]]
    /\ UNCHANGED <<current_write, previous_write, items, writes, published>>

Next ==
    \/ \E allow_lapping \in WriteModes : nextWrite(allow_lapping)
    \/ \E skip_frames \in ReadModes : nextRead(skip_frames)

Spec == Init /\ [][Next]_vars

-----------------------------------------------------------------------------
(* Properties. *)

(* Indices stay within the array, whatever the modes. *)
TypeOK ==
    /\ current_read \in Bins /\ current_write \in Bins /\ previous_write \in Bins
    /\ items \in [Bins -> 0..MaxWrites]
    /\ writes \in 0..MaxWrites
    /\ published \in Seq(1..MaxWrites)
    /\ passed \in Seq(0..MaxWrites)

(* The class promises that "the reader and the writer will NEVER access the *)
(* same bin at the same time".  It keeps that, in the modes given.  (A run  *)
(* with a writer that waits; RingBufferProofs has every mixture of modes.)  *)
NeverSameBin == current_read # current_write

(* With skip_frames the bin returned is the newest one completed, except for *)
(* the bin the writer has taken back.  Holds for a writer that waits behind  *)
(* the reader; one that waits after having jumped over it breaks it.         *)
SkipReadsNewest ==
    [][nextRead(TRUE)
         => \A b \in Bins \ {current_write} : items[b] <= items[current_read']]_vars

(* With a writer that waits behind the reader the buffer is a queue, however *)
(* the reader mixes its two modes: the items the writer moved on from are    *)
(* those the reader took or skipped, in order and once each, and then those  *)
(* in the bins from the reader to the writer.  Nothing is skipped unasked,   *)
(* read twice, or read after something newer.                                *)
QueueOfPublished ==
    published = passed \o [n \in 1..(Distance(current_write) - 1) |-> items[Ahead(n)]]

=============================================================================
