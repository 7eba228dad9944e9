------------------------------ MODULE RxQueue -------------------------------
(***************************************************************************)
(* RxQueue<N> of src/hal/src/rx_queue.rs: the ring that carries received   *)
(* bytes from the UART interrupt handler (push) to thread mode (pop).      *)
(* Every access runs in a critical section, so each call is one action.    *)
(*                                                                         *)
(* head and tail run freely over IndexMod values (65536 in the code, a     *)
(* u16) and are masked to a slot only when the buffer is touched.  Three   *)
(* history variables say what went by; no guard of the code reads them,    *)
(* only the bound MaxSent does.                                            *)
(***************************************************************************)
EXTENDS Integers, Sequences

CONSTANTS Byte,       \* the bytes
          Zero,       \* the byte new() fills the buffer with
          N,          \* the capacity
          IndexMod,   \* the number of values an index has: 2^16
          DropMax,    \* the largest value of the tally: 255
          MaxSent     \* bound: how many bytes the wire delivers

\* VALID: a power of two of at most 256 slots divides the 2^16 index values
\* and is smaller than their number.
ASSUME CapacityAssumption ==
    /\ N \in Nat \ {0}
    /\ IndexMod \in Nat
    /\ N < IndexMod
    /\ IndexMod % N = 0

ASSUME DataAssumption ==
    /\ Zero \in Byte
    /\ DropMax \in Nat \ {0}
    /\ MaxSent \in Nat

VARIABLES buf, head, tail, dropped,
          sent,      \* every byte push was called with
          accepted,  \* those it returned true for
          popped     \* those pop returned

vars == <<buf, head, tail, dropped, sent, accepted, popped>>

\* wrapping_add(1) and wrapping_sub on an index
\* (mutation: an index that does not wrap)
SuccUnwrapped(i) == i + 1

Succ(i) == IF i + 1 = IndexMod THEN 0 ELSE i + 1
Distance(h, t) == IF h >= t THEN h - t ELSE h - t + IndexMod

Slot(i) == i % N

Length == Distance(head, tail)

\* (mutation: a tally that wraps)
WrappingInc(d) == (d + 1) % (DropMax + 1)

SaturatingInc(d) == IF d < DropMax THEN d + 1 ELSE DropMax

Init ==
    /\ buf = [s \in 0 .. N - 1 |-> Zero]
    /\ head = 0
    /\ tail = 0
    /\ dropped = 0
    /\ sent = <<>>
    /\ accepted = <<>>
    /\ popped = <<>>

\* (mutation: a byte accepted without looking whether there is room)
PushAcceptUnchecked(b) ==
    /\ buf' = [buf EXCEPT ![Slot(head)] = b]
    /\ head' = Succ(head)
    /\ accepted' = Append(accepted, b)
    /\ UNCHANGED <<tail, dropped>>

\* (mutation: a byte refused and not counted)
PushFullUncounted ==
    /\ Length = N
    /\ UNCHANGED <<buf, head, tail, dropped, accepted>>

\* (mutation: the index advanced before the slot is read)
PopAdvanceFirst ==
    /\ Length # 0
    /\ popped' = Append(popped, buf[Slot(Succ(tail))])
    /\ tail' = Succ(tail)
    /\ UNCHANGED <<buf, head, dropped, sent, accepted>>

\* The interrupt handler: the byte goes in, or it is counted as dropped.
PushAccept(b) ==
    /\ Length # N
    /\ buf' = [buf EXCEPT ![Slot(head)] = b]
    /\ head' = Succ(head)
    /\ accepted' = Append(accepted, b)
    /\ UNCHANGED <<tail, dropped>>

PushFull ==
    /\ Length = N
    /\ dropped' = SaturatingInc(dropped)
    /\ UNCHANGED <<buf, head, tail, accepted>>

Push(b) ==
    /\ Len(sent) < MaxSent
    /\ PushAccept(b) \/ PushFull
    /\ sent' = Append(sent, b)
    /\ UNCHANGED popped

\* Thread mode.  On an empty queue pop returns None and changes nothing.
Pop ==
    /\ Length # 0
    /\ popped' = Append(popped, buf[Slot(tail)])
    /\ tail' = Succ(tail)
    /\ UNCHANGED <<buf, head, dropped, sent, accepted>>

Next == (\E b \in Byte : Push(b)) \/ Pop

Spec == Init /\ [][Next]_vars
-----------------------------------------------------------------------------
\* The bytes the queue holds, oldest first.
Content == [i \in 1 .. Length |-> buf[Slot(tail + i - 1)]]

\* The variables have their types: the indices stay in a u16 and the tally
\* in a u8.
TypeOK ==
    /\ buf \in [0 .. N - 1 -> Byte]
    /\ head \in 0 .. IndexMod - 1
    /\ tail \in 0 .. IndexMod - 1
    /\ dropped \in 0 .. DropMax
    /\ sent \in Seq(Byte)
    /\ accepted \in Seq(Byte)
    /\ popped \in Seq(Byte)

\* head - tail stays unambiguous across the wrap of the indices: it never
\* exceeds the capacity, so a full queue is never taken for an empty one.
LengthBounded == Length <= N

\* What pop returned, followed by what is still queued, is exactly what push
\* accepted, in that order: no byte is overwritten, repeated or reordered,
\* wherever the indices stand when they wrap.
NothingLost == accepted = popped \o Content

\* The tally is the number of bytes refused, up to where it saturates; it
\* never runs over into a small number.
TallyHonest ==
    LET refused == Len(sent) - Len(accepted)
    IN  dropped = IF refused < DropMax THEN refused ELSE DropMax

\* The queue implements a bounded first-in first-out queue.
Fifo == INSTANCE ByteFifo WITH queue <- Content
ImplementsFifo == Fifo!Spec

IsPrefixOf(s, t) == Len(s) <= Len(t) /\ s = SubSeq(t, 1, Len(s))

\* rx_queue.rs:16-18: "the consumer can then trust that whatever it pops is
\* a prefix of what was sent (nothing silently vanishes from the middle of a
\* message)".
PoppedIsPrefixOfSent == IsPrefixOf(popped, sent)

\* What the code guarantees of it: until the tally moves, everything popped
\* is a prefix of what was sent.
PrefixUntilDrop == dropped = 0 => PoppedIsPrefixOfSent
=============================================================================
