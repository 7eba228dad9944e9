--------------------------- MODULE RxQueue_proofs ---------------------------
(***************************************************************************)
(* What TLC checks of RxQueue on a two-slot queue, proved for every        *)
(* capacity, index width, byte set and number of bytes sent.  The heart is *)
(* how a call changes Content: push appends to it and pop takes its tail,  *)
(* whatever the indices do when they wrap.                                 *)
(***************************************************************************)
EXTENDS RxQueue, SequenceTheorems, Integers, TLAPS

\* Facts about division and remainder, for every modulus.

\* A natural number is its quotient times n plus its remainder.
LEMMA DivMod ==
    ASSUME NEW x \in Nat, NEW n \in Nat \ {0}
    PROVE  /\ x % n \in 0 .. n - 1
           /\ x \div n \in Nat
           /\ x = n * (x \div n) + (x % n)
  BY SMTT(10)

\* Only one remainder in 0 .. n - 1 belongs to a number.
LEMMA RemainderUnique ==
    ASSUME NEW n \in Nat \ {0}, NEW q \in Int, NEW r \in 0 .. n - 1,
           NEW x \in Int, x = n * q + r
    PROVE  x % n = r
  BY SMTT(10)

\* A number below the modulus is its own remainder.
LEMMA RemainderSmall ==
    ASSUME NEW n \in Nat \ {0}, NEW x \in 0 .. n - 1
    PROVE  x % n = x
  BY SMTT(10)

\* Adding a multiple of the modulus leaves the remainder alone.
LEMMA RemainderAddMultiple ==
    ASSUME NEW n \in Nat \ {0}, NEW m \in Nat, m % n = 0, NEW x \in Nat
    PROVE  (x + m) % n = x % n
  <1>1. m = n * (m \div n) /\ m \div n \in Nat
    BY DivMod, SMTT(10)
  <1>2. /\ x = n * (x \div n) + (x % n)
        /\ x % n \in 0 .. n - 1
        /\ x \div n \in Nat
    BY DivMod
  <1>3. x + m = n * ((x \div n) + (m \div n)) + (x % n)
    BY <1>1, <1>2, SMTT(10)
  <1> DEFINE q == (x \div n) + (m \div n)
             r == x % n
             y == x + m
  <1>4. q \in Int /\ r \in 0 .. n - 1 /\ y \in Int /\ y = n * q + r
    BY <1>1, <1>2, <1>3
  <1> HIDE DEF q, r, y
  <1>5. y % n = r
    BY <1>4, RemainderUnique
  <1> QED
    BY <1>5 DEF r, y

\* Two numbers less than a modulus apart have different remainders.
LEMMA RemainderDistinct ==
    ASSUME NEW n \in Nat \ {0}, NEW a \in Nat, NEW d \in 1 .. n - 1
    PROVE  (a + d) % n # a % n
  <1>1. SUFFICES ASSUME (a + d) % n = a % n
                 PROVE  FALSE
    OBVIOUS
  <1> DEFINE p == a \div n
             q == (a + d) \div n
  <1>2. a = n * p + (a % n) /\ p \in Nat /\ a % n \in Nat
    BY DivMod
  <1>3. a + d \in Nat
    OBVIOUS
  <1>4. a + d = n * q + ((a + d) % n) /\ q \in Nat
    BY <1>3, DivMod
  <1> HIDE DEF p, q
  <1>5. d = n * q - n * p
    BY <1>1, <1>2, <1>4
  <1>6. d = n * (q - p)
    BY <1>2, <1>4, <1>5
  <1>7. q - p # 0 /\ ~ (q - p < 0) /\ ~ (q - p >= 1)
    BY <1>2, <1>4, <1>6, SMTT(10)
  <1> QED
    BY <1>2, <1>4, <1>7
-----------------------------------------------------------------------------

\* As long as nothing was refused, everything sent was accepted.
AllAccepted == Len(accepted) = Len(sent) => accepted = sent

\* The inductive invariant.
Inv == TypeOK /\ LengthBounded /\ NothingLost /\ TallyHonest /\ AllAccepted

\* The length is a natural number below the index range.
LEMMA LengthType ==
    ASSUME TypeOK
    PROVE  Length \in 0 .. IndexMod - 1
  BY CapacityAssumption DEF TypeOK, Length, Distance

\* A slot number is a slot.
LEMMA SlotType ==
    ASSUME NEW i \in Nat
    PROVE  Slot(i) \in 0 .. N - 1
  BY CapacityAssumption, DivMod DEF Slot

\* Masking hides the wrap of an index: Succ(i) and i + 1 are the same slot,
\* and so are the positions k after them.
LEMMA SlotSucc ==
    ASSUME NEW i \in 0 .. IndexMod - 1, NEW k \in Nat
    PROVE  Slot(Succ(i) + k) = Slot(i + 1 + k)
  <1>1. CASE i + 1 # IndexMod
    BY <1>1 DEF Succ
  <1>2. CASE i + 1 = IndexMod
    <2>1. (k + IndexMod) % N = k % N
      BY CapacityAssumption, RemainderAddMultiple
    <2>2. Succ(i) + k = k /\ i + 1 + k = k + IndexMod
      BY <1>2, CapacityAssumption DEF Succ
    <2> QED
      BY <2>1, <2>2 DEF Slot
  <1> QED
    BY <1>1, <1>2

\* The slot the next push writes is the one after the last queued byte.
LEMMA HeadSlot ==
    ASSUME TypeOK
    PROVE  Slot(head) = Slot(tail + Length)
  <1>1. CASE head >= tail
    BY <1>1, CapacityAssumption DEF TypeOK, Length, Distance
  <1>2. CASE ~ (head >= tail)
    <2>1. head \in Nat /\ tail + Length = head + IndexMod
      BY <1>2, CapacityAssumption DEF TypeOK, Length, Distance
    <2>2. (head + IndexMod) % N = head % N
      BY <2>1, CapacityAssumption, RemainderAddMultiple
    <2> QED
      BY <2>1, <2>2 DEF Slot
  <1> QED
    BY <1>1, <1>2

\* The queued bytes form a sequence of Length bytes.
LEMMA ContentType ==
    ASSUME TypeOK
    PROVE  Content \in Seq(Byte) /\ Len(Content) = Length
  <1>1. Length \in Nat
    BY LengthType
  <1>2. \A i \in 1 .. Length : Slot(tail + i - 1) \in 0 .. N - 1
    <2> TAKE i \in 1 .. Length
    <2>1. tail + i - 1 \in Nat
      BY <1>1, CapacityAssumption DEF TypeOK
    <2> QED
      BY <2>1, SlotType
  <1>3. \A i \in 1 .. Length : buf[Slot(tail + i - 1)] \in Byte
    BY <1>2 DEF TypeOK
  <1> QED
    BY <1>1, <1>3 DEF Content

\* An accepted byte joins the queue at its end and disturbs nothing in it.
LEMMA PushContent ==
    ASSUME TypeOK, LengthBounded, NEW b \in Byte, PushAccept(b)
    PROVE  Length' = Length + 1 /\ Content' = Append(Content, b)
  <1> DEFINE L == Length
  <1>1. L \in 0 .. N - 1
    BY LengthType, CapacityAssumption DEF LengthBounded, PushAccept
  <1>2. Length' = L + 1
    BY <1>1, CapacityAssumption
    DEF TypeOK, PushAccept, Length, Distance, Succ
  <1>3. Content' = [i \in 1 .. L + 1 |-> buf'[Slot(tail + i - 1)]]
    BY <1>2 DEF Content, PushAccept, Slot
  <1>4. Slot(head) \in 0 .. N - 1 /\ buf' = [buf EXCEPT ![Slot(head)] = b]
    BY SlotType, CapacityAssumption DEF TypeOK, PushAccept
  <1>5. buf'[Slot(tail + (L + 1) - 1)] = b
    <2>1. tail + (L + 1) - 1 = tail + L
      BY <1>1, CapacityAssumption DEF TypeOK
    <2> QED
      BY <1>4, <2>1, HeadSlot DEF TypeOK
  <1>6. \A i \in 1 .. L : buf'[Slot(tail + i - 1)] = buf[Slot(tail + i - 1)]
    <2> TAKE i \in 1 .. L
    <2> DEFINE a == tail + i - 1
               d == L - i + 1
    <2>1. a \in Nat /\ d \in 1 .. N - 1 /\ a + d = tail + L
      BY <1>1, CapacityAssumption DEF TypeOK
    <2>2. (a + d) % N # a % N
      BY <2>1, CapacityAssumption, RemainderDistinct
    <2>3. Slot(a) # Slot(head)
      BY <2>1, <2>2, HeadSlot DEF Slot
    <2>4. Slot(a) \in 0 .. N - 1
      BY <2>1, SlotType
    <2> QED
      BY <1>4, <2>3, <2>4 DEF TypeOK
  <1>7. /\ Content \in Seq(Byte)
        /\ Len(Content) = L
        /\ \A i \in 1 .. L : Content[i] = buf[Slot(tail + i - 1)]
    BY ContentType DEF Content
  <1> HIDE DEF L
  <1>8. L \in Nat
    BY <1>1, CapacityAssumption
  <1>9. \A i \in 1 .. L + 1 :
            buf'[Slot(tail + i - 1)] = IF i = L + 1 THEN b ELSE Content[i]
    BY <1>5, <1>6, <1>7, <1>8
  <1>10. /\ Append(Content, b) \in Seq(Byte)
         /\ Len(Append(Content, b)) = L + 1
         /\ \A i \in 1 .. L + 1 :
               Append(Content, b)[i] = IF i = L + 1 THEN b ELSE Content[i]
    BY <1>7, <1>8, AppendProperties
  <1>11. /\ Content' \in Seq(Byte)
         /\ Len(Content') = L + 1
         /\ \A i \in 1 .. L + 1 :
               Content'[i] = IF i = L + 1 THEN b ELSE Content[i]
    <2>1. \A i \in 1 .. L + 1 : buf'[Slot(tail + i - 1)] \in Byte
      <3> TAKE i \in 1 .. L + 1
      <3>1. CASE i = L + 1
        BY <1>9, <3>1
      <3>2. CASE i # L + 1
        <4>1. i \in 1 .. L
          BY <1>8, <3>2
        <4> QED
          BY <1>7, <1>9, <3>2, <4>1, ElementOfSeq
      <3> QED
        BY <3>1, <3>2
    <2> QED
      BY <1>3, <1>8, <1>9, <2>1
  <1>12. Content' = Append(Content, b)
    BY <1>10, <1>11, SeqEqual
  <1> QED
    BY <1>2, <1>12 DEF L

\* A pop takes the oldest byte and leaves the others as they were.
LEMMA PopContent ==
    ASSUME TypeOK, Pop
    PROVE  /\ Length' = Length - 1
           /\ Content # <<>>
           /\ buf[Slot(tail)] = Head(Content)
           /\ Content' = Tail(Content)
  <1> DEFINE L == Length
  <1>1. L \in 1 .. IndexMod - 1
    BY LengthType, CapacityAssumption DEF Pop
  <1>2. Length' = L - 1
    BY <1>1, CapacityAssumption DEF TypeOK, Pop, Length, Distance, Succ
  <1>3. /\ Content \in Seq(Byte)
        /\ Len(Content) = L
        /\ \A i \in 1 .. L : Content[i] = buf[Slot(tail + i - 1)]
    BY ContentType DEF Content
  <1>4. tail \in 0 .. IndexMod - 1 /\ tail + 1 - 1 = tail
    BY CapacityAssumption DEF TypeOK
  <1>5. Content' = [i \in 1 .. L - 1 |-> buf[Slot(Succ(tail) + i - 1)]]
    BY <1>2 DEF Content, Pop, Slot
  <1>6. \A i \in 1 .. L - 1 : buf[Slot(Succ(tail) + i - 1)] = Content[i + 1]
    <2> TAKE i \in 1 .. L - 1
    <2> DEFINE k == i - 1
    <2>1. k \in Nat
      BY <1>1, CapacityAssumption
    <2>2. Slot(Succ(tail) + k) = Slot(tail + 1 + k)
      BY <1>4, <2>1, SlotSucc
    <2>3. /\ Succ(tail) + k = Succ(tail) + i - 1
          /\ tail + 1 + k = tail + (i + 1) - 1
      BY <1>1, <1>4, CapacityAssumption DEF Succ
    <2>4. i + 1 \in 1 .. L
      BY <1>1, CapacityAssumption
    <2> QED
      BY <1>3, <2>2, <2>3, <2>4
  <1> HIDE DEF L
  <1>7. L \in Nat \ {0}
    BY <1>1, CapacityAssumption
  <1>8. Content # <<>> /\ buf[Slot(tail)] = Head(Content)
    BY <1>3, <1>4, <1>7
  <1>9. /\ Tail(Content) \in Seq(Byte)
        /\ Len(Tail(Content)) = L - 1
        /\ \A i \in 1 .. L - 1 : Tail(Content)[i] = Content[i + 1]
    BY <1>3, <1>7, <1>8, HeadTailProperties
  <1>10. /\ Content' \in Seq(Byte)
         /\ Len(Content') = L - 1
         /\ \A i \in 1 .. L - 1 : Content'[i] = Content[i + 1]
    <2>1. \A i \in 1 .. L - 1 : Content[i + 1] \in Byte
      BY <1>3, <1>7
    <2>2. \A i \in 1 .. L - 1 : buf[Slot(Succ(tail) + i - 1)] \in Byte
      BY <1>6, <2>1
    <2> QED
      BY <1>5, <1>6, <1>7, <2>2
  <1>11. Content' = Tail(Content)
    BY <1>9, <1>10, SeqEqual
  <1> QED
    BY <1>2, <1>8, <1>11 DEF L
-----------------------------------------------------------------------------
\* The queue starts out empty.
LEMMA InitContent ==
    ASSUME Init
    PROVE  TypeOK /\ Length = 0 /\ Content = <<>>
  <1>1. TypeOK
    BY CapacityAssumption, DataAssumption DEF Init, TypeOK
  <1>2. Length = 0
    BY DEF Init, Length, Distance
  <1>3. Content \in Seq(Byte) /\ Len(Content) = 0
    BY <1>1, <1>2, ContentType
  <1>4. Content = <<>>
    BY <1>3, EmptySeq
  <1> QED
    BY <1>1, <1>2, <1>4

LEMMA InitInv == Init => Inv
  <1> SUFFICES ASSUME Init
               PROVE  Inv
    OBVIOUS
  <1>1. TypeOK /\ LengthBounded
    BY InitContent, CapacityAssumption DEF LengthBounded
  <1>2. NothingLost
    BY InitContent DEF Init, NothingLost
  <1>3. TallyHonest /\ AllAccepted
    BY DataAssumption DEF Init, TallyHonest, AllAccepted
  <1> QED
    BY <1>1, <1>2, <1>3 DEF Inv

\* A call that pushes, accepted or refused, keeps the invariant.
LEMMA PushInv ==
    ASSUME Inv, NEW b \in Byte, Push(b)
    PROVE  Inv'
  <1> USE DEF Inv
  <1>1. sent' = Append(sent, b) /\ popped' = popped
    BY DEF Push
  <1>2. /\ sent' \in Seq(Byte)
        /\ Len(sent') = Len(sent) + 1
        /\ Len(sent) \in Nat
    BY <1>1, AppendProperties, LenProperties DEF TypeOK
  <1>a. Len(accepted) \in Nat /\ Len(accepted) <= Len(sent)
    <2>1. Len(accepted) \in Nat
      BY LenProperties DEF TypeOK
    <2>2. CASE ~ (Len(accepted) <= Len(sent))
      BY <1>2, <2>1, <2>2, DataAssumption DEF TallyHonest, TypeOK
    <2> QED
      BY <2>1, <2>2
  <1>3. CASE PushAccept(b)
    <2>1. /\ accepted' = Append(accepted, b)
          /\ accepted' \in Seq(Byte)
          /\ Len(accepted') = Len(accepted) + 1
          /\ Len(accepted) \in Nat
      BY <1>3, AppendProperties, LenProperties DEF TypeOK, PushAccept
    <2>2. TypeOK'
      <3>1. Slot(head) \in 0 .. N - 1
        <4>1. head \in Nat
          BY CapacityAssumption DEF TypeOK
        <4> QED
          BY <4>1, SlotType
      <3>2. buf' \in [0 .. N - 1 -> Byte]
        BY <1>3, <3>1 DEF TypeOK, PushAccept
      <3>3. head' \in 0 .. IndexMod - 1
        BY <1>3, CapacityAssumption DEF TypeOK, PushAccept, Succ
      <3> QED
        BY <1>1, <1>2, <1>3, <2>1, <3>2, <3>3 DEF TypeOK, PushAccept
    <2>3. Length' = Length + 1 /\ Content' = Append(Content, b)
      BY <1>3, PushContent
    <2>4. LengthBounded'
      BY <1>3, <2>3, LengthType, CapacityAssumption
      DEF LengthBounded, PushAccept
    <2>5. NothingLost'
      <3> DEFINE C == Content
      <3>1. C \in Seq(Byte) /\ popped \in Seq(Byte) /\ <<b>> \in Seq(Byte)
        BY ContentType DEF TypeOK
      <3>2. accepted \in Seq(Byte) /\ accepted = popped \o C
        BY DEF TypeOK, NothingLost
      <3>3. accepted' = accepted \o <<b>>
        BY <2>1, <3>2, AppendIsConcat
      <3>4. C' = C \o <<b>>
        BY <2>3, <3>1, AppendIsConcat
      <3> HIDE DEF C
      <3>5. (popped \o C) \o <<b>> = popped \o (C \o <<b>>)
        BY <3>1, ConcatAssociative
      <3> QED
        BY <1>1, <3>2, <3>3, <3>4, <3>5 DEF NothingLost, C
    <2>6. TallyHonest'
      BY <1>2, <1>3, <2>1 DEF TallyHonest, PushAccept
    <2>7. AllAccepted'
      BY <1>1, <1>2, <2>1 DEF AllAccepted
    <2> QED
      BY <2>2, <2>4, <2>5, <2>6, <2>7
  <1>4. CASE PushFull
    <2>1. UNCHANGED <<buf, head, tail, accepted>>
          /\ dropped' = SaturatingInc(dropped)
      BY <1>4 DEF PushFull
    <2>2. TypeOK'
      BY <1>1, <1>2, <2>1, DataAssumption DEF TypeOK, SaturatingInc
    <2>3. Length' = Length /\ Content' = Content
      BY <2>1 DEF Length, Content
    <2>4. LengthBounded' /\ NothingLost'
      BY <1>1, <2>1, <2>3 DEF LengthBounded, NothingLost
    <2>5. TallyHonest'
      BY <1>a, <1>2, <2>1, DataAssumption DEF TallyHonest, SaturatingInc
    <2>6. AllAccepted'
      BY <1>a, <1>2, <2>1 DEF AllAccepted
    <2> QED
      BY <2>2, <2>4, <2>5, <2>6
  <1> QED
    BY <1>3, <1>4 DEF Push

\* So does a pop.
LEMMA PopInv ==
    ASSUME Inv, Pop
    PROVE  Inv'
  <1> USE DEF Inv
  <1> DEFINE C == Content
             x == buf[Slot(tail)]
  <1>1. /\ Length' = Length - 1
        /\ C # <<>>
        /\ x = Head(C)
        /\ C' = Tail(C)
    BY PopContent
  <1>2. C \in Seq(Byte) /\ popped \in Seq(Byte)
    BY ContentType DEF TypeOK
  <1>3. x \in Byte /\ popped' = Append(popped, x)
    BY <1>1, <1>2, HeadTailProperties DEF Pop
  <1>4. TypeOK'
    <2>1. tail' \in 0 .. IndexMod - 1
      BY CapacityAssumption DEF TypeOK, Pop, Succ
    <2>2. popped' \in Seq(Byte)
      BY <1>2, <1>3, AppendProperties
    <2> QED
      BY <2>1, <2>2 DEF TypeOK, Pop
  <1>5. LengthBounded'
    BY <1>1, LengthType, CapacityAssumption DEF LengthBounded
  <1>6. NothingLost'
    <2> HIDE DEF C, x
    <2>1. /\ Tail(C) \in Seq(Byte)
          /\ <<x>> \in Seq(Byte)
          /\ C = <<x>> \o Tail(C)
      BY <1>1, <1>2, <1>3, HeadTailProperties, ConcatProperties, SeqEqual
    <2>2. popped' = popped \o <<x>>
      BY <1>2, <1>3, AppendIsConcat
    <2>3. (popped \o <<x>>) \o Tail(C) = popped \o (<<x>> \o Tail(C))
      BY <1>2, <2>1, ConcatAssociative
    <2>4. popped' \o C' = popped \o C
      BY <1>1, <2>1, <2>2, <2>3
    <2> QED
      BY <2>4 DEF NothingLost, Pop, C
  <1>7. TallyHonest' /\ AllAccepted'
    BY DEF TallyHonest, AllAccepted, Pop
  <1> QED
    BY <1>4, <1>5, <1>6, <1>7

LEMMA StutterInv ==
    ASSUME Inv, UNCHANGED vars
    PROVE  Inv'
  BY DEF Inv, vars, TypeOK, LengthBounded, NothingLost, TallyHonest,
         AllAccepted, Length, Content

\* The invariant holds in every state of every behaviour.
THEOREM InvHolds == Spec => []Inv
  <1>1. Inv /\ [Next]_vars => Inv'
    BY PushInv, PopInv, StutterInv DEF Next
  <1> QED
    BY <1>1, InitInv, PTL DEF Spec

\* The indices stay in their range and the tally in its own, for every
\* capacity that passes the compile-time check of RxQueue::VALID.
THEOREM TypeCorrect == Spec => []TypeOK
  <1>1. Inv => TypeOK
    BY DEF Inv
  <1> QED
    BY <1>1, InvHolds, PTL

\* First in, first out, with no byte lost between push and pop.
THEOREM OrderKept == Spec => []NothingLost
  <1>1. Inv => NothingLost
    BY DEF Inv
  <1> QED
    BY <1>1, InvHolds, PTL

\* dropped() is the number of refused bytes, saturated.
THEOREM TallyCorrect == Spec => []TallyHonest
  <1>1. Inv => TallyHonest
    BY DEF Inv
  <1> QED
    BY <1>1, InvHolds, PTL

\* A consumer that has read dropped() = 0 knows that it has a prefix of
\* what was sent.
THEOREM PrefixCorrect == Spec => []PrefixUntilDrop
  <1>1. Inv => PrefixUntilDrop
    <2> SUFFICES ASSUME Inv, dropped = 0
                 PROVE  PoppedIsPrefixOfSent
      BY DEF PrefixUntilDrop
    <2>1. Len(accepted) \in Nat /\ Len(sent) \in Nat
      BY LenProperties DEF Inv, TypeOK
    <2>2. Len(accepted) = Len(sent)
      BY <2>1, DataAssumption DEF Inv, TallyHonest
    <2>3. sent = popped \o Content
      BY <2>2 DEF Inv, AllAccepted, NothingLost
    <2>4. popped \in Seq(Byte) /\ Content \in Seq(Byte)
      BY ContentType DEF Inv, TypeOK
    <2> DEFINE C == Content
    <2> HIDE DEF C
    <2>5. /\ Len(popped) \in Nat
          /\ Len(C) \in Nat
          /\ Len(sent) = Len(popped) + Len(C)
          /\ \A i \in 1 .. Len(popped) : sent[i] = popped[i] /\ sent[i] \in Byte
      BY <2>3, <2>4, ConcatProperties, LenProperties, ElementOfSeq DEF C
    <2>6. popped = SubSeq(sent, 1, Len(popped))
      BY <2>4, <2>5, SubSeqProperties, SeqEqual
    <2> QED
      BY <2>5, <2>6 DEF PoppedIsPrefixOfSent, IsPrefixOf
  <1> QED
    BY <1>1, InvHolds, PTL
-----------------------------------------------------------------------------
\* Every call of the ring is a call of the abstract queue: an accepted push
\* appends, a refused one only moves the tally, a pop takes the head.
LEMMA StepRefines ==
    ASSUME Inv, [Next]_vars
    PROVE  [Fifo!Next]_(Fifo!fifoVars)
  <1> USE DEF Inv
  <1>1. /\ Content \in Seq(Byte)
        /\ Len(Content) = Length
        /\ Length \in Nat
    BY ContentType, LengthType
  <1>2. ASSUME NEW b \in Byte, Push(b)
        PROVE  Fifo!Next
    <2>1. CASE PushAccept(b)
      <3>1. Length < N
        BY <1>1, <2>1, CapacityAssumption DEF PushAccept, LengthBounded
      <3>2. Content' = Append(Content, b) /\ dropped' = dropped
        BY <2>1, PushContent DEF PushAccept
      <3>3. Fifo!Accept(b)
        BY <1>1, <3>1, <3>2 DEF Fifo!Accept
      <3> QED
        BY <3>3 DEF Fifo!Next
    <2>2. CASE PushFull
      <3>1. Content' = Content /\ Length = N /\ dropped' = SaturatingInc(dropped)
        BY <2>2 DEF PushFull, Content, Length
      <3>2. Fifo!Refuse
        BY <1>1, <3>1 DEF Fifo!Refuse, SaturatingInc
      <3> QED
        BY <3>2 DEF Fifo!Next
    <2> QED
      BY <1>2, <2>1, <2>2 DEF Push
  <1>3. ASSUME Pop
        PROVE  Fifo!Next
    <2>1. Content # <<>> /\ Content' = Tail(Content) /\ dropped' = dropped
      BY <1>3, PopContent DEF Pop
    <2>2. Fifo!Remove
      BY <2>1 DEF Fifo!Remove
    <2> QED
      BY <2>2 DEF Fifo!Next
  <1>4. ASSUME UNCHANGED vars
        PROVE  UNCHANGED Fifo!fifoVars
    BY <1>4 DEF vars, Fifo!fifoVars, Content, Length
  <1> QED
    BY <1>2, <1>3, <1>4 DEF Next

\* The ring implements the bounded first-in first-out queue.
THEOREM Refinement == Spec => ImplementsFifo
  <1>1. Init => Fifo!Init
    BY InitContent DEF Init, Fifo!Init
  <1> QED
    BY <1>1, StepRefines, InvHolds, PTL DEF Spec, ImplementsFifo, Fifo!Spec
=============================================================================
