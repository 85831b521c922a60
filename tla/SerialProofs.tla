---------------------------- MODULE SerialProofs ----------------------------
(***************************************************************************)
(* Proofs about SerialLine, for every size of the ring and of the line:    *)
(* the ring holds the bytes that wait, and so implements LineQueue.        *)
(***************************************************************************)
EXTENDS SerialLine, SequenceTheorems, FiniteSetTheorems, TLAPS

(* The place in the ring of the j-th byte from the head on.                *)
PlaceFrom(head, j) == IF head + j - 1 < N THEN head + j - 1 ELSE head + j - 1 - N

(* The bytes that wait lie between the head and the tail, in order.        *)
RingHolds ==
    /\ Len(owed) <= N
    /\ \A j \in 1 .. Len(owed) :
          owed[j] = serial_rx_buf[PlaceFrom(serial_rx_buf_head, j)]
    /\ serial_rx_buf_tail =
          IF Len(owed) = N THEN serial_rx_buf_head
          ELSE PlaceFrom(serial_rx_buf_head, Len(owed) + 1)

(* A tail that was read stays good news until the byte is taken.           *)
ReaderKnows ==
    /\ pc = "count" /\ seen # serial_rx_buf_head => owed # <<>>
    /\ pc = "copy" => owed # <<>>

RingInv == TypeOK /\ RingHolds /\ ReaderKnows

-----------------------------------------------------------------------------
(* What is second from one index is first from the next.                   *)
LEMMA NextPlace ==
    \A head \in 0 .. N - 1 : \A j \in 1 .. N :
        PlaceFrom(Following(head), j) = PlaceFrom(head, j + 1)
  BY RingAssumption DEF PlaceFrom, Following

LEMMA AppendFacts ==
    \A s \in Seq(Char) : \A c \in Char :
        /\ Append(s, c) \in Seq(Char) /\ Append(s, c) # <<>>
        /\ Len(Append(s, c)) = Len(s) + 1
        /\ \A j \in 1 .. Len(s) : Append(s, c)[j] = s[j]
        /\ Append(s, c)[Len(s) + 1] = c
  BY AppendProperties

LEMMA RingInit == Init => RingInv
  <1> SUFFICES ASSUME Init PROVE RingInv
    OBVIOUS
  <1>1. Len(owed) = 0 /\ owed \in Seq(Char) /\ serial_buffer \in Seq(Char)
        /\ Len(serial_buffer) = 0
    BY EmptySeq DEF Init
  <1>2. TypeOK
    BY <1>1, RingAssumption, LineAssumption, CharAssumption, MaxWordsAssumption
       DEF Init, TypeOK
  <1>3. RingHolds /\ ReaderKnows
    BY <1>1, RingAssumption DEF Init, RingHolds, ReaderKnows, PlaceFrom
  <1> QED BY <1>2, <1>3 DEF RingInv

(* A byte that arrives is the last to wait, or the only one.               *)
LEMMA InterruptKeeps ==
    ASSUME RingInv, NEW c \in Char,
           serial_rx_buf' = [serial_rx_buf EXCEPT ![serial_rx_buf_tail] = c],
           serial_rx_buf_tail' = Following(serial_rx_buf_tail),
           owed' = IF Len(owed) = N THEN <<c>> ELSE Append(owed, c),
           serial_rx_buf_head' = serial_rx_buf_head
    PROVE  /\ RingHolds'
           /\ owed' # <<>> /\ owed' \in Seq(Char)
           /\ serial_rx_buf' \in [0 .. N - 1 -> Char]
           /\ serial_rx_buf_tail' \in 0 .. N - 1
  <1> DEFINE head == serial_rx_buf_head
             tail == serial_rx_buf_tail
  <1> USE RingAssumption
  <1>1. /\ head \in 0 .. N - 1 /\ tail \in 0 .. N - 1
        /\ serial_rx_buf \in [0 .. N - 1 -> Char]
        /\ owed \in Seq(Char) /\ Len(owed) \in 0 .. N
    BY LenProperties DEF RingInv, TypeOK, RingHolds
  <1>2. /\ serial_rx_buf' \in [0 .. N - 1 -> Char]
        /\ serial_rx_buf_tail' \in 0 .. N - 1
    BY <1>1 DEF Following
  <1>3. CASE Len(owed) = N
    <2>1. tail = head /\ owed' = <<c>> /\ Len(owed') = 1 /\ owed'[1] = c
          /\ owed' \in Seq(Char) /\ owed' # <<>>
      BY <1>3 DEF RingInv, RingHolds
    <2>2. \A j \in 1 .. Len(owed') : owed'[j] = serial_rx_buf'[PlaceFrom(head', j)]
      BY <1>1, <2>1 DEF PlaceFrom
    <2>3. serial_rx_buf_tail' = IF Len(owed') = N THEN head' ELSE PlaceFrom(head', 2)
      BY <1>1, <2>1 DEF PlaceFrom, Following
    <2> QED BY <1>2, <2>1, <2>2, <2>3 DEF RingHolds
  <1>4. CASE Len(owed) # N
    <2>1. /\ owed' = Append(owed, c) /\ owed' \in Seq(Char) /\ owed' # <<>>
          /\ Len(owed') = Len(owed) + 1
          /\ \A j \in 1 .. Len(owed) : owed'[j] = owed[j]
          /\ owed'[Len(owed) + 1] = c
      <3>1. owed' = Append(owed, c)
        BY <1>4
      <3>2. /\ Append(owed, c) \in Seq(Char) /\ Append(owed, c) # <<>>
            /\ Len(Append(owed, c)) = Len(owed) + 1
            /\ \A j \in 1 .. Len(owed) : Append(owed, c)[j] = owed[j]
            /\ Append(owed, c)[Len(owed) + 1] = c
        BY <1>1, AppendFacts, Zenon
      <3> QED BY <3>1, <3>2, Zenon
    <2>2. tail = PlaceFrom(head, Len(owed) + 1)
      BY <1>4 DEF RingInv, RingHolds
    <2>3. ASSUME NEW j \in 1 .. Len(owed')
          PROVE  owed'[j] = serial_rx_buf'[PlaceFrom(head', j)]
      <3>1. CASE j = Len(owed) + 1
        BY <1>1, <2>1, <2>2, <3>1 DEF PlaceFrom
      <3>2. CASE j # Len(owed) + 1
        <4>1. j \in 1 .. Len(owed)
          BY <1>1, <2>1, <3>2
        <4>2. PlaceFrom(head, j) \in 0 .. N - 1 /\ PlaceFrom(head, j) # tail
          BY <1>1, <1>4, <2>2, <4>1 DEF PlaceFrom
        <4>3. owed[j] = serial_rx_buf[PlaceFrom(head, j)]
          BY <4>1 DEF RingInv, RingHolds
        <4> QED BY <1>1, <2>1, <4>1, <4>2, <4>3
      <3> QED BY <3>1, <3>2
    <2>4. serial_rx_buf_tail' =
              IF Len(owed') = N THEN head' ELSE PlaceFrom(head', Len(owed') + 1)
      BY <1>1, <1>4, <2>1, <2>2 DEF PlaceFrom, Following
    <2>5. Len(owed') <= N
      BY <1>1, <1>4, <2>1
    <2> QED BY <1>2, <2>1, <2>3, <2>4, <2>5 DEF RingHolds
  <1> QED BY <1>3, <1>4

(* The byte at the head is the one that has waited longest.                *)
LEMMA TakeFromHead ==
    ASSUME RingInv, owed # <<>>,
           serial_rx_buf_head' = Following(serial_rx_buf_head),
           owed' = SubSeq(owed, 2, Len(owed)),
           UNCHANGED <<serial_rx_buf, serial_rx_buf_tail>>
    PROVE  /\ RingHolds'
           /\ owed' \in Seq(Char) /\ owed' = Tail(owed)
           /\ Head(owed) = serial_rx_buf[serial_rx_buf_head]
           /\ serial_rx_buf_head' \in 0 .. N - 1
  <1> DEFINE head == serial_rx_buf_head
  <1> USE RingAssumption
  <1>1. /\ head \in 0 .. N - 1
        /\ owed \in Seq(Char) /\ Len(owed) \in 1 .. N
    BY LenProperties, EmptySeq DEF RingInv, TypeOK, RingHolds
  <1>2. /\ owed' \in Seq(Char) /\ owed' = Tail(owed)
        /\ Len(owed') = Len(owed) - 1
        /\ \A j \in 1 .. Len(owed') : owed'[j] = owed[j + 1]
    BY <1>1, TailIsSubSeq, HeadTailProperties
  <1>3. head' \in 0 .. N - 1
    BY <1>1 DEF Following
  <1>4. ASSUME NEW j \in 1 .. Len(owed')
        PROVE  owed'[j] = serial_rx_buf'[PlaceFrom(head', j)]
    <2>1. j + 1 \in 1 .. Len(owed)
      BY <1>1, <1>2
    <2>2. PlaceFrom(head', j) = PlaceFrom(head, j + 1)
      BY <1>1, <1>2, NextPlace
    <2> QED BY <1>2, <2>1, <2>2 DEF RingInv, RingHolds
  <1>5. serial_rx_buf_tail' =
            IF Len(owed') = N THEN head' ELSE PlaceFrom(head', Len(owed') + 1)
    <2>1. CASE Len(owed) = N
      <3>1. serial_rx_buf_tail' = head
        BY <2>1 DEF RingInv, RingHolds
      <3> QED BY <1>1, <1>2, <2>1, <3>1 DEF PlaceFrom, Following
    <2>2. CASE Len(owed) # N
      <3>1. serial_rx_buf_tail' = PlaceFrom(head, Len(owed) + 1)
        BY <2>2 DEF RingInv, RingHolds
      <3>2. Len(owed') = Len(owed) - 1 /\ Len(owed') # N
        BY <1>1, <1>2
      <3>3. PlaceFrom(head', Len(owed)) = PlaceFrom(head, Len(owed) + 1)
        BY <1>1, NextPlace
      <3> QED BY <1>1, <3>1, <3>2, <3>3
    <2> QED BY <2>1, <2>2
  <1>6. Head(owed) = serial_rx_buf[head]
    BY <1>1 DEF RingInv, RingHolds, PlaceFrom
  <1> QED BY <1>1, <1>2, <1>3, <1>4, <1>5, <1>6 DEF RingHolds

(* The line never fills its buffer.                                        *)
LEMMA CollectFits ==
    ASSUME TypeOK, NEW c \in Char
    PROVE  Collect(c) \in Seq(Char) /\ Len(Collect(c)) < LineSize
  <1>1. Len(serial_buffer) \in Nat
    BY LenProperties DEF TypeOK
  <1>2. CASE Len(serial_buffer) = LineSize - 1
    BY <1>2, LineAssumption, EmptySeq DEF Collect
  <1>3. CASE Len(serial_buffer) # LineSize - 1
    BY <1>1, <1>3, LineAssumption, AppendProperties DEF Collect, TypeOK
  <1> QED BY <1>2, <1>3

LEMMA RingStep == RingInv /\ [Next]_vars => RingInv'
  <1> SUFFICES ASSUME RingInv, [Next]_vars PROVE RingInv'
    OBVIOUS
  <1>1. CASE Interrupt
    <2> PICK c \in Char :
            /\ c = Word => typed < MaxWords
            /\ serial_rx_buf' = [serial_rx_buf EXCEPT ![serial_rx_buf_tail] = c]
            /\ serial_rx_buf_tail' = Following(serial_rx_buf_tail)
            /\ owed' = IF Len(owed) = N THEN <<c>> ELSE Append(owed, c)
            /\ typed' = IF c = Word THEN typed + 1 ELSE typed
            /\ UNCHANGED <<serial_rx_buf_head, program, obeyed>>
      BY <1>1 DEF Interrupt
    <2>1. /\ RingHolds'
          /\ owed' # <<>> /\ owed' \in Seq(Char)
          /\ serial_rx_buf' \in [0 .. N - 1 -> Char]
          /\ serial_rx_buf_tail' \in 0 .. N - 1
      BY InterruptKeeps
    <2>2. TypeOK'
      BY <2>1, MaxWordsAssumption DEF RingInv, TypeOK, program
    <2> QED BY <2>1, <2>2 DEF RingInv, ReaderKnows
  <1>2. CASE LoadTail
    <2>1. TypeOK' /\ RingHolds'
      BY <1>2 DEF LoadTail, RingInv, TypeOK, RingHolds, ring
    <2>2. ReaderKnows'
      <3>1. owed = <<>> => serial_rx_buf_tail = serial_rx_buf_head
        BY RingAssumption DEF RingInv, TypeOK, RingHolds, PlaceFrom
      <3> QED BY <1>2, <3>1 DEF LoadTail, ReaderKnows, ring
    <2> QED BY <2>1, <2>2 DEF RingInv
  <1>3. CASE NothingReceived
    BY <1>3 DEF NothingReceived, RingInv, TypeOK, RingHolds, ReaderKnows, ring
  <1>4. CASE SomethingReceived
    <2>1. seen # serial_rx_buf_head
      BY <1>4 DEF SomethingReceived, Count, RingInv, TypeOK
    <2> QED BY <1>4, <2>1
            DEF SomethingReceived, RingInv, TypeOK, RingHolds, ReaderKnows, ring
  <1>5. CASE Take
    <2>1. owed # <<>>
      BY <1>5 DEF Take, RingInv, ReaderKnows
    <2>2. /\ RingHolds'
          /\ owed' \in Seq(Char)
          /\ serial_rx_buf_head' \in 0 .. N - 1
      BY <1>5, <2>1, TakeFromHead DEF Take
    <2>3. serial_rx_buf[serial_rx_buf_head] \in Char
      BY DEF RingInv, TypeOK
    <2>4. serial_buffer' \in Seq(Char) /\ Len(serial_buffer') < LineSize
      <3>1. /\ Collect(serial_rx_buf[serial_rx_buf_head]) \in Seq(Char)
            /\ Len(Collect(serial_rx_buf[serial_rx_buf_head])) < LineSize
        BY <2>3, CollectFits DEF RingInv
      <3>2. <<>> \in Seq(Char) /\ Len(<<>>) < LineSize
        BY EmptySeq, LineAssumption
      <3>3. serial_buffer' \in {<<>>, Collect(serial_rx_buf[serial_rx_buf_head])}
        BY <1>5 DEF Take
      <3> QED BY <3>1, <3>2, <3>3
    <2>5. pc' \in {"poll", "update"} /\ obeyed' \in Nat
      BY <1>5 DEF Take, RingInv, TypeOK
    <2>6. TypeOK'
      BY <1>5, <2>2, <2>3, <2>4, <2>5 DEF Take, RingInv, TypeOK
    <2> QED BY <2>2, <2>5, <2>6 DEF RingInv, ReaderKnows
  <1>6. CASE UpdateDone
    <2>1. TypeOK'
      BY <1>6, EmptySeq, LineAssumption DEF UpdateDone, RingInv, TypeOK, ring
    <2> QED BY <1>6, <2>1 DEF UpdateDone, RingInv, RingHolds, ReaderKnows, ring
  <1>7. CASE UNCHANGED vars
    BY <1>7 DEF vars, ring, program, RingInv, TypeOK, RingHolds, ReaderKnows
  <1> QED BY <1>1, <1>2, <1>3, <1>4, <1>5, <1>6, <1>7 DEF Next, Loop

THEOREM RingInvariance == Spec => []RingInv
  <1> QED BY RingInit, RingStep, PTL DEF Spec

(* Indices stay inside the ring, and the line inside its buffer, with room *)
(* for the terminator (sio2host.c:200-205, main.cpp:107-116).              *)
THEOREM SerialTypeCorrect == Spec => []TypeOK
  <1>1. RingInv => TypeOK
    BY DEF RingInv
  <1> QED BY <1>1, RingInvariance, PTL

-----------------------------------------------------------------------------
(* Every step of the driver is a step of the lossy queue or none.          *)
LEMMA QueueStep == RingInv /\ [Next]_vars => [Queue!Next \/ Overrun]_(Queue!vars)
  <1> SUFFICES ASSUME RingInv, [Next]_vars PROVE [Queue!Next \/ Overrun]_(Queue!vars)
    OBVIOUS
  <1>1. CASE Interrupt
    BY <1>1 DEF Interrupt, program, Overrun, Queue!Next, Queue!Arrive
  <1>2. CASE Take
    <2>1. owed # <<>>
      BY <1>2 DEF Take, RingInv, ReaderKnows
    <2>2. owed' = Tail(owed) /\ Head(owed) = serial_rx_buf[serial_rx_buf_head]
      BY <1>2, <2>1, TakeFromHead DEF Take
    <2> QED BY <1>2, <2>1, <2>2 DEF Take, Queue!Next, Queue!Read
  <1>3. CASE LoadTail \/ NothingReceived \/ SomethingReceived \/ UpdateDone
    BY <1>3 DEF LoadTail, NothingReceived, SomethingReceived, UpdateDone, Queue!vars
  <1>4. CASE UNCHANGED vars
    BY <1>4 DEF vars, program, Queue!vars
  <1> QED BY <1>1, <1>2, <1>3, <1>4 DEF Next, Loop

(* However the interrupt falls between the reader's steps, the ring hands  *)
(* out the bytes that came in order and each once, except for those that   *)
(* an overrun loses (sio2host.c:139-209, 236-267).                         *)
THEOREM RingIsQueue == Spec => QueueButForOverruns
  <1>1. Init => Queue!Init
    BY CharAssumption DEF Init, Queue!Init
  <1> QED BY <1>1, QueueStep, RingInvariance, PTL DEF Spec, QueueButForOverruns

-----------------------------------------------------------------------------
(* The commands in a sequence of bytes.                                    *)
WordsIn(s) == {j \in 1 .. Len(s) : s[j] = Word}

One(c) == IF c = Word THEN 1 ELSE 0

(* The commands in the line that have not been obeyed.                     *)
Standing == IF pc = "update" THEN 0 ELSE Cardinality(WordsIn(serial_buffer))

(* Every command is typed before it waits, stands in the line and is       *)
(* obeyed, one after the other.                                            *)
Accounted == obeyed + Standing + Cardinality(WordsIn(owed)) <= typed

LEMMA WordsFinite ==
    \A s \in Seq(Char) :
        IsFiniteSet(WordsIn(s)) /\ Cardinality(WordsIn(s)) \in Nat
  <1> TAKE s \in Seq(Char)
  <1>1. Len(s) \in Int /\ 1 \in Int
    BY LenProperties
  <1>2. IsFiniteSet(1 .. Len(s))
    BY <1>1, FS_Interval, Zenon
  <1>3. WordsIn(s) \in SUBSET (1 .. Len(s))
    BY DEF WordsIn
  <1> QED BY <1>2, <1>3, FS_Subset, FS_CardinalityType, Zenon

LEMMA WordsNone == Cardinality(WordsIn(<<>>)) = 0
  <1>1. WordsIn(<<>>) = {}
    BY DEF WordsIn
  <1> QED BY <1>1, FS_EmptySet, Zenon

LEMMA WordsOne == \A c \in Char : Cardinality(WordsIn(<<c>>)) = One(c)
  <1> TAKE c \in Char
  <1>1. CASE c = Word
    <2>1. WordsIn(<<c>>) = {1}
      BY <1>1 DEF WordsIn
    <2> QED BY <1>1, <2>1, FS_Singleton DEF One
  <1>2. CASE c # Word
    <2>1. WordsIn(<<c>>) = {}
      BY <1>2 DEF WordsIn
    <2> QED BY <1>2, <2>1, FS_EmptySet DEF One
  <1> QED BY <1>1, <1>2

LEMMA WordsAppend ==
    \A s \in Seq(Char) : \A c \in Char :
        Cardinality(WordsIn(Append(s, c))) = Cardinality(WordsIn(s)) + One(c)
  <1> TAKE s \in Seq(Char)
  <1> TAKE c \in Char
  <1> DEFINE n == Len(s) + 1
  <1>1. Len(s) \in Nat
    BY LenProperties
  <1>2. /\ Len(Append(s, c)) = n
        /\ \A j \in 1 .. Len(s) : Append(s, c)[j] = s[j]
        /\ Append(s, c)[n] = c
    BY AppendFacts, Zenon
  <1>3. n \notin WordsIn(s)
    BY <1>1 DEF WordsIn
  <1>4. CASE c = Word
    <2>1. WordsIn(Append(s, c)) = WordsIn(s) \cup {n}
      <3>1. ASSUME NEW j PROVE j \in 1 .. n <=> j \in 1 .. Len(s) \/ j = n
        BY <1>1
      <3> QED BY <1>2, <1>4, <3>1, Zenon DEF WordsIn
    <2>2. Cardinality(WordsIn(s) \cup {n}) = Cardinality(WordsIn(s)) + 1
      BY <1>3, WordsFinite, FS_AddElement, Zenon
    <2> QED BY <1>4, <2>1, <2>2 DEF One
  <1>5. CASE c # Word
    <2>1. WordsIn(Append(s, c)) = WordsIn(s)
      <3>1. ASSUME NEW j PROVE j \in 1 .. n <=> j \in 1 .. Len(s) \/ j = n
        BY <1>1
      <3> QED BY <1>2, <1>5, <3>1, Zenon DEF WordsIn
    <2>2. Cardinality(WordsIn(s)) \in Nat
      BY WordsFinite
    <2> QED BY <1>5, <2>1, <2>2 DEF One
  <1> QED BY <1>4, <1>5

LEMMA WordsTail ==
    \A s \in Seq(Char) :
        s # <<>> =>
            Cardinality(WordsIn(Tail(s))) + One(Head(s)) <= Cardinality(WordsIn(s))
  <1> TAKE s \in Seq(Char)
  <1> HAVE s # <<>>
  <1> DEFINE rest == WordsIn(s) \ {1}
             shift == [j \in WordsIn(Tail(s)) |-> j + 1]
  <1>1. /\ Len(s) \in Nat \ {0} /\ Head(s) = s[1]
        /\ Tail(s) \in Seq(Char) /\ Len(Tail(s)) = Len(s) - 1
        /\ \A j \in 1 .. Len(Tail(s)) : Tail(s)[j] = s[j + 1]
    BY EmptySeq, HeadTailProperties
  <1>2. shift \in Injection(WordsIn(Tail(s)), rest)
    <2>1. \A j \in WordsIn(Tail(s)) : j + 1 \in rest
      BY <1>1 DEF WordsIn
    <2>2. \A j, h \in WordsIn(Tail(s)) : j + 1 = h + 1 => j = h
      BY <1>1 DEF WordsIn
    <2> QED BY <2>1, <2>2 DEF Injection, IsInjective
  <1>3. IsFiniteSet(WordsIn(s)) /\ Cardinality(WordsIn(s)) \in Nat
    BY WordsFinite
  <1>4. /\ IsFiniteSet(rest)
        /\ Cardinality(rest) = IF 1 \in WordsIn(s) THEN Cardinality(WordsIn(s)) - 1
                               ELSE Cardinality(WordsIn(s))
    BY <1>3, FS_RemoveElement, Zenon
  <1>5. Cardinality(WordsIn(Tail(s))) <= Cardinality(rest)
    BY <1>2, <1>4, FS_Injection, Zenon
  <1>6. 1 \in WordsIn(s) <=> Head(s) = Word
    BY <1>1 DEF WordsIn
  <1>7. Cardinality(WordsIn(Tail(s))) \in Nat
    BY <1>1, WordsFinite
  <1> QED BY <1>3, <1>4, <1>5, <1>6, <1>7 DEF One

(* A line has no more commands than stood there and came.                  *)
LEMMA WordsCollect ==
    ASSUME TypeOK, NEW c \in Char
    PROVE  Cardinality(WordsIn(Collect(c)))
               <= Cardinality(WordsIn(serial_buffer)) + One(c)
  <1>1. Cardinality(WordsIn(serial_buffer)) \in Nat /\ One(c) \in Nat
    BY WordsFinite DEF TypeOK, One
  <1>2. CASE Len(serial_buffer) = LineSize - 1
    BY <1>1, <1>2, WordsNone DEF Collect
  <1>3. CASE Len(serial_buffer) # LineSize - 1
    BY <1>1, <1>3, WordsAppend DEF Collect, TypeOK
  <1> QED BY <1>2, <1>3

LEMMA AccountedStep == RingInv /\ Accounted /\ [Next]_vars => Accounted'
  <1> SUFFICES ASSUME RingInv, Accounted, [Next]_vars PROVE Accounted'
    OBVIOUS
  <1>1. /\ obeyed \in Nat /\ typed \in Nat
        /\ Cardinality(WordsIn(serial_buffer)) \in Nat
        /\ Cardinality(WordsIn(owed)) \in Nat
    BY WordsFinite DEF RingInv, TypeOK
  <1>2. CASE Interrupt
    <2> PICK c \in Char :
            /\ c = Word => typed < MaxWords
            /\ serial_rx_buf' = [serial_rx_buf EXCEPT ![serial_rx_buf_tail] = c]
            /\ serial_rx_buf_tail' = Following(serial_rx_buf_tail)
            /\ owed' = IF Len(owed) = N THEN <<c>> ELSE Append(owed, c)
            /\ typed' = IF c = Word THEN typed + 1 ELSE typed
            /\ UNCHANGED <<serial_rx_buf_head, program, obeyed>>
      BY <1>2 DEF Interrupt
    <2>1. Cardinality(WordsIn(owed')) <= Cardinality(WordsIn(owed)) + One(c)
      <3>1. CASE Len(owed) = N
        BY <1>1, <3>1, WordsOne DEF One
      <3>2. CASE Len(owed) # N
        BY <1>1, <3>2, WordsAppend DEF One, RingInv, TypeOK
      <3> QED BY <3>1, <3>2
    <2>2. typed' = typed + One(c)
      BY <1>1 DEF One
    <2>3. Cardinality(WordsIn(owed')) \in Nat
      BY WordsFinite, InterruptKeeps
    <2>4. Standing' = Standing /\ Standing \in Nat /\ obeyed' = obeyed
      BY <1>1 DEF Standing, program
    <2> QED BY <1>1, <2>1, <2>2, <2>3, <2>4 DEF Accounted, One
  <1>3. CASE Take
    <2> DEFINE c == serial_rx_buf[serial_rx_buf_head]
    <2>1. owed # <<>> /\ pc = "copy"
      BY <1>3 DEF Take, RingInv, ReaderKnows
    <2>2. owed' = Tail(owed) /\ owed' \in Seq(Char) /\ Head(owed) = c
      BY <1>3, <2>1, TakeFromHead DEF Take
    <2>3. Cardinality(WordsIn(owed')) + One(c) <= Cardinality(WordsIn(owed))
      BY <2>1, <2>2, WordsTail DEF RingInv, TypeOK
    <2>4. /\ c \in Char /\ Collect(c) \in Seq(Char)
          /\ Cardinality(WordsIn(Collect(c)))
                 <= Cardinality(WordsIn(serial_buffer)) + One(c)
      BY CollectFits, WordsCollect DEF RingInv, TypeOK
    <2>5. /\ Cardinality(WordsIn(Collect(c))) \in Nat
          /\ Cardinality(WordsIn(owed')) \in Nat
          /\ One(c) \in Nat
      BY <2>2, <2>4, WordsFinite DEF One
    <2>6. typed' = typed /\ Standing = Cardinality(WordsIn(serial_buffer))
      BY <1>3, <2>1 DEF Take, Standing
    <2>7. CASE HasEnter(Collect(c)) /\ IsUpdate(Collect(c))
      <3>1. pc' = "update" /\ obeyed' = obeyed + 1
        BY <1>3, <2>7 DEF Take
      <3>2. WordsIn(Collect(c)) # {}
        BY <2>4, <2>7 DEF IsUpdate, Visible, WordsIn
      <3>3. Cardinality(WordsIn(Collect(c))) # 0
        BY <2>4, <3>2, WordsFinite, FS_EmptySet, Zenon
      <3> QED BY <1>1, <2>3, <2>4, <2>5, <2>6, <3>1, <3>3 DEF Accounted, Standing
    <2>8. CASE ~(HasEnter(Collect(c)) /\ IsUpdate(Collect(c)))
      <3>1. /\ pc' = "poll" /\ obeyed' = obeyed
            /\ serial_buffer' \in {<<>>, Collect(c)}
        BY <1>3, <2>8 DEF Take
      <3>2. Standing' <= Cardinality(WordsIn(Collect(c))) /\ Standing' \in Nat
        BY <2>5, <3>1, WordsNone DEF Standing
      <3> QED BY <1>1, <2>3, <2>4, <2>5, <2>6, <3>1, <3>2 DEF Accounted
    <2> QED BY <2>7, <2>8
  <1>4. CASE UpdateDone
    BY <1>1, <1>4, WordsNone DEF UpdateDone, Accounted, Standing
  <1>5. CASE LoadTail \/ NothingReceived \/ SomethingReceived
    BY <1>5 DEF LoadTail, NothingReceived, SomethingReceived, Accounted, Standing
  <1>6. CASE UNCHANGED vars
    BY <1>6 DEF vars, program, Accounted, Standing
  <1> QED BY <1>2, <1>3, <1>4, <1>5, <1>6 DEF Next, Loop

(* No command is obeyed that was not typed, and none twice                 *)
(* (sio2host.c:142-207, main.cpp:149-347).                                 *)
THEOREM CommandsObeyedOnce == Spec => []ObeyedOnce
  <1>1. Init => Accounted
    BY WordsNone DEF Init, Accounted, Standing
  <1>2. Spec => []Accounted
    BY <1>1, AccountedStep, RingInvariance, PTL DEF Spec
  <1>3. RingInv /\ Accounted => ObeyedOnce
    <2>1. \A s \in Seq(Char) : Cardinality(WordsIn(s)) \in Nat
      BY WordsFinite
    <2> QED BY <2>1 DEF RingInv, TypeOK, Accounted, Standing, ObeyedOnce
  <1> QED BY <1>2, <1>3, RingInvariance, PTL
=============================================================================
