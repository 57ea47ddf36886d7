-------------------------- MODULE ByteBufferProofs --------------------------
(***************************************************************************)
(* ByteBuffer is correct for every capacity and every set of byte values:  *)
(* its cursors stay ordered, a drained buffer is rewound, and the buffer   *)
(* with in-place compaction implements the bounded FIFO of ByteFifo.       *)
(***************************************************************************)
EXTENDS ByteBuffer, TLAPS

USE CapacityAssumption, ByteAssumption

(* The cursor facts every proof below starts from.                         *)
LEMMA CursorFacts ==
  ASSUME TypeOK
  PROVE  /\ cursor.readIndex \in 0 .. Capacity
         /\ cursor.writeIndex \in 0 .. Capacity
         /\ cursor.readIndex <= cursor.writeIndex
         /\ readableBytes(cursor) \in 0 .. Capacity
         /\ writableBytes(cursor) \in 0 .. Capacity
         /\ cursor = [readIndex |-> cursor.readIndex, writeIndex |-> cursor.writeIndex]
BY DEF TypeOK, Cursor, readableBytes, writableBytes

(* The invariant the other facts rest on: TypeOK with DrainedIsRewound,    *)
(* the second because consume() rewinds exactly when the cursors meet.     *)
Inv == TypeOK /\ DrainedIsRewound

LEMMA InitInv == Init => Inv
BY DEF Init, Inv, TypeOK, Cursor, EmptyCursor, DrainedIsRewound, empty,
       readableBytes, writableBytes

LEMMA NextInv == Inv /\ [Next]_vars => Inv'
<1> SUFFICES ASSUME Inv, [Next]_vars PROVE Inv'
    OBVIOUS
<1> USE DEF Inv
<1>0. /\ cursor.readIndex \in 0 .. Capacity
      /\ cursor.writeIndex \in 0 .. Capacity
      /\ cursor.readIndex <= cursor.writeIndex
  BY CursorFacts
<1>1. ASSUME NEW n \in 1 .. writableBytes(cursor), NEW bytes \in [1 .. n -> Byte], Receive(bytes)
      PROVE  Inv'
  <2>1. Len(bytes) = n
    BY <1>0 DEF writableBytes
  <2>2. storage' \in [Positions -> Byte]
    BY <1>0, <1>1, <2>1 DEF Receive, Positions, TypeOK, writableBytes
  <2>3. cursor' = [readIndex |-> cursor.readIndex, writeIndex |-> cursor.writeIndex + n]
    BY <1>1, <2>1, CursorFacts DEF Receive, hasWritten, TypeOK, Cursor
  <2> QED
    BY <1>0, <2>2, <2>3 DEF TypeOK, Cursor, DrainedIsRewound, empty, readableBytes, writableBytes
<1>2. ASSUME NEW n \in 1 .. readableBytes(cursor), Consume(n)
      PROVE  Inv'
  <2>1. CASE cursor.readIndex + n = cursor.writeIndex
    BY <1>0, <1>2, <2>1 DEF Consume, consume, EmptyCursor, TypeOK, Cursor, DrainedIsRewound,
       empty, readableBytes, writableBytes
  <2>2. CASE cursor.readIndex + n # cursor.writeIndex
    <3>1. cursor' = [readIndex |-> cursor.readIndex + n, writeIndex |-> cursor.writeIndex]
      BY <1>2, <2>2 DEF Consume, consume, TypeOK, Cursor
    <3> QED
      BY <1>0, <1>2, <2>2, <3>1 DEF Consume, TypeOK, Cursor, DrainedIsRewound,
         empty, readableBytes, writableBytes
  <2> QED BY <2>1, <2>2
<1>3. CASE Compact
  <2>1. cursor' = [readIndex |-> 0, writeIndex |-> readableBytes(cursor)]
    BY <1>3 DEF Compact, makeWritable
  <2>2. storage' \in [Positions -> Byte]
    BY <1>0, <1>3 DEF Compact, MovedToFront, Positions, TypeOK, readableBytes
  <2> QED
    BY <1>0, <2>1, <2>2 DEF TypeOK, Cursor, DrainedIsRewound, empty, readableBytes, writableBytes
<1>4. CASE UNCHANGED vars
  BY <1>4 DEF vars, TypeOK, DrainedIsRewound, empty, readableBytes, writableBytes
<1> QED BY <1>1, <1>2, <1>3, <1>4 DEF Next

(* The cursors never cross and never leave the storage: hasWritten(),      *)
(* consume() and makeWritable() index storage_ in bounds.                  *)
THEOREM TypeCorrect == Spec => []TypeOK
<1>1. Inv => TypeOK BY DEF Inv
<1> QED BY InitInv, NextInv, <1>1, PTL DEF Spec

(* An empty buffer always offers its whole capacity to recv(), so a session*)
(* whose buffer drained is armed for EPOLLIN again.                        *)
THEOREM DrainedRewound == Spec => []DrainedIsRewound
<1>1. Inv => DrainedIsRewound BY DEF Inv
<1> QED BY InitInv, NextInv, <1>1, PTL DEF Spec

(* readInto() meets a buffer without tail space only if it is full.        *)
THEOREM CompactionFrees == Spec => []CompactionFreesHead
<1>1. Inv => CompactionFreesHead
  <2> SUFFICES ASSUME Inv PROVE CompactionFreesHead
      OBVIOUS
  <2>1. CASE NeedsCompaction(cursor)
    <3>1. makeWritable(cursor) = [readIndex |-> 0, writeIndex |-> readableBytes(cursor)]
      BY <2>1 DEF makeWritable
    <3> QED BY <3>1, CursorFacts DEF Inv, CompactionFreesHead, writableBytes
  <2>2. CASE ~NeedsCompaction(cursor)
    <3>1. makeWritable(cursor) = cursor
      BY <2>2 DEF makeWritable
    <3>2. writableBytes(cursor) # 0 \/ cursor.readIndex = 0
      BY <2>2, CursorFacts DEF Inv, NeedsCompaction
    <3>3. CASE writableBytes(cursor) # 0
      BY <3>1, <3>3 DEF CompactionFreesHead
    <3>4. CASE cursor.readIndex = 0
      <4>1. cursor.writeIndex \in 0 .. Capacity
        BY CursorFacts DEF Inv
      <4> QED BY <3>1, <3>4, <4>1 DEF CompactionFreesHead, writableBytes, readableBytes
    <3> QED BY <3>2, <3>3, <3>4
  <2> QED BY <2>1, <2>2
<1> QED BY InitInv, NextInv, <1>1, PTL DEF Spec

-----------------------------------------------------------------------------
(* The refinement. Waiting is a sequence of readableBytes() bytes.         *)
LEMMA WaitingIsSeq ==
  TypeOK => /\ Waiting \in Seq(Byte)
            /\ Len(Waiting) = readableBytes(cursor)
            /\ readableBytes(cursor) \in Nat
            /\ \A i \in 1 .. readableBytes(cursor) :
                  Waiting[i] = storage[cursor.readIndex + i - 1]
<1> SUFFICES ASSUME TypeOK
             PROVE  /\ Waiting \in Seq(Byte)
                    /\ Len(Waiting) = readableBytes(cursor)
                    /\ readableBytes(cursor) \in Nat
                    /\ \A i \in 1 .. readableBytes(cursor) :
                          Waiting[i] = storage[cursor.readIndex + i - 1]
    OBVIOUS
<1>1. readableBytes(cursor) \in Nat
  BY CursorFacts
<1>2. \A i \in 1 .. readableBytes(cursor) : storage[cursor.readIndex + i - 1] \in Byte
  BY CursorFacts DEF TypeOK, Positions, readableBytes
<1> QED BY <1>1, <1>2 DEF Waiting

(* A received run of bytes is appended behind the waiting ones.            *)
LEMMA ReceivePuts ==
  ASSUME Inv, Inv', NEW n \in 1 .. writableBytes(cursor), NEW bytes \in [1 .. n -> Byte],
         Receive(bytes)
  PROVE  Fifo!Put
<1>0. /\ cursor.readIndex \in 0 .. Capacity
      /\ cursor.writeIndex \in 0 .. Capacity
      /\ cursor.readIndex <= cursor.writeIndex
      /\ n \in 1 .. Capacity - cursor.writeIndex
  BY CursorFacts DEF Inv, writableBytes
<1>1. Len(bytes) = n /\ bytes \in Seq(Byte)
  BY <1>0
<1>2. cursor' = [readIndex |-> cursor.readIndex, writeIndex |-> cursor.writeIndex + n]
  BY <1>1, CursorFacts DEF Receive, hasWritten, Inv, TypeOK, Cursor
<1>3. readableBytes(cursor)' = readableBytes(cursor) + n
  BY <1>0, <1>2 DEF readableBytes
<1>4. Waiting' = Waiting \o bytes
  <2>1. Waiting' \in Seq(Byte) /\ Len(Waiting') = readableBytes(cursor) + n
    <3>1. readableBytes(cursor)' \in Nat
      BY <1>3, WaitingIsSeq DEF Inv
    <3>2. \A i \in 1 .. readableBytes(cursor)' : storage'[cursor'.readIndex + i - 1] \in Byte
      BY DEF Inv, TypeOK, Cursor, Positions, readableBytes
    <3> QED BY <1>3, <3>1, <3>2 DEF Waiting
  <2>2. Len(Waiting \o bytes) = readableBytes(cursor) + n /\ Waiting \o bytes \in Seq(Byte)
    <3>1. Waiting \in Seq(Byte) /\ Len(Waiting) = readableBytes(cursor)
      BY WaitingIsSeq DEF Inv
    <3> QED BY <1>1, <3>1
  <2>3. ASSUME NEW i \in 1 .. readableBytes(cursor) + n
        PROVE  Waiting'[i] = (Waiting \o bytes)[i]
    <3>1. Waiting'[i] = storage'[cursor.readIndex + i - 1]
      BY <1>2, <1>3 DEF Waiting
    <3>2. CASE i <= readableBytes(cursor)
      <4>1. storage'[cursor.readIndex + i - 1] = storage[cursor.readIndex + i - 1]
        BY <1>0, <1>1, <3>2 DEF Receive, Positions, readableBytes
      <4>2. (Waiting \o bytes)[i] = Waiting[i]
        BY <1>1, <3>2, WaitingIsSeq DEF Inv
      <4>3. Waiting[i] = storage[cursor.readIndex + i - 1]
        BY <3>2, WaitingIsSeq, CursorFacts DEF Inv
      <4> QED BY <3>1, <4>1, <4>2, <4>3
    <3>3. CASE i > readableBytes(cursor)
      <4>1. /\ cursor.readIndex + i - 1 \in Positions
            /\ cursor.readIndex + i - 1 \in cursor.writeIndex .. cursor.writeIndex + n - 1
            /\ (cursor.readIndex + i - 1) - cursor.writeIndex + 1 = i - readableBytes(cursor)
        BY <1>0, <3>3 DEF Positions, readableBytes
      <4>3. storage'[cursor.readIndex + i - 1] = bytes[i - readableBytes(cursor)]
        BY <1>1, <4>1 DEF Receive
      <4>2. (Waiting \o bytes)[i] = bytes[i - readableBytes(cursor)]
        BY <1>1, <3>3, WaitingIsSeq, CursorFacts DEF Inv
      <4> QED BY <3>1, <4>2, <4>3
    <3>4. readableBytes(cursor) \in Nat
      BY WaitingIsSeq DEF Inv
    <3>5. i <= readableBytes(cursor) \/ i > readableBytes(cursor)
      BY <3>4
    <3> QED BY <3>2, <3>3, <3>5
  <2> QED BY <2>1, <2>2, <2>3
<1>5. n \in 1 .. Capacity - Len(Waiting)
  BY <1>0, WaitingIsSeq DEF Inv, readableBytes
<1> QED BY <1>4, <1>5 DEF Fifo!Put

(* Bytes accepted by send() leave from the front.                          *)
LEMMA ConsumeTakes ==
  ASSUME Inv, Inv', NEW n \in 1 .. readableBytes(cursor), Consume(n)
  PROVE  Fifo!Take
<1>0. /\ cursor.readIndex \in 0 .. Capacity
      /\ cursor.writeIndex \in 0 .. Capacity
      /\ cursor.readIndex <= cursor.writeIndex
      /\ n \in 1 .. cursor.writeIndex - cursor.readIndex
  BY CursorFacts DEF Inv, readableBytes
<1>1. Len(Waiting) = readableBytes(cursor) /\ Waiting \in Seq(Byte)
  BY WaitingIsSeq DEF Inv
<1>2. readableBytes(cursor)' = readableBytes(cursor) - n
  BY <1>0 DEF Consume, consume, EmptyCursor, readableBytes, Inv, TypeOK, Cursor
<1>3. Waiting' = [i \in 1 .. readableBytes(cursor) - n |-> storage[cursor.readIndex + n + i - 1]]
  <2>1. CASE cursor.readIndex + n = cursor.writeIndex
    <3>1. readableBytes(cursor) - n = 0
      BY <1>0, <2>1 DEF readableBytes
    <3> QED BY <1>2, <3>1 DEF Waiting
  <2>2. CASE cursor.readIndex + n # cursor.writeIndex
    <3>1. cursor' = [readIndex |-> cursor.readIndex + n, writeIndex |-> cursor.writeIndex]
      BY <2>2 DEF Consume, consume, Inv, TypeOK, Cursor
    <3> QED BY <1>2, <3>1 DEF Waiting, Consume
  <2> QED BY <2>1, <2>2
<1>4. SubSeq(Waiting, n + 1, Len(Waiting))
        = [i \in 1 .. readableBytes(cursor) - n |-> Waiting[n + i]]
  BY <1>0, <1>1 DEF readableBytes
<1>5. \A i \in 1 .. readableBytes(cursor) - n : Waiting[n + i] = storage[cursor.readIndex + n + i - 1]
  BY <1>0, WaitingIsSeq DEF Inv, readableBytes
<1> QED BY <1>1, <1>3, <1>4, <1>5 DEF Fifo!Take

(* In-place compaction does not change what waits to be sent.              *)
LEMMA CompactStutters ==
  ASSUME Inv, Compact
  PROVE  Waiting' = Waiting
<1>1. cursor' = [readIndex |-> 0, writeIndex |-> readableBytes(cursor)]
  BY DEF Compact, makeWritable
<1>2. readableBytes(cursor)' = readableBytes(cursor)
  BY <1>1, CursorFacts DEF Inv, readableBytes
<1>3. \A i \in 1 .. readableBytes(cursor) : storage'[i - 1] = storage[cursor.readIndex + i - 1]
  <2> TAKE i \in 1 .. readableBytes(cursor)
  <2>1. i - 1 \in Positions /\ i - 1 < readableBytes(cursor)
    BY CursorFacts DEF Inv, Positions
  <2>2. storage'[i - 1] = storage[cursor.readIndex + (i - 1)]
    BY <2>1 DEF Compact, MovedToFront
  <2> QED BY <2>2, CursorFacts DEF Inv
<1>4. \A i \in 1 .. readableBytes(cursor) : cursor'.readIndex + i - 1 = i - 1
  BY <1>1, CursorFacts DEF Inv
<1> QED BY <1>2, <1>3, <1>4 DEF Waiting

(* Refinement, for every capacity: recv() puts, send() takes and           *)
(* makeWritable() stutters, so no byte is lost, repeated or reordered.     *)
THEOREM Refinement == Spec => ImplementsFifo
<1>1. Init => Fifo!Init
  BY DEF Init, Fifo!Init, Waiting, EmptyCursor, readableBytes
<1>2. Inv /\ Inv' /\ [Next]_vars => [Fifo!Next]_Waiting
  <2> SUFFICES ASSUME Inv, Inv', [Next]_vars PROVE [Fifo!Next]_Waiting
      OBVIOUS
  <2>1. ASSUME NEW n \in 1 .. writableBytes(cursor), NEW bytes \in [1 .. n -> Byte], Receive(bytes)
        PROVE  Fifo!Next
    BY <2>1, ReceivePuts DEF Fifo!Next
  <2>2. ASSUME NEW n \in 1 .. readableBytes(cursor), Consume(n)
        PROVE  Fifo!Next
    BY <2>2, ConsumeTakes DEF Fifo!Next
  <2>3. CASE Compact
    BY <2>3, CompactStutters
  <2>4. CASE UNCHANGED vars
    BY <2>4 DEF vars, Waiting, readableBytes
  <2> QED BY <2>1, <2>2, <2>3, <2>4 DEF Next
<1> QED BY <1>1, <1>2, InitInv, NextInv, PTL DEF Spec, ImplementsFifo, Fifo!Spec

=============================================================================
