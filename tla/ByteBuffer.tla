----------------------------- MODULE ByteBuffer -----------------------------
(***************************************************************************)
(* fluxgate::ByteBuffer with its storage: what recv() puts at writeData()  *)
(* is what send() later takes from readData(), across in-place compaction. *)
(* The caller's precondition (never more than writableBytes() received,    *)
(* never more than readableBytes() consumed) is the one readInto() and     *)
(* writeFrom() establish by passing exactly those lengths to recv/send.    *)
(***************************************************************************)
EXTENDS ByteCursors, Sequences

CONSTANTS Byte,     \* the values a byte can take
          Zero      \* the value std::vector<char> fills its storage with

ASSUME ByteAssumption == Zero \in Byte

VARIABLES storage,  \* storage_
          cursor    \* readIndex_ and writeIndex_

vars == <<storage, cursor>>

Positions == 0 .. Capacity - 1

TypeOK ==
  /\ storage \in [Positions -> Byte]
  /\ cursor \in Cursor
  /\ cursor.readIndex <= cursor.writeIndex

Init ==
  /\ storage = [i \in Positions |-> Zero]
  /\ cursor = EmptyCursor

(* recv() fills the tail from writeData() on, then hasWritten() claims it. *)
Receive(bytes) ==
  /\ storage' = [i \in Positions |->
                   IF i \in cursor.writeIndex .. cursor.writeIndex + Len(bytes) - 1
                   THEN bytes[i - cursor.writeIndex + 1]
                   ELSE storage[i]]
  /\ cursor' = hasWritten(cursor, Len(bytes))

(* send() accepted the first n bytes at readData().                        *)
Consume(n) ==
  /\ cursor' = consume(cursor, n)
  /\ UNCHANGED storage

(* Mutant: the copy stops one byte short of the write cursor.              *)
MoveAllButLast ==
  [i \in Positions |-> IF i < readableBytes(cursor) - 1
                       THEN storage[cursor.readIndex + i]
                       ELSE storage[i]]

(* std::copy of [readIndex_, writeIndex_) onto the start of the storage.   *)
MovedToFront ==
  [i \in Positions |-> IF i < readableBytes(cursor)
                       THEN storage[cursor.readIndex + i]
                       ELSE storage[i]]

Compact ==
  /\ NeedsCompaction(cursor)
  /\ storage' = MovedToFront
  /\ cursor' = makeWritable(cursor)

Next ==
  \/ \E n \in 1 .. writableBytes(cursor) : \E bytes \in [1 .. n -> Byte] : Receive(bytes)
  \/ \E n \in 1 .. readableBytes(cursor) : Consume(n)
  \/ Compact

Spec == Init /\ [][Next]_vars

-----------------------------------------------------------------------------
(* The bytes waiting to be sent, in the order send() will be given them.   *)
Waiting == [i \in 1 .. readableBytes(cursor) |-> storage[cursor.readIndex + i - 1]]

Fifo == INSTANCE ByteFifo WITH contents <- Waiting

(* Every byte received is offered to send() exactly once and in order:     *)
(* ByteBuffer implements a bounded FIFO, and makeWritable() is invisible.  *)
ImplementsFifo == Fifo!Spec

(* A buffer that drained has both cursors at zero, so an empty buffer      *)
(* always has its whole capacity writable: clientEvents() and              *)
(* upstreamEvents() test writableBytes() without calling makeWritable().   *)
DrainedIsRewound == empty(cursor) => writableBytes(cursor) = Capacity

(* readInto() gives up only when the buffer is really full: after          *)
(* makeWritable() no tail space means every position holds an unsent byte. *)
CompactionFreesHead ==
  writableBytes(makeWritable(cursor)) = 0 => readableBytes(cursor) = Capacity

=============================================================================
