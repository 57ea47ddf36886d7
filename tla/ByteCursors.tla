---------------------------- MODULE ByteCursors ----------------------------
(***************************************************************************)
(* The cursor arithmetic of fluxgate::ByteBuffer: a fixed-capacity buffer  *)
(* is the pair readIndex_ / writeIndex_ over a storage of Capacity bytes.  *)
(* ByteBuffer.tla adds the storage itself; ProxySession.tla uses the       *)
(* cursors alone, because forwarding only depends on how many bytes wait.  *)
(***************************************************************************)
EXTENDS Integers

CONSTANT Capacity       \* storage_.size(): config.bufferSize, at least 4096

ASSUME CapacityAssumption == Capacity \in Nat \ {0}

Cursor == [readIndex : 0 .. Capacity, writeIndex : 0 .. Capacity]

EmptyCursor == [readIndex |-> 0, writeIndex |-> 0]

readableBytes(b) == b.writeIndex - b.readIndex

(* Only the tail counts as writable; space freed at the head does not.     *)
writableBytes(b) == Capacity - b.writeIndex

empty(b) == readableBytes(b) = 0

(* Mutant: the write cursor moves one byte too far.                        *)
WrittenOneTooMany(b, bytes) == [b EXCEPT !.writeIndex = @ + bytes + 1]

hasWritten(b, bytes) == [b EXCEPT !.writeIndex = @ + bytes]

(* Mutant: the cursors are not rewound when the buffer drains.             *)
ConsumeWithoutRewind(b, bytes) == [b EXCEPT !.readIndex = @ + bytes]

consume(b, bytes) ==
  IF b.readIndex + bytes = b.writeIndex
  THEN EmptyCursor
  ELSE [b EXCEPT !.readIndex = @ + bytes]

(* Compaction happens only with a full tail and a freed head.              *)
NeedsCompaction(b) == writableBytes(b) = 0 /\ b.readIndex > 0

(* Mutant: compaction moves the read cursor and forgets the write cursor.  *)
CompactReadCursorOnly(b) ==
  IF NeedsCompaction(b) THEN [b EXCEPT !.readIndex = 0] ELSE b

makeWritable(b) ==
  IF NeedsCompaction(b)
  THEN [readIndex |-> 0, writeIndex |-> readableBytes(b)]
  ELSE b

=============================================================================
