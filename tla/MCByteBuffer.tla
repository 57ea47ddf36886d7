---------------------------- MODULE MCByteBuffer ----------------------------
(* A four-byte buffer over two byte values; every receive and every send  *)
(* length occurs, and compaction occurs with one to three bytes moved.  *)
EXTENDS ByteBuffer

=============================================================================
