------------------------------ MODULE MCGateway -----------------------------
(* Three workers, three clients that come again and again, queues of one   *)
(* place and four descriptors, so that accept4() and socket() run out.     *)
EXTENDS Gateway

=============================================================================
