--------------------------- MODULE MCProxySession ---------------------------
(* Bounds for the session: a peer that may send one byte more than the     *)
(* buffer holds makes its buffer fill, compact and push back.              *)
EXTENDS ProxySession

LongRequest == [s \in Side |-> IF s = "client" THEN Capacity + 1 ELSE 1]

LongResponse == [s \in Side |-> IF s = "client" THEN 1 ELSE Capacity + 1]

=============================================================================
