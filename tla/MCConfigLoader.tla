--------------------------- MODULE MCConfigLoader ---------------------------
(* Files of up to seven lines: two complete backends and more. Values lie  *)
(* on and just beyond limits; interval 800 collides with the default       *)
(* timeout, interval 801 does not, timeout 3000 with the default interval. *)
EXTENDS ConfigLoader

CONSTANTS A, B, Loud

Sec(key, name) == [kind |-> "section", key |-> key, value |-> name]
Pair(key, value) == [kind |-> "pair", key |-> key, value |-> value]

SomeLines ==
  {[kind |-> k, key |-> "", value |-> None] : k \in {"blank", "malformed"}}
    \cup {Sec("server", None), Sec("health_check", None), Sec("backend", A), Sec("backend", B),
          Sec("other", None)}
    \cup {Pair("host", A), Pair("host", B), Pair("port", 65535), Pair("port", 65536),
          Pair("weight", 0), Pair("weight", 1000)}
    \cup {Pair("interval_ms", 801), Pair("interval_ms", 800), Pair("timeout_ms", 3000),
          Pair("failure_threshold", 0)}
    \cup {Pair("workers", 128), Pair("workers", Loud), Pair("log_level", Loud)}

=============================================================================
