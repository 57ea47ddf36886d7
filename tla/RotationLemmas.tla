--------------------------- MODULE RotationLemmas ---------------------------
(***************************************************************************)
(* Arithmetic of walking round n members from a rotating start, as         *)
(* BackendPool::acquire() does with the backends and selectWorker() of     *)
(* main.cpp with the workers.                                              *)
(***************************************************************************)
EXTENDS Integers, TLAPS

(* Arithmetic of the rotation: x % n below n.                              *)
LEMMA ModSmall ==
  ASSUME NEW n \in Nat \ {0}, NEW x \in 0 .. n - 1
  PROVE  x % n = x
OBVIOUS

(* The same one turn further.                                              *)
LEMMA ModWrap ==
  ASSUME NEW n \in Nat \ {0}, NEW x \in n .. 2 * n - 1
  PROVE  x % n = x - n
OBVIOUS

(* Walking n members from any start meets each exactly once: place x of    *)
(* the rotation is one member, and each member has one place.              *)
LEMMA Rotation ==
  ASSUME NEW n \in Nat \ {0}, NEW start \in 0 .. n - 1, NEW x \in 0 .. n - 1
  PROVE  /\ (start + x) % n \in 0 .. n - 1
         /\ (((start + x) % n) - start + n) % n = x
         /\ (x - start + n) % n \in 0 .. n - 1
         /\ (start + ((x - start + n) % n)) % n = x
<1>1. (start + x) % n \in 0 .. n - 1 /\ (((start + x) % n) - start + n) % n = x
  <2>1. CASE start + x < n
    <3>1. (start + x) % n = start + x
      BY <2>1, ModSmall
    <3>2. start + x - start + n = x + n /\ (x + n) % n = x
      BY ModWrap
    <3> QED BY <2>1, <3>1, <3>2
  <2>2. CASE start + x >= n
    <3>1. (start + x) % n = start + x - n
      BY <2>2, ModWrap
    <3>2. (start + x - n) - start + n = x /\ x % n = x
      BY ModSmall
    <3> QED BY <2>2, <3>1, <3>2
  <2> QED BY <2>1, <2>2
<1>2. (x - start + n) % n \in 0 .. n - 1 /\ (start + ((x - start + n) % n)) % n = x
  <2>1. CASE x < start
    <3>1. (x - start + n) % n = x - start + n
      BY <2>1, ModSmall
    <3>2. start + (x - start + n) = x + n /\ (x + n) % n = x
      BY ModWrap
    <3> QED BY <2>1, <3>1, <3>2
  <2>2. CASE x >= start
    <3>1. (x - start + n) % n = x - start
      BY <2>2, ModWrap
    <3>2. start + (x - start) = x /\ x % n = x
      BY ModSmall
    <3> QED BY <2>2, <3>1, <3>2
  <2> QED BY <2>1, <2>2
<1> QED BY <1>1, <1>2

=============================================================================
