----------------------------- MODULE AbstractMap -----------------------------
(* What every key-value store here promises: the last value put under a key. *)
CONSTANTS Key, Value,
          NoValue    \* the answer for a key that is not there: std::nullopt

ASSUME NoValueApart == NoValue \notin Value

VARIABLE kv          \* what get(k) must answer, for every key k

AMInit == kv = [k \in Key |-> NoValue]

AMPut(k, v) == kv' = [kv EXCEPT ![k] = v]

AMRemove(k) == kv' = [kv EXCEPT ![k] = NoValue]

AMNext == \E k \in Key : AMRemove(k) \/ \E v \in Value : AMPut(k, v)

AMSpec == AMInit /\ [][AMNext]_kv
=============================================================================
