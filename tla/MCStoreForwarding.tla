------------------------- MODULE MCStoreForwarding -------------------------
(* A view of StoreForwarding for model checking: the payload of a slot is  *)
(* read only while its store is valid, and overwritten when the next store *)
(* executes, so states that differ only in stale payloads behave alike.    *)
EXTENDS StoreForwarding

Significant ==
  <<[i \in Slots |->
       IF buffer[i].valid THEN buffer[i]
                          ELSE [buffer[i] EXCEPT !.store = ResetStore]],
    head_ptr, tail_ptr, commit_ptr, count, state, load, cache, serving>>
=============================================================================
