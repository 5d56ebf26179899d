-------------------------------- MODULE Lists --------------------------------
(* Operations on the doubly linked lists of rtservice.h, as sequences. *)
EXTENDS Integers, Sequences, SequencesExt

(* rt_list_remove of a node that can be in the list s. *)
Without(s, t) ==
  IF \E i \in DOMAIN s : s[i] = t
  THEN RemoveAt(s, CHOOSE i \in DOMAIN s : s[i] = t)
  ELSE s
==============================================================================
