------------------------------ MODULE IdealPSI ------------------------------
(***************************************************************************)
(* What a private set intersection promises, as seen by the clients: one    *)
(* client asks another, and either the request is refused and nothing       *)
(* changes, or the asking client, and no other, learns the intersection of  *)
(* the two data sets.  There is no cloud, no key and no memory to release.  *)
(***************************************************************************)
CONSTANTS Clients, Data, NoRequest

VARIABLES
  pending,  \* the request under way, or NoRequest
  answers   \* answers[c]: the last intersection c learned

psiVars == <<pending, answers>>

Init ==
  /\ pending = NoRequest
  /\ answers = [c \in Clients |-> {}]

Ask(c, d) ==
  /\ pending = NoRequest
  /\ pending' = [who |-> c, of |-> d, done |-> FALSE]
  /\ UNCHANGED answers

Refuse ==
  /\ pending # NoRequest
  /\ ~pending.done
  /\ pending' = NoRequest
  /\ UNCHANGED answers

Learn ==
  /\ pending # NoRequest
  /\ ~pending.done
  /\ pending' = [who |-> pending.who, of |-> pending.of, done |-> TRUE]
  /\ answers' = [answers EXCEPT ![pending.who] = Data[pending.who] \cap Data[pending.of]]

Finish ==
  /\ pending # NoRequest
  /\ pending.done
  /\ pending' = NoRequest
  /\ UNCHANGED answers

Next ==
  \/ \E c, d \in Clients : c # d /\ Ask(c, d)
  \/ Refuse \/ Learn \/ Finish

\* Every request is refused or answered.
Spec == Init /\ [][Next]_psiVars /\ WF_psiVars(Refuse \/ Learn \/ Finish)
=============================================================================
