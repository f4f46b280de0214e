----------------------- MODULE AtMostOnceRegistration -----------------------
(***************************************************************************)
(* What a client that sends an Idempotency-Key is promised: a key of a     *)
(* user registers at most one problem, the first content sent with it, and *)
(* nothing changes or removes it afterwards.  Problems registered without  *)
(* a key only accumulate.                                                  *)
(*   (doc comment of registerAndExecute, ai-orchestrator.service.ts)       *)
(***************************************************************************)
CONSTANTS Users, Keys, Contents, Ids, Absent

VARIABLES
    keyed,  \* the content registered under (user, key), or Absent
    plain   \* the problems registered without a key

promise == <<keyed, plain>>

Init ==
    /\ keyed = [x \in Users \X Keys |-> Absent]
    /\ plain = {}

RegisterKeyed(x, content) ==
    /\ keyed[x] = Absent
    /\ keyed' = [keyed EXCEPT ![x] = content]
    /\ UNCHANGED plain

RegisterPlain(id) ==
    /\ id \notin plain
    /\ plain' = plain \cup {id}
    /\ UNCHANGED keyed

Next ==
    \/ \E x \in Users \X Keys, c \in Contents : RegisterKeyed(x, c)
    \/ \E id \in Ids : RegisterPlain(id)

Spec == Init /\ [][Next]_promise

=============================================================================
