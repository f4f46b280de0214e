------------------------------ MODULE MCRequests ------------------------------
(***************************************************************************)
(* Two questions a request is asked before it does anything, in one        *)
(* instance for TLC: whether its actor may (MCOperationalScope), and       *)
(* whether it was served before (RegistrationIdempotency).  They share     *)
(* nothing: attempts to register are made in one state of the policy, and  *)
(* the policy decides when none was made.                                  *)
(*                                                                         *)
(* Three attempts of two users over one key and two contents: a retry, a   *)
(* double click, the key reused with another content, the same key in the  *)
(* hands of another user, and a submission without a key.                  *)
(***************************************************************************)
EXTENDS MCOperationalScope, RegistrationIdempotency

CONSTANTS ana, beto, k1, c1, c2

MCSubmissions ==
    {[user |-> ana, key |-> k1, content |-> c1],
     [user |-> ana, key |-> k1, content |-> c2],
     [user |-> beto, key |-> k1, content |-> c1],
     [user |-> ana, key |-> Absent, content |-> c1]}

RegistrationIdle == \A r \in Attempts : pc[r] = "new"

ScopeIdle ==
    /\ granted = {}
    /\ actor = [id |-> CHOOSE u \in People : TRUE, role |-> "ADMIN", coordination |-> None,
                permissions |-> {}]
    /\ situation = [coordination |-> None, affected |-> None,
                    createdBy |-> CHOOSE u \in People : TRUE, kind |-> "INTERNAL",
                    status |-> "OPEN"]

RequestsInit == ScopeInit /\ Init

RequestsNext ==
    \/ RegistrationIdle /\ Decide /\ UNCHANGED vars
    \/ ScopeIdle /\ Next /\ UNCHANGED scopeVars

RequestsSpec ==
    /\ RequestsInit /\ [][RequestsNext]_<<scopeVars, vars>>
    /\ \A r \in Attempts : WF_vars(Proceed(r))

=============================================================================
