------------------------------ MODULE Accounts ------------------------------
(***************************************************************************)
(* The row of one user, and the requests that save it whole: PATCH         *)
(* /users/:id of an administrator (UsersService.update), PATCH             *)
(* /users/me/onboarding of the user (updateOnboarding) and a login by      *)
(* Google or by email (AuthService).                                       *)
(*                                                                         *)
(* Like every repository.save of the program each is three steps: it loads *)
(* the entity; save() reads the row again and notes the columns in which   *)
(* the entity differs; it writes those columns of the entity.              *)
(***************************************************************************)

CONSTANTS Admins, Onboardings, Logins, Roles

Requests == Admins \cup Onboardings \cup Logins

\* What PATCH /users/:id may ask, of what the guards look at.
Edits == [column : {"status"}, to : {"ACTIVE", "INACTIVE"}] \cup
         [column : {"role"}, to : Roles]

VARIABLES
    account,      \* the columns of the row
    requests,     \* where each request is, its entity and what it will write
    deactivated   \* history: an administrator deactivated the user, none activated it since

accountVars == <<account, requests, deactivated>>

Columns == {"status", "role", "visits"}

AccountInit ==
    /\ account \in [status : {"ACTIVE"}, role : Roles, visits : {{}}]
    /\ requests = [r \in Requests |->
                      [pc |-> "new", edit |-> "none", entity |-> account, changed |-> {}]]
    /\ deactivated = FALSE

\* RbacService.resolveActiveAuthorization, asked by AuthorizationEnrichmentGuard
\* before every request: the token only says who the user is.
Authorized == account.status = "ACTIVE"

Load(r, from, edit, entity) ==
    /\ requests[r].pc = from
    /\ requests' = [requests EXCEPT ![r] = [pc |-> "loaded", edit |-> edit,
                                            entity |-> entity, changed |-> {}]]
    /\ UNCHANGED <<account, deactivated>>

\* The guard lets the user in, with a query of its own.
AdmitOnboarding(r) ==
    /\ Authorized
    /\ requests[r].pc = "new"
    /\ requests' = [requests EXCEPT ![r].pc = "admitted"]
    /\ UNCHANGED <<account, deactivated>>

\* updateOnboarding asks nothing more.
LoadOnboarding(r) ==
    Load(r, "admitted", "none", [account EXCEPT !.visits = @ \cup {r}])

\* findActiveUserByEmail
LoadLogin(r) ==
    /\ account.status = "ACTIVE"
    /\ Load(r, "new", "none", [account EXCEPT !.visits = @ \cup {r}])

LoadUpdate(r) ==
    \E edit \in Edits :
        Load(r, "new", edit.column, [account EXCEPT ![edit.column] = edit.to])

Select(r) ==
    /\ requests[r].pc = "loaded"
    /\ requests' = [requests EXCEPT
           ![r].pc = "selected",
           ![r].changed = {c \in Columns : requests[r].entity[c] # account[c]}]
    /\ UNCHANGED <<account, deactivated>>

Save(r) ==
    /\ requests[r].pc = "selected"
    /\ account' = [c \in Columns |->
           IF c \in requests[r].changed THEN requests[r].entity[c] ELSE account[c]]
    /\ requests' = [requests EXCEPT ![r].pc = "done"]
    /\ deactivated' = IF requests[r].edit = "status"
                      THEN requests[r].entity.status = "INACTIVE"
                      ELSE deactivated

AccountNext ==
    \/ \E r \in Onboardings : AdmitOnboarding(r) \/ LoadOnboarding(r)
    \/ \E r \in Logins : LoadLogin(r)
    \/ \E r \in Admins : LoadUpdate(r)
    \/ \E r \in Requests : Select(r) \/ Save(r)

AccountSpec == AccountInit /\ [][AccountNext]_accountVars

-----------------------------------------------------------------------------
(* "Usuario desactivado -> 401 Unauthorized"                               *)
(* (docs/CLOSURE_PHASE_3_INTEGRITY_AUTHORIZATION.md): once an              *)
(* administrator has deactivated the user, and until one activates it, the *)
(* guard lets none of its requests in.                                     *)
DeactivatedIsRefused == deactivated => ~ Authorized

=============================================================================
