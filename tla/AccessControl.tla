--------------------------- MODULE AccessControl ---------------------------
(***************************************************************************)
(* AccessControl (access_control.rs): who holds which role in one          *)
(* contract, an index of the holders of each role, and one account named   *)
(* the admin.  It is a library: each contract that uses it keeps its own   *)
(* copy of this state, and a specification EXTENDS this module.            *)
(*                                                                         *)
(* The index is a list; of it only matters how often it names an account.  *)
(*                                                                         *)
(* Operators whose name ends in _M are deliberate mistakes that            *)
(* PROJECT.json puts in the place of the definition that follows.          *)
(***************************************************************************)
EXTENDS Integers

CONSTANTS
    Accounts,        \* accounts that may hold a role
    Roles,           \* the roles, "ADMIN" among them
    None             \* no account

ASSUME AccessControlAssumption ==
    /\ "ADMIN" \in Roles
    /\ None \notin Accounts

VARIABLES
    holders,         \* AccessControlDataKey::Role, the flags
    members,         \* AccessControlDataKey::RoleMembers, as counts
    adminKey,        \* AccessControlDataKey::Admin
    deposed          \* history: who lost ADMIN by a revocation, and since
                     \* then has not been made admin again

roleVars == <<holders, members, adminKey, deposed>>

-----------------------------------------------------------------------------
HasRole(role, a) == a \in holders[role]

GrantedIndex_Again_M(index, a) == [index EXCEPT ![a] = @ + 1]

\* grant_role_internal and revoke_role_internal: the flag, and the list.
GrantedIndex(index, a) == IF index[a] = 0 THEN [index EXCEPT ![a] = 1] ELSE index
RevokedIndex(index, a) == [index EXCEPT ![a] = 0]

GrantInternal(role, a) ==
    /\ holders' = [holders EXCEPT ![role] = @ \cup {a}]
    /\ members' = [members EXCEPT ![role] = GrantedIndex(@, a)]

RevokeInternal(role, a) ==
    /\ holders' = [holders EXCEPT ![role] = @ \ {a}]
    /\ members' = [members EXCEPT ![role] = RevokedIndex(@, a)]

-----------------------------------------------------------------------------
RolesInit ==
    /\ holders = [role \in Roles |-> {}]
    /\ members = [role \in Roles |-> [a \in Accounts |-> 0]]
    /\ adminKey = None
    /\ deposed = {}

\* Of the contract; nothing keeps it from being initialized again, and the
\* admin there was before stays one.
Initialize(a) ==
    /\ adminKey' = a
    /\ GrantInternal("ADMIN", a)
    /\ deposed' = deposed \ {a}

\* By some admin, and which one makes no difference.
GrantRole(role, a) ==
    /\ holders["ADMIN"] # {}
    /\ ~HasRole(role, a)
    /\ GrantInternal(role, a)
    /\ deposed' = IF role = "ADMIN" THEN deposed \ {a} ELSE deposed
    /\ UNCHANGED adminKey

\* An admin may be revoked too, the last one and the one the key names.
RevokeRole(role, a) ==
    /\ holders["ADMIN"] # {}
    /\ HasRole(role, a)
    /\ RevokeInternal(role, a)
    /\ deposed' = IF role = "ADMIN" THEN deposed \cup {a} ELSE deposed
    /\ UNCHANGED adminKey

\* Without the account's signature.
RenounceRole(a, role) ==
    /\ role # "ADMIN"
    /\ HasRole(role, a)
    /\ RevokeInternal(role, a)
    /\ UNCHANGED <<adminKey, deposed>>

TransferAdmin_KeepsKey_M(current, new) ==
    /\ HasRole("ADMIN", current)
    /\ holders' = [holders EXCEPT !["ADMIN"] = (@ \ {current}) \cup {new}]
    /\ members' = [members EXCEPT !["ADMIN"] =
           GrantedIndex(RevokedIndex(@, current), new)]
    /\ deposed' = deposed \ {new}
    /\ UNCHANGED adminKey

\* By any admin, whether or not the key names it.
TransferAdmin(current, new) ==
    /\ HasRole("ADMIN", current)
    /\ holders' = [holders EXCEPT !["ADMIN"] = (@ \ {current}) \cup {new}]
    /\ members' = [members EXCEPT !["ADMIN"] =
           GrantedIndex(RevokedIndex(@, current), new)]
    /\ adminKey' = new
    /\ deposed' = deposed \ {new}

RolesNext ==
    \E a \in Accounts :
        \/ Initialize(a)
        \/ \E new \in Accounts : TransferAdmin(a, new)
        \/ \E role \in Roles :
              \/ GrantRole(role, a)
              \/ RevokeRole(role, a)
              \/ RenounceRole(a, role)
-----------------------------------------------------------------------------
(* Properties *)

RolesTypeOK ==
    /\ holders \in [Roles -> SUBSET Accounts]
    /\ members \in [Roles -> [Accounts -> Nat]]
    /\ adminKey \in Accounts \cup {None}
    /\ deposed \in SUBSET Accounts

\* The index get_role_members answers with names every holder of a role once
\* and nobody else, although flags and lists are written separately and an
\* account may be made admin while it is one.
IndexExact ==
    \A role \in Roles, a \in Accounts :
        members[role][a] = IF HasRole(role, a) THEN 1 ELSE 0

\* The account that fees and slashed stakes are sent to (get_admin) holds the
\* ADMIN role, unless it was taken from it by revoke_role, which leaves the
\* key behind.
KeyNamesAnAdmin ==
    adminKey = None \/ HasRole("ADMIN", adminKey) \/ adminKey \in deposed
=============================================================================
