---------------------- MODULE MerchantRegistry_proofs ----------------------
(***************************************************************************)
(* Theorems about MerchantRegistry and the AccessControl it works with.    *)
(* The three parts of the state (roles, records, payout changes) each have *)
(* an invariant of their own; a step is shown to keep every part.          *)
(***************************************************************************)
EXTENDS MerchantRegistry, TLAPS, SequenceTheorems

LEMMA ConstantFacts ==
  /\ "ADMIN" \in Roles /\ "MERCHANT" \in Roles /\ "MERCHANT" # "ADMIN"
  /\ None \notin Accounts
  /\ \A m \in Merchants : m \in Accounts
  /\ None \notin Addresses
  /\ None \notin Nat
  /\ \A duration \in Durations : duration \in Nat
  /\ PayoutDelay \in Nat
BY AccessControlAssumption, MerchantRegistryAssumption

-----------------------------------------------------------------------------
(* Roles *)

RolesInv == RolesTypeOK /\ IndexExact /\ KeyNamesAnAdmin

\* A step after which exactly the accounts in H hold the role, and exactly
\* they are in the index X.
LEMMA RoleSet ==
  ASSUME RolesInv, NEW role \in Roles, NEW H \in SUBSET Accounts,
         NEW X \in [Accounts -> Nat],
         holders' = [holders EXCEPT ![role] = H],
         members' = [members EXCEPT ![role] = X],
         \A a \in Accounts : X[a] = IF a \in H THEN 1 ELSE 0
  PROVE  /\ holders' \in [Roles -> SUBSET Accounts]
         /\ members' \in [Roles -> [Accounts -> Nat]]
         /\ IndexExact'
<1>1. /\ holders \in [Roles -> SUBSET Accounts]
      /\ members \in [Roles -> [Accounts -> Nat]]
  BY DEF RolesInv, RolesTypeOK
<1>2. /\ holders' \in [Roles -> SUBSET Accounts]
      /\ members' \in [Roles -> [Accounts -> Nat]]
  BY <1>1
<1>3. ASSUME NEW other \in Roles, NEW a \in Accounts
      PROVE  members'[other][a] = IF a \in holders'[other] THEN 1 ELSE 0
  <2>1. CASE other = role
    <3>1. members'[other] = X /\ holders'[other] = H
      BY <1>1, <2>1
    <3>2. QED
      BY <3>1
  <2>2. CASE other # role
    <3>1. members'[other] = members[other] /\ holders'[other] = holders[other]
      BY <1>1, <2>2
    <3>2. members[other][a] = IF a \in holders[other] THEN 1 ELSE 0
      BY DEF RolesInv, IndexExact, HasRole
    <3>3. QED
      BY <3>1, <3>2
  <2>3. QED
    BY <2>1, <2>2
<1>4. IndexExact'
  BY <1>3 DEF IndexExact, HasRole
<1>5. QED
  BY <1>2, <1>4

LEMMA GrantSet ==
  ASSUME RolesInv, NEW role \in Roles, NEW a \in Accounts, GrantInternal(role, a)
  PROVE  /\ holders' \in [Roles -> SUBSET Accounts]
         /\ members' \in [Roles -> [Accounts -> Nat]]
         /\ IndexExact'
         /\ holders' = [holders EXCEPT ![role] = holders[role] \cup {a}]
<1> DEFINE H == holders[role] \cup {a}
           X == GrantedIndex(members[role], a)
<1>1. members[role] \in [Accounts -> Nat] /\ holders[role] \in SUBSET Accounts
  BY DEF RolesInv, RolesTypeOK
<1>2. \A b \in Accounts : members[role][b] = IF b \in holders[role] THEN 1 ELSE 0
  BY DEF RolesInv, IndexExact, HasRole
<1>3. X \in [Accounts -> Nat] /\ \A b \in Accounts : X[b] = IF b \in H THEN 1 ELSE 0
  BY <1>1, <1>2 DEF GrantedIndex
<1>4. H \in SUBSET Accounts
  BY <1>1
<1>5. holders' = [holders EXCEPT ![role] = H] /\ members' = [members EXCEPT ![role] = X]
  BY DEF GrantInternal
<1> HIDE DEF H, X
<1>6. /\ holders' \in [Roles -> SUBSET Accounts]
      /\ members' \in [Roles -> [Accounts -> Nat]]
      /\ IndexExact'
  BY <1>3, <1>4, <1>5, RoleSet
<1>7. QED
  BY <1>5, <1>6 DEF H

LEMMA RevokeSet ==
  ASSUME RolesInv, NEW role \in Roles, NEW a \in Accounts, RevokeInternal(role, a)
  PROVE  /\ holders' \in [Roles -> SUBSET Accounts]
         /\ members' \in [Roles -> [Accounts -> Nat]]
         /\ IndexExact'
         /\ holders' = [holders EXCEPT ![role] = holders[role] \ {a}]
<1> DEFINE H == holders[role] \ {a}
           X == RevokedIndex(members[role], a)
<1>1. members[role] \in [Accounts -> Nat] /\ holders[role] \in SUBSET Accounts
  BY DEF RolesInv, RolesTypeOK
<1>2. \A b \in Accounts : members[role][b] = IF b \in holders[role] THEN 1 ELSE 0
  BY DEF RolesInv, IndexExact, HasRole
<1>3. X \in [Accounts -> Nat] /\ \A b \in Accounts : X[b] = IF b \in H THEN 1 ELSE 0
  BY <1>1, <1>2 DEF RevokedIndex
<1>4. H \in SUBSET Accounts
  BY <1>1
<1>5. holders' = [holders EXCEPT ![role] = H] /\ members' = [members EXCEPT ![role] = X]
  BY DEF RevokeInternal
<1> HIDE DEF H, X
<1>6. /\ holders' \in [Roles -> SUBSET Accounts]
      /\ members' \in [Roles -> [Accounts -> Nat]]
      /\ IndexExact'
  BY <1>3, <1>4, <1>5, RoleSet
<1>7. QED
  BY <1>5, <1>6 DEF H

LEMMA InitializeKeeps ==
  ASSUME RolesInv, NEW a \in Accounts, Initialize(a)
  PROVE  RolesInv'
<1>1. /\ holders \in [Roles -> SUBSET Accounts] /\ deposed \in SUBSET Accounts
      /\ "ADMIN" \in Roles
  BY ConstantFacts DEF RolesInv, RolesTypeOK
<1>2. /\ holders' \in [Roles -> SUBSET Accounts]
      /\ members' \in [Roles -> [Accounts -> Nat]]
      /\ IndexExact'
      /\ holders' = [holders EXCEPT !["ADMIN"] = holders["ADMIN"] \cup {a}]
  BY <1>1, GrantSet DEF Initialize
<1>3. adminKey' = a /\ deposed' = deposed \ {a}
  BY DEF Initialize
<1>4. a \in holders'["ADMIN"]
  BY <1>1, <1>2
<1>5. QED
  BY <1>1, <1>2, <1>3, <1>4 DEF RolesInv, RolesTypeOK, KeyNamesAnAdmin, HasRole

LEMMA GrantRoleKeeps ==
  ASSUME RolesInv, NEW role \in Roles, NEW a \in Accounts, GrantRole(role, a)
  PROVE  RolesInv'
<1>1. /\ holders \in [Roles -> SUBSET Accounts] /\ deposed \in SUBSET Accounts
      /\ "ADMIN" \in Roles /\ adminKey \in Accounts \cup {None}
  BY ConstantFacts DEF RolesInv, RolesTypeOK
<1>2. /\ holders' \in [Roles -> SUBSET Accounts]
      /\ members' \in [Roles -> [Accounts -> Nat]]
      /\ IndexExact'
      /\ holders' = [holders EXCEPT ![role] = holders[role] \cup {a}]
  BY GrantSet DEF GrantRole
<1>3. /\ adminKey' = adminKey
      /\ deposed' = IF role = "ADMIN" THEN deposed \ {a} ELSE deposed
  BY DEF GrantRole
<1>4. \A b \in holders["ADMIN"] : b \in holders'["ADMIN"]
  BY <1>1, <1>2
<1>5. role = "ADMIN" => a \in holders'["ADMIN"]
  BY <1>1, <1>2
<1>6. KeyNamesAnAdmin'
  BY <1>3, <1>4, <1>5 DEF RolesInv, KeyNamesAnAdmin, HasRole
<1>7. QED
  BY <1>1, <1>2, <1>3, <1>6 DEF RolesInv, RolesTypeOK

LEMMA RevokeRoleKeeps ==
  ASSUME RolesInv, NEW role \in Roles, NEW a \in Accounts, RevokeRole(role, a)
  PROVE  RolesInv'
<1>1. /\ holders \in [Roles -> SUBSET Accounts] /\ deposed \in SUBSET Accounts
      /\ "ADMIN" \in Roles /\ adminKey \in Accounts \cup {None}
  BY ConstantFacts DEF RolesInv, RolesTypeOK
<1>2. /\ holders' \in [Roles -> SUBSET Accounts]
      /\ members' \in [Roles -> [Accounts -> Nat]]
      /\ IndexExact'
      /\ holders' = [holders EXCEPT ![role] = holders[role] \ {a}]
  BY RevokeSet DEF RevokeRole
<1>3. /\ adminKey' = adminKey
      /\ deposed' = IF role = "ADMIN" THEN deposed \cup {a} ELSE deposed
  BY DEF RevokeRole
<1>4. \A b \in holders["ADMIN"] : b \in holders'["ADMIN"] \/ (role = "ADMIN" /\ b = a)
  BY <1>1, <1>2
<1>5. KeyNamesAnAdmin'
  BY <1>3, <1>4 DEF RolesInv, KeyNamesAnAdmin, HasRole
<1>6. QED
  BY <1>1, <1>2, <1>3, <1>5 DEF RolesInv, RolesTypeOK

LEMMA RenounceRoleKeeps ==
  ASSUME RolesInv, NEW role \in Roles, NEW a \in Accounts, RenounceRole(a, role)
  PROVE  RolesInv'
<1>1. /\ holders \in [Roles -> SUBSET Accounts] /\ deposed \in SUBSET Accounts
      /\ "ADMIN" \in Roles /\ adminKey \in Accounts \cup {None} /\ role # "ADMIN"
  BY ConstantFacts DEF RolesInv, RolesTypeOK, RenounceRole
<1>2. /\ holders' \in [Roles -> SUBSET Accounts]
      /\ members' \in [Roles -> [Accounts -> Nat]]
      /\ IndexExact'
      /\ holders' = [holders EXCEPT ![role] = holders[role] \ {a}]
  BY RevokeSet DEF RenounceRole
<1>3. adminKey' = adminKey /\ deposed' = deposed
  BY DEF RenounceRole
<1>4. holders'["ADMIN"] = holders["ADMIN"]
  BY <1>1, <1>2
<1>5. KeyNamesAnAdmin'
  BY <1>3, <1>4 DEF RolesInv, KeyNamesAnAdmin, HasRole
<1>6. QED
  BY <1>1, <1>2, <1>3, <1>5 DEF RolesInv, RolesTypeOK

\* Two writes to one list: out with the old admin, in with the new, who may
\* be the same.
LEMMA TransferAdminKeeps ==
  ASSUME RolesInv, NEW current \in Accounts, NEW new \in Accounts,
         TransferAdmin(current, new)
  PROVE  RolesInv'
<1> DEFINE h == holders["ADMIN"]
           x == members["ADMIN"]
           H == (h \ {current}) \cup {new}
           Y == RevokedIndex(x, current)
           X == GrantedIndex(Y, new)
<1>1. /\ holders \in [Roles -> SUBSET Accounts] /\ deposed \in SUBSET Accounts
      /\ "ADMIN" \in Roles
  BY ConstantFacts DEF RolesInv, RolesTypeOK
<1>2. x \in [Accounts -> Nat] /\ h \in SUBSET Accounts
  BY <1>1 DEF RolesInv, RolesTypeOK
<1>3. \A b \in Accounts : x[b] = IF b \in h THEN 1 ELSE 0
  BY <1>1 DEF RolesInv, IndexExact, HasRole
<1>4. /\ holders' = [holders EXCEPT !["ADMIN"] = H]
      /\ members' = [members EXCEPT !["ADMIN"] = X]
      /\ adminKey' = new /\ deposed' = deposed \ {new}
  BY DEF TransferAdmin
<1> HIDE DEF h, x
<1>5. Y \in [Accounts -> Nat] /\ \A b \in Accounts : Y[b] = IF b \in h \ {current} THEN 1 ELSE 0
  BY <1>2, <1>3 DEF RevokedIndex
<1> HIDE DEF Y
<1>6. X \in [Accounts -> Nat] /\ \A b \in Accounts : X[b] = IF b \in H THEN 1 ELSE 0
  BY <1>5 DEF GrantedIndex
<1>7. H \in SUBSET Accounts /\ new \in H
  BY <1>2
<1> HIDE DEF H, X
<1>8. /\ holders' \in [Roles -> SUBSET Accounts]
      /\ members' \in [Roles -> [Accounts -> Nat]]
      /\ IndexExact'
  BY <1>1, <1>4, <1>6, <1>7, RoleSet
<1>9. new \in holders'["ADMIN"]
  BY <1>1, <1>4, <1>7
<1>10. QED
  BY <1>1, <1>4, <1>8, <1>9 DEF RolesInv, RolesTypeOK, KeyNamesAnAdmin, HasRole

LEMMA RolesInitOK == RolesInit => RolesInv
BY SMT DEF RolesInit, RolesInv, RolesTypeOK, IndexExact, KeyNamesAnAdmin, HasRole

LEMMA RolesKept ==
  ASSUME RolesInv, UNCHANGED roleVars
  PROVE  RolesInv'
BY DEF roleVars, RolesInv, RolesTypeOK, IndexExact, KeyNamesAnAdmin, HasRole

LEMMA RolesStep == RolesInv /\ RolesNext => RolesInv'
<1> SUFFICES ASSUME RolesInv, RolesNext
             PROVE  RolesInv'
  OBVIOUS
<1> DEFINE Goal == RolesInv'
<1>1. ASSUME NEW a \in Accounts, Initialize(a)
      PROVE  Goal
  BY <1>1, InitializeKeeps
<1>2. ASSUME NEW a \in Accounts, NEW new \in Accounts, TransferAdmin(a, new)
      PROVE  Goal
  BY <1>2, TransferAdminKeeps
<1>3. ASSUME NEW a \in Accounts, NEW role \in Roles, GrantRole(role, a)
      PROVE  Goal
  BY <1>3, GrantRoleKeeps
<1>4. ASSUME NEW a \in Accounts, NEW role \in Roles, RevokeRole(role, a)
      PROVE  Goal
  BY <1>4, RevokeRoleKeeps
<1>5. ASSUME NEW a \in Accounts, NEW role \in Roles, RenounceRole(a, role)
      PROVE  Goal
  BY <1>5, RenounceRoleKeeps
<1> HIDE DEF Goal
<1>6. Goal
  BY <1>1, <1>2, <1>3, <1>4, <1>5, Zenon DEF RolesNext
<1>7. QED
  BY <1>6 DEF Goal

-----------------------------------------------------------------------------
(* Records and suspensions *)

\* What holds of the record r of merchant m, given who lifted a suspension
\* (L) and who closed itself (C).
Consistent(r, m, L, C) ==
    /\ (r.suspendedAt = None) <=> (r.suspensionExpiresAt = None)
    /\ (r.active \/ m \in C) /\ r.suspensionExpiresAt # None => m \in L

Records ==
    /\ merchant \in [Merchants -> Merchant \cup {NoMerchant}]
    /\ lifted \in SUBSET Merchants
    /\ closed \in SUBSET Merchants
    /\ \A m \in Merchants : Registered(m) => Consistent(merchant[m], m, lifted, closed)

\* The times s at which the payout address of a merchant with record r was
\* changed, none of them later than t.
Spread(r, s, t) ==
    /\ s \in Seq(Nat)
    /\ \A i \in 1 .. Len(s) : s[i] =< t
    /\ \A j \in 1 .. Len(s) : \A i \in 1 .. j - 1 : s[j] - s[i] >= PayoutDelay
    /\ r.tier = "None" => s = <<>>
    /\ r.tier # "None" /\ s # <<>> => r.lastPayoutChangeAt = s[Len(s)]

Payouts ==
    /\ changes \in [Merchants -> Seq(Nat)]
    /\ \A m \in Merchants : Spread(merchant[m], changes[m], now)

LEMMA RegisteredRecord ==
  ASSUME Records, NEW m \in Merchants, Registered(m)
  PROVE  merchant[m] \in Merchant
BY DEF Records, Registered, NoMerchant

LEMMA RecordFields ==
  ASSUME NEW r \in Merchant
  PROVE  /\ r.tier \in Tiers /\ r.tier # "None"
         /\ r.active \in BOOLEAN
         /\ r.suspendedAt \in Nat \cup {None}
         /\ r.suspensionExpiresAt \in Nat \cup {None}
         /\ r.lastPayoutChangeAt \in Nat \cup {None}
         /\ r.payout \in Addresses \cup {None}
         /\ r.whitelist \in SUBSET Addresses
BY DEF Merchant, Tiers

LEMMA ReinstatedRecord ==
  ASSUME NEW r \in Merchant
  PROVE  LET u == Reinstated(r)
         IN  /\ u \in Merchant
             /\ u.active = TRUE
             /\ u.suspendedAt = None
             /\ u.suspensionExpiresAt = None
             /\ u.lastPayoutChangeAt = r.lastPayoutChangeAt
             /\ u.tier = r.tier
<1> DEFINE u == Reinstated(r)
<1>1. u = [r EXCEPT !.active = TRUE, !.suspendedAt = None, !.suspensionExpiresAt = None]
  BY DEF Reinstated
<1> HIDE DEF u
<1>2. u \in Merchant /\ u.active = TRUE
  BY <1>1 DEF Merchant
<1>3. u.suspendedAt = None /\ u.suspensionExpiresAt = None
  BY <1>1 DEF Merchant
<1>4. u.lastPayoutChangeAt = r.lastPayoutChangeAt /\ u.tier = r.tier
  BY <1>1 DEF Merchant
<1>5. QED
  BY <1>2, <1>3, <1>4 DEF u

\* The record as a function of the registry sees it: as it is, or reinstated.
LEMMA LoadedRecord ==
  ASSUME Records, NEW m \in Merchants, Registered(m)
  PROVE  LET u == Loaded(m)
             r == merchant[m]
         IN  /\ u \in Merchant
             /\ u.lastPayoutChangeAt = r.lastPayoutChangeAt
             /\ u.tier = r.tier
             /\ \/ u = r
                \/ u.active = TRUE /\ u.suspendedAt = None /\ u.suspensionExpiresAt = None
             /\ Consistent(u, m, lifted, closed)
<1> DEFINE r == merchant[m]
           u == Loaded(m)
<1>1. r \in Merchant /\ Consistent(r, m, lifted, closed)
  BY RegisteredRecord DEF Records
<1>2. u = r \/ u = Reinstated(r)
  BY DEF Loaded
<1> HIDE DEF r, u
<1>3. CASE u = r
  BY <1>1, <1>3 DEF r, u
<1>4. CASE u = Reinstated(r)
  <2>1. /\ u \in Merchant
        /\ u.active = TRUE
        /\ u.suspendedAt = None
        /\ u.suspensionExpiresAt = None
        /\ u.lastPayoutChangeAt = r.lastPayoutChangeAt
        /\ u.tier = r.tier
    BY <1>1, <1>4, ReinstatedRecord
  <2>2. Consistent(u, m, lifted, closed)
    BY <2>1 DEF Consistent
  <2>3. QED
    BY <2>1, <2>2 DEF r, u
<1>5. QED
  BY <1>2, <1>3, <1>4

\* A step that sets one record, and at most this merchant's place in the
\* histories.
LEMMA RecordSet ==
  ASSUME Records, NEW m \in Merchants, NEW r \in Merchant,
         NEW L \in SUBSET Merchants, NEW C \in SUBSET Merchants,
         \A q \in Merchants : q # m => (q \in lifted => q \in L) /\ (q \in C => q \in closed),
         Consistent(r, m, L, C),
         merchant' = [merchant EXCEPT ![m] = r],
         lifted' = L, closed' = C
  PROVE  Records'
<1>1. merchant' \in [Merchants -> Merchant \cup {NoMerchant}]
  BY DEF Records
<1>2. ASSUME NEW q \in Merchants, Registered(q)'
      PROVE  Consistent(merchant'[q], q, L, C)
  <2>1. CASE q = m
    <3>1. merchant'[q] = r
      BY <2>1 DEF Records
    <3>2. QED
      BY <2>1, <3>1
  <2>2. CASE q # m
    <3>1. merchant'[q] = merchant[q]
      BY <2>2 DEF Records
    <3>2. Consistent(merchant[q], q, lifted, closed)
      BY <1>2, <3>1 DEF Records, Registered
    <3>3. QED
      BY <2>2, <3>1, <3>2 DEF Consistent
  <2>3. QED
    BY <2>1, <2>2
<1>3. QED
  BY <1>1, <1>2 DEF Records

LEMMA RecordsKept ==
  ASSUME Records, UNCHANGED <<merchant, lifted, closed>>
  PROVE  Records'
BY DEF Records, Registered, Consistent

\* Saved, for a record with the suspension and activity of the loaded one, or
\* with none.
LEMMA SavedRecord ==
  ASSUME Records, NEW m \in Merchants, Registered(m), NEW r \in Merchant,
         \/ /\ r.active = Loaded(m).active
            /\ r.suspendedAt = Loaded(m).suspendedAt
            /\ r.suspensionExpiresAt = Loaded(m).suspensionExpiresAt
         \/ r.suspendedAt = None /\ r.suspensionExpiresAt = None,
         Saved(m, r)
  PROVE  Records'
<1> DEFINE L == LiftedWith(m, r)
           C == ClosedWith(m, r)
<1>1. Consistent(Loaded(m), m, lifted, closed)
  BY LoadedRecord
<1>2. merchant' = [merchant EXCEPT ![m] = r] /\ lifted' = L /\ closed' = C
  BY DEF Saved
<1>3. L \in SUBSET Merchants /\ C \in SUBSET Merchants
  BY DEF Records, LiftedWith, ClosedWith
<1>4. \A q \in Merchants : q # m => (q \in lifted => q \in L) /\ (q \in C => q \in closed)
  BY DEF LiftedWith, ClosedWith
<1>5. Consistent(r, m, L, C)
  <2>1. m \in C => m \in closed
    BY DEF ClosedWith
  <2>2. r.suspensionExpiresAt # None => (m \in L <=> m \in lifted)
    BY DEF LiftedWith
  <2> HIDE DEF L, C
  <2>3. QED
    BY <1>1, <2>1, <2>2 DEF Consistent
<1> HIDE DEF L, C
<1>6. QED
  BY <1>2, <1>3, <1>4, <1>5, RecordSet

-----------------------------------------------------------------------------
(* Payout changes *)

LEMMA PayoutsKept ==
  ASSUME Payouts, UNCHANGED changes, now' \in Nat, now \in Nat, now' >= now,
         \A m \in Merchants :
             /\ merchant[m].tier # "None" => merchant'[m].tier # "None"
             /\ merchant'[m].tier # "None" /\ merchant[m].tier # "None" =>
                    merchant'[m].lastPayoutChangeAt = merchant[m].lastPayoutChangeAt
  PROVE  Payouts'
<1>1. ASSUME NEW m \in Merchants
      PROVE  Spread(merchant'[m], changes'[m], now')
  <2> DEFINE s == changes[m]
  <2>1. /\ Spread(merchant[m], s, now)
        /\ changes'[m] = s
    BY DEF Payouts
  <2> HIDE DEF s
  <2>2. /\ s \in Seq(Nat)
        /\ \A i \in 1 .. Len(s) : s[i] =< now
        /\ \A j \in 1 .. Len(s) : \A i \in 1 .. j - 1 : s[j] - s[i] >= PayoutDelay
        /\ merchant[m].tier = "None" => s = <<>>
        /\ merchant[m].tier # "None" /\ s # <<>> =>
               merchant[m].lastPayoutChangeAt = s[Len(s)]
    BY <2>1 DEF Spread
  <2>3. \A i \in 1 .. Len(s) : s[i] =< now'
    BY <2>2
  <2>4. merchant'[m].tier = "None" => s = <<>>
    BY <2>2
  <2>5. merchant'[m].tier # "None" /\ s # <<>> => merchant'[m].lastPayoutChangeAt = s[Len(s)]
    BY <2>2
  <2>6. QED
    BY <2>1, <2>2, <2>3, <2>4, <2>5 DEF Spread
<1>2. QED
  BY <1>1 DEF Payouts

\* Appending a change that the delay allows.
LEMMA SpreadAppend ==
  ASSUME NEW s \in Seq(Nat), NEW t \in Nat, NEW d \in Nat,
         \A i \in 1 .. Len(s) : s[i] =< t,
         \A j \in 1 .. Len(s) : \A i \in 1 .. j - 1 : s[j] - s[i] >= d,
         s # <<>> => t >= s[Len(s)] + d,
         NEW u, u = Append(s, t)
  PROVE  /\ u \in Seq(Nat)
         /\ u # <<>> /\ u[Len(u)] = t
         /\ \A i \in 1 .. Len(u) : u[i] =< t
         /\ \A j \in 1 .. Len(u) : \A i \in 1 .. j - 1 : u[j] - u[i] >= d
<1> DEFINE n == Len(s)
<1>1. /\ u \in Seq(Nat) /\ Len(u) = n + 1 /\ u[n + 1] = t /\ n \in Nat
      /\ \A i \in 1 .. n : u[i] = s[i] /\ s[i] \in Nat
  BY AppendProperties
<1>2. u # <<>>
  BY <1>1, EmptySeq
<1> HIDE DEF n
<1>3. \A i \in 1 .. Len(u) : u[i] =< t
  BY <1>1 DEF n
<1>4. ASSUME NEW i \in 1 .. n
      PROVE  t - s[i] >= d
  <2>1. n # 0 /\ s # <<>>
    BY <1>1 DEF n
  <2>2. t >= s[n] + d /\ s[n] \in Nat /\ s[i] \in Nat /\ n \in 1 .. n
    BY <1>1, <2>1 DEF n
  <2>3. CASE i = n
    BY <2>2, <2>3
  <2>4. CASE i # n
    <3>1. i \in 1 .. n - 1
      BY <1>1, <2>4
    <3>2. s[n] - s[i] >= d
      BY <2>2, <3>1 DEF n
    <3>3. QED
      BY <2>2, <3>2
  <2>5. QED
    BY <2>3, <2>4
<1>5. ASSUME NEW j \in 1 .. Len(u), NEW i \in 1 .. j - 1
      PROVE  u[j] - u[i] >= d
  <2>1. i \in 1 .. n /\ u[i] = s[i]
    BY <1>1
  <2>2. CASE j = n + 1
    <3>1. t - s[i] >= d
      BY <1>4, <2>1
    <3>2. QED
      BY <1>1, <2>1, <2>2, <3>1
  <2>3. CASE j # n + 1
    <3>1. j \in 1 .. n /\ u[j] = s[j]
      BY <1>1, <2>3
    <3>2. s[j] - s[i] >= d
      BY <3>1 DEF n
    <3>3. QED
      BY <2>1, <3>1, <3>2
  <2>4. QED
    BY <2>2, <2>3
<1>6. QED
  BY <1>1, <1>2, <1>3, <1>5

-----------------------------------------------------------------------------
(* The invariant, and the steps *)

Settings ==
    /\ admin \in Accounts \cup {None}
    /\ refundManager \in BOOLEAN
    /\ now \in Nat

Inv == RolesInv /\ Records /\ Payouts /\ Settings

LEMMA InvInit == Init => Inv
<1> SUFFICES ASSUME Init
             PROVE  Inv
  OBVIOUS
<1>1. RolesInv
  BY RolesInitOK DEF Init
<1>2. merchant = [m \in Merchants |-> NoMerchant] /\ NoMerchant.tier = "None"
  BY DEF Init, NoMerchant
<1>3. Records
  BY <1>2 DEF Init, Records, Registered
<1>4. ASSUME NEW m \in Merchants
      PROVE  Spread(merchant[m], changes[m], now)
  <2>1. changes[m] = <<>> /\ merchant[m].tier = "None"
    BY <1>2 DEF Init
  <2>2. <<>> \in Seq(Nat) /\ Len(<<>>) = 0
    OBVIOUS
  <2>3. QED
    BY <2>1, <2>2 DEF Spread
<1>5. changes \in [Merchants -> Seq(Nat)]
  BY DEF Init
<1>6. Payouts
  BY <1>4, <1>5 DEF Payouts
<1>7. Settings
  BY DEF Init, Settings
<1>8. QED
  BY <1>1, <1>3, <1>6, <1>7 DEF Inv

\* A step that sets the record of m to r, which keeps the time of the last
\* payout change, and leaves the changes alone.
LEMMA PayoutsOneRecord ==
  ASSUME Inv, NEW m \in Merchants, NEW r \in Merchant,
         merchant' = [merchant EXCEPT ![m] = r],
         Registered(m) => r.lastPayoutChangeAt = merchant[m].lastPayoutChangeAt,
         changes' = changes, now' = now
  PROVE  Payouts'
<1>1. merchant \in [Merchants -> Merchant \cup {NoMerchant}] /\ Payouts /\ now \in Nat
  BY DEF Inv, Records, Settings
<1>2. ASSUME NEW q \in Merchants
      PROVE  /\ merchant[q].tier # "None" => merchant'[q].tier # "None"
             /\ merchant'[q].tier # "None" /\ merchant[q].tier # "None" =>
                    merchant'[q].lastPayoutChangeAt = merchant[q].lastPayoutChangeAt
  <2>1. CASE q = m
    <3>1. merchant'[q] = r /\ r.tier # "None"
      BY <1>1, <2>1, RecordFields
    <3>2. QED
      BY <2>1, <3>1 DEF Registered
  <2>2. CASE q # m
    BY <1>1, <2>2
  <2>3. QED
    BY <2>1, <2>2
<1>3. QED
  BY <1>1, <1>2, PayoutsKept

LEMMA SettingsKept ==
  ASSUME Settings, UNCHANGED settings, now' = now
  PROVE  Settings'
BY DEF Settings, settings

\* Any handler that saves the loaded record with another tier or whitelist, or
\* reinstated.
LEMMA SavedKeeps ==
  ASSUME Inv, NEW m \in Merchants, Registered(m), NEW r \in Merchant,
         \/ /\ r.active = Loaded(m).active
            /\ r.suspendedAt = Loaded(m).suspendedAt
            /\ r.suspensionExpiresAt = Loaded(m).suspensionExpiresAt
         \/ r.suspendedAt = None /\ r.suspensionExpiresAt = None,
         r.lastPayoutChangeAt = merchant[m].lastPayoutChangeAt,
         Saved(m, r), changes' = changes, RolesInv'
  PROVE  Inv'
<1>1. Records'
  BY SavedRecord DEF Inv
<1>2. merchant' = [merchant EXCEPT ![m] = r] /\ UNCHANGED settings /\ now' = now
  BY DEF Saved
<1>3. Payouts'
  BY <1>2, PayoutsOneRecord
<1>4. Settings'
  BY <1>2, SettingsKept DEF Inv
<1>5. QED
  BY <1>1, <1>3, <1>4 DEF Inv

LEMMA SetTier ==
  ASSUME NEW r \in Merchant, NEW tier \in Tiers, NEW u, u = [r EXCEPT !.tier = tier]
  PROVE  /\ u \in Merchant
         /\ u.active = r.active
         /\ u.suspendedAt = r.suspendedAt
         /\ u.suspensionExpiresAt = r.suspensionExpiresAt
         /\ u.lastPayoutChangeAt = r.lastPayoutChangeAt
BY DEF Merchant

LEMMA SetWhitelist ==
  ASSUME NEW r \in Merchant, NEW W \in SUBSET Addresses, NEW u,
         u = [r EXCEPT !.whitelist = W]
  PROVE  /\ u \in Merchant
         /\ u.active = r.active
         /\ u.suspendedAt = r.suspendedAt
         /\ u.suspensionExpiresAt = r.suspensionExpiresAt
         /\ u.lastPayoutChangeAt = r.lastPayoutChangeAt
BY DEF Merchant

LEMMA TierStep ==
  ASSUME Inv, NEW m \in Merchants, NEW tier \in Tiers, Registered(m),
         Saved(m, [Loaded(m) EXCEPT !.tier = tier]), changes' = changes, RolesInv'
  PROVE  Inv'
<1> DEFINE v == Loaded(m)
           u == [v EXCEPT !.tier = tier]
<1>1. v \in Merchant /\ v.lastPayoutChangeAt = merchant[m].lastPayoutChangeAt
  BY LoadedRecord DEF Inv
<1>2. Saved(m, u)
  OBVIOUS
<1> HIDE DEF v
<1>3. /\ u \in Merchant
      /\ u.active = v.active
      /\ u.suspendedAt = v.suspendedAt
      /\ u.suspensionExpiresAt = v.suspensionExpiresAt
      /\ u.lastPayoutChangeAt = v.lastPayoutChangeAt
  BY <1>1, SetTier
<1> HIDE DEF u
<1>4. QED
  BY <1>1, <1>2, <1>3, SavedKeeps DEF v

LEMMA WhitelistStep ==
  ASSUME Inv, NEW m \in Merchants, NEW W \in SUBSET Addresses, Registered(m),
         Saved(m, [Loaded(m) EXCEPT !.whitelist = W]), changes' = changes, RolesInv'
  PROVE  Inv'
<1> DEFINE v == Loaded(m)
           u == [v EXCEPT !.whitelist = W]
<1>1. v \in Merchant /\ v.lastPayoutChangeAt = merchant[m].lastPayoutChangeAt
  BY LoadedRecord DEF Inv
<1>2. Saved(m, u)
  OBVIOUS
<1> HIDE DEF v
<1>3. /\ u \in Merchant
      /\ u.active = v.active
      /\ u.suspendedAt = v.suspendedAt
      /\ u.suspensionExpiresAt = v.suspensionExpiresAt
      /\ u.lastPayoutChangeAt = v.lastPayoutChangeAt
  BY <1>1, SetWhitelist
<1> HIDE DEF u
<1>4. QED
  BY <1>1, <1>2, <1>3, SavedKeeps DEF v

LEMMA VerifyMerchantKeeps ==
  ASSUME Inv, NEW m \in Merchants, VerifyMerchant(m)
  PROVE  Inv'
<1>1. RolesInv'
  <2>1. CASE UNCHANGED roleVars
    BY <2>1, RolesKept DEF Inv
  <2>2. CASE GrantRole("MERCHANT", m)
    <3>1. "MERCHANT" \in Roles /\ m \in Accounts
      BY ConstantFacts
    <3>2. QED
      BY <2>2, <3>1, GrantRoleKeeps DEF Inv
  <2>3. QED
    BY <2>1, <2>2 DEF VerifyMerchant
<1>2. "Verified" \in Tiers
  BY DEF Tiers
<1>3. Registered(m) /\ Saved(m, [Loaded(m) EXCEPT !.tier = "Verified"]) /\ changes' = changes
  BY DEF VerifyMerchant
<1>4. QED
  BY <1>1, <1>2, <1>3, TierStep

LEMMA SetKycTierKeeps ==
  ASSUME Inv, NEW m \in Merchants, NEW tier \in Tiers, SetKycTier(m, tier)
  PROVE  Inv'
<1>1. RolesInv'
  BY RolesKept DEF Inv, SetKycTier
<1>2. Registered(m) /\ Saved(m, [Loaded(m) EXCEPT !.tier = tier]) /\ changes' = changes
  BY DEF SetKycTier
<1>3. QED
  BY <1>1, <1>2, TierStep

LEMMA ReinstateMerchantKeeps ==
  ASSUME Inv, NEW m \in Merchants, ReinstateMerchant(m)
  PROVE  Inv'
<1> DEFINE v == Loaded(m)
           u == Reinstated(v)
<1>1. v \in Merchant /\ v.lastPayoutChangeAt = merchant[m].lastPayoutChangeAt /\ Registered(m)
  BY LoadedRecord DEF Inv, ReinstateMerchant
<1>2. Saved(m, u) /\ changes' = changes
  BY DEF ReinstateMerchant
<1>3. RolesInv'
  BY RolesKept DEF Inv, ReinstateMerchant
<1> HIDE DEF v
<1>4. /\ u \in Merchant
      /\ u.suspendedAt = None
      /\ u.suspensionExpiresAt = None
      /\ u.lastPayoutChangeAt = v.lastPayoutChangeAt
  BY <1>1, ReinstatedRecord
<1> HIDE DEF u
<1>5. QED
  BY <1>1, <1>2, <1>3, <1>4, SavedKeeps

LEMMA AddCurrencyPayoutKeeps ==
  ASSUME Inv, NEW m \in Merchants, NEW address, AddCurrencyPayout(m, address)
  PROVE  Inv'
<1>1. /\ Loaded(m) \in Merchant /\ Registered(m)
      /\ Loaded(m).lastPayoutChangeAt = merchant[m].lastPayoutChangeAt
  BY LoadedRecord DEF Inv, AddCurrencyPayout
<1>2. Saved(m, Loaded(m)) /\ changes' = changes
  BY DEF AddCurrencyPayout
<1>3. RolesInv'
  BY RolesKept DEF Inv, AddCurrencyPayout
<1>4. QED
  BY <1>1, <1>2, <1>3, SavedKeeps

LEMMA WhitelistKeeps ==
  ASSUME Inv, NEW m \in Merchants, NEW address \in Addresses,
         AddToWhitelist(m, address) \/ RemoveFromWhitelist(m, address)
  PROVE  Inv'
<1>1. RolesInv' /\ Registered(m) /\ changes' = changes
  BY RolesKept DEF Inv, AddToWhitelist, RemoveFromWhitelist
<1> DEFINE w == Loaded(m).whitelist
<1>2. w \in SUBSET Addresses
  BY <1>1, LoadedRecord, RecordFields DEF Inv
<1>3. w \cup {address} \in SUBSET Addresses /\ w \ {address} \in SUBSET Addresses
  BY <1>2
<1>4. \/ Saved(m, [Loaded(m) EXCEPT !.whitelist = w \cup {address}])
      \/ Saved(m, [Loaded(m) EXCEPT !.whitelist = w \ {address}])
  BY DEF AddToWhitelist, RemoveFromWhitelist
<1> HIDE DEF w
<1>5. QED
  BY <1>1, <1>3, <1>4, WhitelistStep

LEMMA RegisterMerchantKeeps ==
  ASSUME Inv, NEW m \in Merchants, NEW payout \in Addresses \cup {None},
         RegisterMerchant(m, payout)
  PROVE  Inv'
<1> DEFINE r == [tier |-> "Unverified", active |-> TRUE, suspendedAt |-> None,
                 suspensionExpiresAt |-> None, payout |-> payout,
                 lastPayoutChangeAt |-> None, whitelist |-> {}]
<1>1. r \in Merchant /\ r.suspendedAt = None /\ r.suspensionExpiresAt = None
  BY DEF Merchant, Tiers
<1>2. /\ merchant' = [merchant EXCEPT ![m] = r]
      /\ ~Registered(m)
      /\ lifted' = lifted /\ closed' = closed /\ changes' = changes
      /\ UNCHANGED settings /\ now' = now /\ UNCHANGED roleVars
  BY DEF RegisterMerchant, histories
<1> HIDE DEF r
<1>3. Consistent(r, m, lifted, closed)
  BY <1>1 DEF Consistent
<1>4. Records'
  <2>1. Records /\ lifted \in SUBSET Merchants /\ closed \in SUBSET Merchants
    BY DEF Inv, Records
  <2>2. QED
    BY <1>1, <1>2, <1>3, <2>1, RecordSet
<1>5. Payouts'
  BY <1>1, <1>2, PayoutsOneRecord
<1>6. RolesInv' /\ Settings'
  BY <1>2, RolesKept, SettingsKept DEF Inv
<1>7. QED
  BY <1>4, <1>5, <1>6 DEF Inv

LEMMA SuspendMerchantKeeps ==
  ASSUME Inv, NEW m \in Merchants, NEW duration \in Durations,
         SuspendMerchant(m, duration)
  PROVE  Inv'
<1> DEFINE v == Loaded(m)
           r == [v EXCEPT !.active = FALSE, !.suspendedAt = now,
                          !.suspensionExpiresAt = now + duration]
           L == lifted \ {m}
           C == closed \ {m}
<1>1. v \in Merchant /\ v.lastPayoutChangeAt = merchant[m].lastPayoutChangeAt /\ Registered(m)
  BY LoadedRecord DEF Inv, SuspendMerchant
<1>2. /\ merchant' = [merchant EXCEPT ![m] = r]
      /\ lifted' = L /\ closed' = C /\ changes' = changes
      /\ UNCHANGED settings /\ now' = now /\ UNCHANGED roleVars
  BY DEF SuspendMerchant
<1>3. now \in Nat /\ now + duration \in Nat /\ None \notin Nat
  BY ConstantFacts DEF Inv, Settings
<1> HIDE DEF v
<1>4. /\ r \in Merchant
      /\ r.active = FALSE
      /\ r.suspendedAt = now
      /\ r.suspensionExpiresAt = now + duration
      /\ r.lastPayoutChangeAt = v.lastPayoutChangeAt
  <2> DEFINE e == now + duration
  <2>1. r = [v EXCEPT !.active = FALSE, !.suspendedAt = now, !.suspensionExpiresAt = e]
    OBVIOUS
  <2>2. e \in Nat
    BY <1>3
  <2> HIDE DEF e, r
  <2>3. r \in Merchant
    BY <1>1, <1>3, <2>1, <2>2 DEF Merchant
  <2>4. /\ r.active = FALSE
        /\ r.suspendedAt = now
        /\ r.suspensionExpiresAt = e
        /\ r.lastPayoutChangeAt = v.lastPayoutChangeAt
    BY <1>1, <2>1 DEF Merchant
  <2>5. QED
    BY <2>3, <2>4 DEF e
<1> HIDE DEF r
<1>5. Consistent(r, m, L, C)
  BY <1>3, <1>4 DEF Consistent
<1>6. Records'
  <2>1. /\ Records /\ L \in SUBSET Merchants /\ C \in SUBSET Merchants
        /\ \A q \in Merchants : q # m => (q \in lifted => q \in L) /\ (q \in C => q \in closed)
    BY DEF Inv, Records
  <2> HIDE DEF L, C
  <2>2. QED
    BY <1>2, <1>4, <1>5, <2>1, RecordSet
<1>7. Payouts'
  BY <1>1, <1>2, <1>4, PayoutsOneRecord
<1>8. RolesInv' /\ Settings'
  BY <1>2, RolesKept, SettingsKept DEF Inv
<1>9. QED
  BY <1>6, <1>7, <1>8 DEF Inv

LEMMA AccessKeeps ==
  ASSUME Inv, NEW S \in SUBSET Merchants, Access(S)
  PROVE  Inv'
<1>1. /\ merchant' = [m \in Merchants |-> IF m \in S THEN Loaded(m) ELSE merchant[m]]
      /\ lifted' = {m \in lifted : merchant'[m].suspensionExpiresAt # None}
      /\ closed' = {m \in closed : ~merchant'[m].active}
      /\ changes' = changes /\ UNCHANGED settings /\ now' = now /\ UNCHANGED roleVars
      /\ \A m \in S : Registered(m)
  BY DEF Access
<1>2. ASSUME NEW m \in Merchants
      PROVE  /\ merchant'[m] \in Merchant \cup {NoMerchant}
             /\ merchant'[m].tier = merchant[m].tier
             /\ Registered(m) => merchant'[m].lastPayoutChangeAt = merchant[m].lastPayoutChangeAt
             /\ Registered(m) => Consistent(merchant'[m], m, lifted, closed)
  <2>1. CASE m \in S
    <3>1. Registered(m) /\ merchant'[m] = Loaded(m)
      BY <1>1, <2>1
    <3>2. QED
      BY <3>1, LoadedRecord DEF Inv
  <2>2. CASE m \notin S
    <3>1. merchant'[m] = merchant[m]
      BY <1>1, <2>2
    <3>2. QED
      BY <3>1 DEF Inv, Records
  <2>3. QED
    BY <2>1, <2>2
<1>3. Records'
  <2>1. merchant' \in [Merchants -> Merchant \cup {NoMerchant}]
    BY <1>1, <1>2
  <2>2. lifted' \in SUBSET Merchants /\ closed' \in SUBSET Merchants
    BY <1>1 DEF Inv, Records
  <2>3. ASSUME NEW m \in Merchants, Registered(m)'
        PROVE  Consistent(merchant'[m], m, lifted', closed')
    <3>1. Consistent(merchant'[m], m, lifted, closed)
      BY <1>2, <2>3 DEF Registered
    <3>2. /\ m \in closed' => m \in closed
          /\ m \in lifted /\ merchant'[m].suspensionExpiresAt # None => m \in lifted'
      BY <1>1
    <3>3. QED
      BY <3>1, <3>2 DEF Consistent
  <2>4. QED
    BY <2>1, <2>2, <2>3 DEF Records
<1>4. Payouts'
  <2>1. Payouts /\ now \in Nat
    BY DEF Inv, Settings
  <2>2. \A m \in Merchants :
            /\ merchant[m].tier # "None" => merchant'[m].tier # "None"
            /\ merchant'[m].tier # "None" /\ merchant[m].tier # "None" =>
                   merchant'[m].lastPayoutChangeAt = merchant[m].lastPayoutChangeAt
    BY <1>2 DEF Registered
  <2>3. QED
    BY <1>1, <2>1, <2>2, PayoutsKept
<1>5. RolesInv' /\ Settings'
  BY <1>1, RolesKept, SettingsKept DEF Inv
<1>6. QED
  BY <1>3, <1>4, <1>5 DEF Inv

\* update_merchant: the record it saves.
LEMMA SetActive ==
  ASSUME NEW r \in Merchant, NEW active \in BOOLEAN \cup {None},
         NEW u, u = IF active = None THEN r ELSE [r EXCEPT !.active = active]
  PROVE  /\ u \in Merchant
         /\ u.suspendedAt = r.suspendedAt
         /\ u.suspensionExpiresAt = r.suspensionExpiresAt
         /\ u.lastPayoutChangeAt = r.lastPayoutChangeAt
<1>1. CASE active = None
  BY <1>1
<1>2. CASE active # None
  <2>1. u = [r EXCEPT !.active = active] /\ active \in BOOLEAN
    BY <1>2
  <2>2. QED
    BY <2>1 DEF Merchant
<1>3. QED
  BY <1>1, <1>2

\* A merchant that sets its own activity stays consistent: activity during a
\* suspension is noted as lifted, inactivity without one as closed.
LEMMA UpdateConsistent ==
  ASSUME NEW m \in Merchants, NEW r, NEW a, NEW u,
         Consistent(r, m, lifted, closed),
         u.active = a.active,
         u.suspendedAt = r.suspendedAt, u.suspensionExpiresAt = r.suspensionExpiresAt,
         NEW L, L = IF ~r.active /\ a.active /\ r.suspensionExpiresAt # None
                    THEN lifted \cup {m} ELSE LiftedWith(m, r),
         NEW C, C = IF r.active /\ ~a.active
                    THEN closed \cup {m} ELSE ClosedWith(m, a)
  PROVE  Consistent(u, m, L, C)
<1> SUFFICES ASSUME u.active \/ m \in C, r.suspensionExpiresAt # None
             PROVE  m \in L
  BY Zenon DEF Consistent
<1>1. r.active \/ m \in closed => m \in lifted
  BY Zenon DEF Consistent
<1>2. LiftedWith(m, r) = lifted
  BY DEF LiftedWith
<1>3. CASE ~r.active /\ a.active
  BY <1>3
<1>4. CASE r.active
  <2>1. L = lifted
    BY <1>2, <1>4
  <2>2. QED
    BY <1>1, <1>4, <2>1
<1>5. CASE ~r.active /\ ~a.active
  <2>1. L = lifted /\ C = closed
    BY <1>2, <1>5 DEF ClosedWith
  <2>2. m \in closed
    BY <1>5, <2>1
  <2>3. QED
    BY <1>1, <2>1, <2>2
<1>6. QED
  BY <1>3, <1>4, <1>5

LEMMA PayoutsAppended ==
  ASSUME Inv, NEW m \in Merchants, NEW u \in Merchant, Registered(m),
         merchant' = [merchant EXCEPT ![m] = u],
         u.lastPayoutChangeAt = now,
         merchant[m].lastPayoutChangeAt # None =>
             now >= merchant[m].lastPayoutChangeAt + PayoutDelay,
         changes' = [changes EXCEPT ![m] = Append(@, now)], now' = now
  PROVE  Payouts'
<1> DEFINE s == changes[m]
<1>1. /\ s \in Seq(Nat) /\ changes \in [Merchants -> Seq(Nat)]
      /\ now \in Nat /\ PayoutDelay \in Nat /\ None \notin Nat
      /\ Spread(merchant[m], s, now)
  BY ConstantFacts DEF Inv, Payouts, Settings
<1>2. /\ changes'[m] = Append(s, now)
      /\ \A q \in Merchants : q # m => changes'[q] = changes[q]
      /\ changes' \in [Merchants -> Seq(Nat)]
  <2>1. Append(s, now) \in Seq(Nat)
    BY <1>1, AppendProperties
  <2>2. QED
    BY <1>1, <2>1
<1> HIDE DEF s
<1>3. /\ \A i \in 1 .. Len(s) : s[i] =< now
      /\ \A j \in 1 .. Len(s) : \A i \in 1 .. j - 1 : s[j] - s[i] >= PayoutDelay
      /\ s # <<>> => merchant[m].lastPayoutChangeAt = s[Len(s)]
  BY <1>1 DEF Spread, Registered
<1>4. s # <<>> => now >= s[Len(s)] + PayoutDelay
  <2> SUFFICES ASSUME s # <<>>
               PROVE  now >= s[Len(s)] + PayoutDelay
    OBVIOUS
  <2>1. s[Len(s)] \in Nat
    BY <1>1, EmptySeq
  <2>2. merchant[m].lastPayoutChangeAt # None
    BY <1>1, <1>3, <2>1
  <2>3. QED
    BY <1>3, <2>2
<1>5. Spread(u, Append(s, now), now)
  <2> DEFINE w == Append(s, now)
  <2>1. w = Append(s, now)
    OBVIOUS
  <2> HIDE DEF w
  <2>2. /\ w \in Seq(Nat)
        /\ w # <<>> /\ w[Len(w)] = now
        /\ \A i \in 1 .. Len(w) : w[i] =< now
        /\ \A j \in 1 .. Len(w) : \A i \in 1 .. j - 1 : w[j] - w[i] >= PayoutDelay
    <3>1. s \in Seq(Nat) /\ now \in Nat /\ PayoutDelay \in Nat
      BY <1>1
    <3>2. \A j \in 1 .. Len(s) : \A i \in 1 .. j - 1 : s[j] - s[i] >= PayoutDelay
      BY <1>3
    <3>3. \A i \in 1 .. Len(s) : s[i] =< now
      BY <1>3
    <3>4. QED
      BY <1>4, <2>1, <3>1, <3>2, <3>3, SpreadAppend, SMTT(60)
  <2>3. u.tier # "None"
    BY RecordFields
  <2>4. Spread(u, w, now)
    BY <2>2, <2>3 DEF Spread
  <2>5. QED
    BY <2>4 DEF w
<1>6. ASSUME NEW q \in Merchants
      PROVE  Spread(merchant'[q], changes'[q], now')
  <2>1. merchant \in [Merchants -> Merchant \cup {NoMerchant}]
    BY DEF Inv, Records
  <2>2. CASE q = m
    <3>1. merchant'[q] = u /\ changes'[q] = Append(s, now)
      BY <1>2, <2>1, <2>2
    <3>2. QED
      BY <1>5, <3>1
  <2>3. CASE q # m
    <3>1. merchant'[q] = merchant[q] /\ changes'[q] = changes[q]
      BY <1>2, <2>1, <2>3
    <3>2. Spread(merchant[q], changes[q], now)
      BY DEF Inv, Payouts
    <3>3. QED
      BY <3>1, <3>2 DEF Spread
  <2>4. QED
    BY <2>2, <2>3
<1>7. QED
  BY <1>2, <1>6 DEF Payouts

LEMMA UpdateMerchantKeeps ==
  ASSUME Inv, NEW m \in Merchants, NEW active \in BOOLEAN \cup {None},
         NEW payout \in Addresses \cup {None}, UpdateMerchant(m, active, payout)
  PROVE  Inv'
<1> DEFINE r == Loaded(m)
           a == IF active = None THEN r ELSE [r EXCEPT !.active = active]
           u == IF payout = None THEN a
                ELSE [a EXCEPT !.payout = payout, !.lastPayoutChangeAt = now]
           L == IF ~r.active /\ a.active /\ r.suspensionExpiresAt # None
                THEN lifted \cup {m} ELSE LiftedWith(m, r)
           C == IF r.active /\ ~a.active
                THEN closed \cup {m} ELSE ClosedWith(m, a)
<1>1. /\ Registered(m)
      /\ payout # None => PayoutChangeable(r, payout)
      /\ merchant' = [merchant EXCEPT ![m] = u]
      /\ changes' = IF payout = None THEN changes
                    ELSE [changes EXCEPT ![m] = Append(@, now)]
      /\ lifted' = L
      /\ closed' = C
      /\ UNCHANGED settings /\ now' = now /\ UNCHANGED roleVars
  BY Zenon DEF UpdateMerchant
<1>2. /\ r \in Merchant
      /\ r.lastPayoutChangeAt = merchant[m].lastPayoutChangeAt
      /\ Consistent(r, m, lifted, closed)
  BY <1>1, LoadedRecord DEF Inv
<1>3. L \in SUBSET Merchants /\ C \in SUBSET Merchants
  <2> HIDE DEF r, a
  <2>1. QED
    BY DEF Inv, Records, LiftedWith, ClosedWith
<1>4. \A q \in Merchants : q # m => (q \in lifted => q \in L) /\ (q \in C => q \in closed)
  <2> HIDE DEF r, a
  <2>1. QED
    BY DEF LiftedWith, ClosedWith
<1> HIDE DEF r
<1>5. /\ a \in Merchant
      /\ a.suspendedAt = r.suspendedAt
      /\ a.suspensionExpiresAt = r.suspensionExpiresAt
      /\ a.lastPayoutChangeAt = r.lastPayoutChangeAt
  BY <1>2, SetActive
<1> HIDE DEF a
<1>6. now \in Nat
  BY DEF Inv, Settings
<1>7. /\ u \in Merchant
      /\ u.active = a.active
      /\ u.suspendedAt = a.suspendedAt
      /\ u.suspensionExpiresAt = a.suspensionExpiresAt
      /\ u.lastPayoutChangeAt = IF payout = None THEN a.lastPayoutChangeAt ELSE now
  <2>1. CASE payout = None
    BY <1>5, <2>1
  <2>2. CASE payout # None
    <3>1. payout \in Addresses /\ u = [a EXCEPT !.payout = payout, !.lastPayoutChangeAt = now]
      BY <2>2
    <3> HIDE DEF u
    <3>2. QED
      BY <1>5, <1>6, <2>2, <3>1 DEF Merchant
  <2>3. QED
    BY <2>1, <2>2
<1> HIDE DEF u
<1>8. Consistent(u, m, L, C)
  BY <1>2, <1>5, <1>7, UpdateConsistent
<1> HIDE DEF L, C
<1>9. Records'
  BY <1>1, <1>3, <1>4, <1>7, <1>8, RecordSet DEF Inv
<1>10. Payouts'
  <2>1. CASE payout = None
    BY <1>1, <1>2, <1>5, <1>7, <2>1, PayoutsOneRecord
  <2>2. CASE payout # None
    <3>1. merchant[m].lastPayoutChangeAt # None =>
              now >= merchant[m].lastPayoutChangeAt + PayoutDelay
      BY <1>1, <1>2, <2>2 DEF PayoutChangeable
    <3>2. /\ changes' = [changes EXCEPT ![m] = Append(@, now)]
          /\ u.lastPayoutChangeAt = now
      BY <1>1, <1>7, <2>2
    <3>3. QED
      BY <1>1, <1>7, <3>1, <3>2, PayoutsAppended
  <2>3. QED
    BY <2>1, <2>2
<1>11. RolesInv' /\ Settings'
  BY <1>1, RolesKept, SettingsKept DEF Inv
<1>12. QED
  BY <1>9, <1>10, <1>11 DEF Inv

\* A step that changes neither records nor payouts.
LEMMA OtherKeeps ==
  ASSUME Inv, UNCHANGED <<merchant, lifted, closed, changes>>,
         now' \in Nat, now' >= now, RolesInv', Settings'
  PROVE  Inv'
<1>1. Records'
  BY RecordsKept DEF Inv
<1>2. Payouts'
  BY PayoutsKept DEF Inv, Settings
<1>3. QED
  BY <1>1, <1>2 DEF Inv

LEMMA InvNext == Inv /\ [Next]_vars => Inv'
<1> SUFFICES ASSUME Inv, [Next]_vars
             PROVE  Inv'
  OBVIOUS
<1> DEFINE Goal == Inv'
<1>1. now \in Nat /\ Settings /\ RolesInv
  BY DEF Inv, Settings
<1>2. ASSUME NEW a \in Accounts, InitializeRegistry(a)
      PROVE  Goal
  <2>1. RolesInv'
    BY <1>1, <1>2, RolesKept DEF InitializeRegistry
  <2>2. Settings'
    BY <1>1, <1>2 DEF InitializeRegistry, Settings
  <2>3. QED
    BY <1>1, <1>2, <2>1, <2>2, OtherKeeps DEF InitializeRegistry, histories
<1>3. ASSUME NEW S \in SUBSET Merchants, Access(S)
      PROVE  Goal
  BY <1>3, AccessKeeps
<1>4. ASSUME NEW m \in Merchants, NEW payout \in Addresses \cup {None},
             RegisterMerchant(m, payout)
      PROVE  Goal
  BY <1>4, RegisterMerchantKeeps
<1>5. ASSUME NEW m \in Merchants, NEW payout \in Addresses \cup {None},
             NEW active \in BOOLEAN \cup {None}, UpdateMerchant(m, active, payout)
      PROVE  Goal
  BY <1>5, UpdateMerchantKeeps
<1>6. ASSUME NEW m \in Merchants, VerifyMerchant(m)
      PROVE  Goal
  BY <1>6, VerifyMerchantKeeps
<1>7. ASSUME NEW m \in Merchants, NEW tier \in Tiers, SetKycTier(m, tier)
      PROVE  Goal
  BY <1>7, SetKycTierKeeps
<1>8. ASSUME NEW m \in Merchants, NEW duration \in Durations, SuspendMerchant(m, duration)
      PROVE  Goal
  BY <1>8, SuspendMerchantKeeps
<1>9. ASSUME NEW m \in Merchants, ReinstateMerchant(m)
      PROVE  Goal
  BY <1>9, ReinstateMerchantKeeps
<1>10. ASSUME NEW m \in Merchants, NEW address \in Addresses, AddCurrencyPayout(m, address)
       PROVE  Goal
  BY <1>10, AddCurrencyPayoutKeeps
<1>11. ASSUME NEW m \in Merchants, NEW address \in Addresses,
              AddToWhitelist(m, address) \/ RemoveFromWhitelist(m, address)
       PROVE  Goal
  BY <1>11, WhitelistKeeps
<1>12. ASSUME SetRefundManagerAddress
       PROVE  Goal
  <2>1. RolesInv'
    BY <1>1, <1>12, RolesKept DEF SetRefundManagerAddress
  <2>2. Settings'
    BY <1>1, <1>12 DEF SetRefundManagerAddress, Settings
  <2>3. QED
    BY <1>1, <1>12, <2>1, <2>2, OtherKeeps DEF SetRefundManagerAddress, histories
<1>13. ASSUME ManageRoles
       PROVE  Goal
  <2>1. RolesInv'
    BY <1>1, <1>13, RolesStep DEF ManageRoles
  <2>2. Settings'
    BY <1>1, <1>13, SettingsKept DEF ManageRoles
  <2>3. QED
    BY <1>1, <1>13, <2>1, <2>2, OtherKeeps DEF ManageRoles, histories
<1>14. ASSUME Tick
       PROVE  Goal
  <2>1. RolesInv'
    BY <1>1, <1>14, RolesKept DEF Tick
  <2>2. Settings' /\ now' \in Nat /\ now' >= now
    BY <1>1, <1>14 DEF Tick, Settings, settings
  <2>3. QED
    BY <1>1, <1>14, <2>1, <2>2, OtherKeeps DEF Tick, histories
<1>15. ASSUME UNCHANGED vars
       PROVE  Goal
  <2>1. RolesInv'
    BY <1>1, <1>15, RolesKept DEF vars
  <2>2. Settings'
    BY <1>1, <1>15 DEF vars, Settings
  <2>3. QED
    BY <1>1, <1>15, <2>1, <2>2, OtherKeeps DEF vars
<1> HIDE DEF Goal
<1>16. Goal
  BY <1>2, <1>3, <1>4, <1>5, <1>6, <1>7, <1>8, <1>9, <1>10, <1>11, <1>12, <1>13,
     <1>14, <1>15, Zenon DEF Next
<1>17. QED
  BY <1>16 DEF Goal

THEOREM Invariance == Spec => []Inv
BY InvInit, InvNext, PTL DEF Spec

-----------------------------------------------------------------------------
(* The theorems *)

\* Every reachable state of MerchantRegistry and of the roles has its type.
THEOREM RegistryTypeCorrect == Spec => []TypeOK
<1>1. Inv => TypeOK
  BY DEF Inv, TypeOK, RolesInv, Records, Payouts, Settings
<1>2. QED
  BY <1>1, Invariance, PTL

\* get_role_members and the role flags never disagree, whichever way grants,
\* revocations, transfers and repeated initializations are ordered.
THEOREM RolesIndexExact == Spec => []IndexExact
<1>1. Inv => IndexExact
  BY DEF Inv, RolesInv
<1>2. QED
  BY <1>1, Invariance, PTL

\* Only revoke_role can leave the admin key with an account that is no admin.
THEOREM RolesKeyNamesAnAdmin == Spec => []KeyNamesAnAdmin
<1>1. Inv => KeyNamesAnAdmin
  BY DEF Inv, RolesInv
<1>2. QED
  BY <1>1, Invariance, PTL

\* A deadline of a suspension is on record only while the merchant is
\* suspended, or has reactivated itself since.
THEOREM RegistrySuspensionOnRecord == Spec => []SuspensionOnRecord
<1>1. Inv => SuspensionOnRecord
  BY Zenon DEF Inv, Records, Consistent, SuspensionOnRecord
<1>2. QED
  BY <1>1, Invariance, PTL

\* Any two changes of a payout address are at least PayoutDelay apart.
THEOREM RegistryPayoutChangesApart == Spec => []PayoutChangesApart
<1>1. Inv => PayoutChangesApart
  BY DEF Inv, Payouts, Spread, PayoutChangesApart
<1>2. QED
  BY <1>1, Invariance, PTL
=============================================================================
