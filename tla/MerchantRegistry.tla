-------------------------- MODULE MerchantRegistry --------------------------
(***************************************************************************)
(* MerchantRegistry (merchant_registry.rs) together with the roles of the  *)
(* RefundManager it grants: merchants register, an admin verifies and      *)
(* suspends them, and a suspension ends by itself -- at the first access   *)
(* after its time, since every function that loads a merchant reinstates   *)
(* it and saves it (get_merchant_internal).                                *)
(*                                                                         *)
(* Names, bank accounts, metadata and fee settings are left out; a call    *)
(* that only sets or reads one of them is an access here (Access).         *)
(*                                                                         *)
(* Operators whose name ends in _M are deliberate mistakes that            *)
(* PROJECT.json puts in the place of the definition that follows.          *)
(***************************************************************************)
EXTENDS AccessControl, Sequences

CONSTANTS
    Merchants,       \* accounts that register
    Addresses,       \* payout addresses
    Durations,       \* how long an admin may suspend
    PayoutDelay,     \* forty_eight_hours
    MaxTime          \* bound on the ledger clock

ASSUME MerchantRegistryAssumption ==
    /\ Merchants \subseteq Accounts
    /\ "MERCHANT" \in Roles \ {"ADMIN"}
    /\ None \notin Addresses
    /\ None \notin Nat
    /\ Durations \subseteq Nat
    /\ PayoutDelay \in Nat
    /\ MaxTime \in Nat

VARIABLES
    merchant,        \* MerchantDataKey::Merchant
    admin,           \* MerchantDataKey::Admin
    refundManager,   \* whether MerchantDataKey::RefundManagerAddress is set
    now,             \* the ledger timestamp
    lifted,          \* history: merchants that became active by their own call
                     \* during a suspension, which is still on record
    closed,          \* history: merchants that made themselves inactive
    changes          \* history: the times of payout changes

vars == <<merchant, admin, refundManager, now, lifted, closed, changes, roleVars>>
settings == <<admin, refundManager>>
histories == <<lifted, closed, changes>>

-----------------------------------------------------------------------------
\* The verified tiers are one here, as they are to get_verified_merchants.
Tiers == {"Unverified", "Verified"}
NoMerchant == [tier |-> "None"]

Merchant ==
    [tier : Tiers, active : BOOLEAN, suspendedAt : Nat \cup {None},
     suspensionExpiresAt : Nat \cup {None}, payout : Addresses \cup {None},
     lastPayoutChangeAt : Nat \cup {None}, whitelist : SUBSET Addresses]

Registered(m) == merchant[m].tier # "None"

Reinstated(r) ==
    [r EXCEPT !.active = TRUE, !.suspendedAt = None, !.suspensionExpiresAt = None]

Loaded_Duration_M(m) ==
    LET r == merchant[m]
    IN  IF /\ ~r.active /\ r.suspensionExpiresAt # None
           /\ now >= r.suspendedAt + r.suspensionExpiresAt
        THEN Reinstated(r) ELSE r

Loaded_KeepsDates_M(m) ==
    LET r == merchant[m]
    IN  IF /\ ~r.active /\ r.suspensionExpiresAt # None
           /\ now >= r.suspensionExpiresAt
        THEN [r EXCEPT !.active = TRUE] ELSE r

\* get_merchant_internal: the record as every function sees it.
Loaded(m) ==
    LET r == merchant[m]
    IN  IF /\ ~r.active /\ r.suspensionExpiresAt # None
           /\ now >= r.suspensionExpiresAt
        THEN Reinstated(r) ELSE r

\* An empty whitelist allows every address.
Allowed(r, address) == r.whitelist = {} \/ address \in r.whitelist

\* What the histories become when record r of merchant m is saved.
LiftedWith(m, r) == IF r.suspensionExpiresAt = None THEN lifted \ {m} ELSE lifted
ClosedWith(m, r) == IF r.active THEN closed \ {m} ELSE closed

Saved(m, r) ==
    /\ merchant' = [merchant EXCEPT ![m] = r]
    /\ lifted' = LiftedWith(m, r)
    /\ closed' = ClosedWith(m, r)
    /\ UNCHANGED <<settings, now>>

-----------------------------------------------------------------------------
Init ==
    /\ merchant = [m \in Merchants |-> NoMerchant]
    /\ admin = None
    /\ refundManager = FALSE
    /\ now = 0
    /\ lifted = {}
    /\ closed = {}
    /\ changes = [m \in Merchants |-> <<>>]
    /\ RolesInit

InitializeRegistry(a) ==
    /\ admin = None
    /\ admin' = a
    /\ UNCHANGED <<merchant, refundManager, now, histories, roleVars>>

RegisterMerchant(m, payout) ==
    /\ ~Registered(m)
    /\ merchant' = [merchant EXCEPT ![m] =
           [tier |-> "Unverified", active |-> TRUE, suspendedAt |-> None,
            suspensionExpiresAt |-> None, payout |-> payout,
            lastPayoutChangeAt |-> None, whitelist |-> {}]]
    /\ UNCHANGED <<settings, now, histories, roleVars>>

\* Any function that loads merchants and changes nothing modelled here.
Access(S) ==
    /\ \A m \in S : Registered(m)
    /\ merchant' = [m \in Merchants |-> IF m \in S THEN Loaded(m) ELSE merchant[m]]
    /\ lifted' = {m \in lifted : merchant'[m].suspensionExpiresAt # None}
    /\ closed' = {m \in closed : ~merchant'[m].active}
    /\ UNCHANGED <<settings, now, changes, roleVars>>

PayoutChangeable_Any_M(r, address) == Allowed(r, address)

PayoutChangeable(r, address) ==
    /\ Allowed(r, address)
    /\ r.lastPayoutChangeAt # None => now >= r.lastPayoutChangeAt + PayoutDelay

\* The merchant's own call.  None leaves a setting as it is; active does not
\* touch the dates of a suspension.
UpdateMerchant(m, active, payout) ==
    LET r == Loaded(m)
        activated == IF active = None THEN r ELSE [r EXCEPT !.active = active]
    IN  /\ Registered(m)
        /\ payout # None => PayoutChangeable(r, payout)
        /\ merchant' = [merchant EXCEPT ![m] =
               IF payout = None THEN activated
               ELSE [activated EXCEPT !.payout = payout,
                                      !.lastPayoutChangeAt = now]]
        /\ changes' = IF payout = None THEN changes
                      ELSE [changes EXCEPT ![m] = Append(@, now)]
        /\ lifted' = IF ~r.active /\ activated.active /\ r.suspensionExpiresAt # None
                     THEN lifted \cup {m} ELSE LiftedWith(m, r)
        /\ closed' = IF r.active /\ ~activated.active
                     THEN closed \cup {m} ELSE ClosedWith(m, activated)
        /\ UNCHANGED <<settings, now, roleVars>>

\* Also grants the MERCHANT role in the RefundManager, where the registry's
\* admin may not be allowed to; that refusal is swallowed.
VerifyMerchant(m) ==
    /\ admin # None
    /\ Registered(m)
    /\ Saved(m, [Loaded(m) EXCEPT !.tier = "Verified"])
    /\ IF refundManager /\ HasRole("ADMIN", admin) /\ ~HasRole("MERCHANT", m)
       THEN GrantRole("MERCHANT", m)
       ELSE UNCHANGED roleVars
    /\ UNCHANGED changes

SetKycTier(m, tier) ==
    /\ admin # None
    /\ Registered(m)
    /\ Saved(m, [Loaded(m) EXCEPT !.tier = tier])
    /\ UNCHANGED <<changes, roleVars>>

SetRefundManagerAddress ==
    /\ admin # None
    /\ refundManager' = TRUE
    /\ UNCHANGED <<merchant, admin, now, histories, roleVars>>

SuspendMerchant_Past_M(m, duration) ==
    /\ admin # None
    /\ Registered(m)
    /\ merchant' = [merchant EXCEPT ![m] =
           [Loaded(m) EXCEPT !.active = FALSE, !.suspendedAt = now,
                             !.suspensionExpiresAt = now - duration]]
    /\ lifted' = lifted \ {m}
    /\ closed' = closed \ {m}
    /\ UNCHANGED <<settings, now, changes, roleVars>>

SuspendMerchant(m, duration) ==
    /\ admin # None
    /\ Registered(m)
    /\ merchant' = [merchant EXCEPT ![m] =
           [Loaded(m) EXCEPT !.active = FALSE, !.suspendedAt = now,
                             !.suspensionExpiresAt = now + duration]]
    /\ lifted' = lifted \ {m}
    /\ closed' = closed \ {m}
    /\ UNCHANGED <<settings, now, changes, roleVars>>

ReinstateMerchant(m) ==
    /\ admin # None
    /\ Registered(m)
    /\ Saved(m, Reinstated(Loaded(m)))
    /\ UNCHANGED <<changes, roleVars>>

\* Subject to the whitelist, not to the delay; the addresses per currency
\* themselves are left out.
AddCurrencyPayout(m, address) ==
    /\ Registered(m)
    /\ Allowed(Loaded(m), address)
    /\ Saved(m, Loaded(m))
    /\ UNCHANGED <<changes, roleVars>>

\* An address that is listed already leaves the record as it was loaded.
AddToWhitelist(m, address) ==
    /\ Registered(m)
    /\ Saved(m, [Loaded(m) EXCEPT !.whitelist = @ \cup {address}])
    /\ UNCHANGED <<changes, roleVars>>

RemoveFromWhitelist(m, address) ==
    /\ Registered(m)
    /\ Saved(m, [Loaded(m) EXCEPT !.whitelist = @ \ {address}])
    /\ UNCHANGED <<changes, roleVars>>

\* The RefundManager's own calls.
ManageRoles ==
    /\ RolesNext
    /\ UNCHANGED <<merchant, settings, now, histories>>

Tick ==
    /\ now < MaxTime
    /\ now' = now + 1
    /\ UNCHANGED <<merchant, settings, histories, roleVars>>

Next ==
    \/ \E a \in Accounts : InitializeRegistry(a)
    \/ \E S \in SUBSET Merchants : Access(S)
    \/ \E m \in Merchants :
          \/ \E payout \in Addresses \cup {None} :
                \/ RegisterMerchant(m, payout)
                \/ \E active \in BOOLEAN \cup {None} :
                      UpdateMerchant(m, active, payout)
          \/ VerifyMerchant(m)
          \/ \E tier \in Tiers : SetKycTier(m, tier)
          \/ \E duration \in Durations : SuspendMerchant(m, duration)
          \/ ReinstateMerchant(m)
          \/ \E address \in Addresses :
                \/ AddCurrencyPayout(m, address)
                \/ AddToWhitelist(m, address)
                \/ RemoveFromWhitelist(m, address)
    \/ SetRefundManagerAddress
    \/ ManageRoles
    \/ Tick

Spec == Init /\ [][Next]_vars

\* Time passes, and merchants are looked up from time to time.
FairSpec == Spec /\ WF_vars(Tick) /\ \A m \in Merchants : WF_vars(Access({m}))
-----------------------------------------------------------------------------
(* Properties *)

\* Every stored value has its type.
TypeOK ==
    /\ merchant \in [Merchants -> Merchant \cup {NoMerchant}]
    /\ admin \in Accounts \cup {None}
    /\ refundManager \in BOOLEAN
    /\ now \in Nat
    /\ lifted \in SUBSET Merchants
    /\ closed \in SUBSET Merchants
    /\ changes \in [Merchants -> Seq(Nat)]
    /\ RolesTypeOK

\* A suspension is on record as a whole, and a merchant that is active, or
\* inactive by its own choice, has one on record only because it reactivated
\* itself while suspended (update_merchant, which leaves the dates behind):
\* otherwise no deadline is left that would one day reactivate it.
SuspensionOnRecord ==
    \A m \in Merchants : Registered(m) =>
        LET r == merchant[m]
        IN  /\ (r.suspendedAt = None) <=> (r.suspensionExpiresAt = None)
            /\ (r.active \/ m \in closed) /\ r.suspensionExpiresAt # None =>
                  m \in lifted

\* Payout addresses set by update_merchant are at least the delay apart.
PayoutChangesApart ==
    \A m \in Merchants : \A j \in 1 .. Len(changes[m]) : \A i \in 1 .. j - 1 :
        changes[m][j] - changes[m][i] >= PayoutDelay

\* A merchant whose suspension ends within the run is not suspended for good:
\* it becomes active, unless an admin moves the end beyond the run -- provided
\* that time passes and merchants are looked up from time to time, since
\* nothing but a lookup reinstates one.
Suspended(m) ==
    /\ Registered(m) /\ ~merchant[m].active
    /\ merchant[m].suspensionExpiresAt \in 0 .. MaxTime

SuspensionEnds == \A m \in Merchants : Suspended(m) ~> ~Suspended(m)
=============================================================================
