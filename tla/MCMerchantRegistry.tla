------------------------- MODULE MCMerchantRegistry -------------------------
(***************************************************************************)
(* MerchantRegistry on a small instance: one merchant and one other        *)
(* account, either of which may become an admin of either contract.        *)
(***************************************************************************)
EXTENDS MerchantRegistry

CONSTANTS boss, shop

MCRoles == {"ADMIN", "MERCHANT"}
=============================================================================
