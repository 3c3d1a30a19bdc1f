-------------------------- MODULE MCAppNavigation --------------------------
(***************************************************************************)
(* One account for every seeded role, a manager of two departments, an     *)
(* owner assigned to no branch and a cashier on a temporary password; the  *)
(* accountant signs in with a second factor. Every address of the router   *)
(* can be typed.                                                           *)
(***************************************************************************)
EXTENDS AppNavigation

MCRolesOf ==
    [a \in RoleCodes |-> {a}]
    @@ ("duo" :> {"HR_MANAGER", "MARKETING_MANAGER"}) @@ ("new" :> {"CASHIER"})
    @@ ("roaming" :> {"OWNER", "CASHIER"})

MCAccounts == DOMAIN MCRolesOf
MCBranched == MCAccounts \ {"roaming"}
=============================================================================
