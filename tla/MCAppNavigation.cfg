SPECIFICATION Spec
CONSTANTS
    Nobody = Nobody
    RolesOf <- MCRolesOf
    Accounts <- MCAccounts
    Branched <- MCBranched
    Newcomers = {"new"}
    TwoFactor = {"ACCOUNTANT", "ATTENDANCE_KIOSK"}
INVARIANT ShownLinksOpen
PROPERTY ComesToRest
