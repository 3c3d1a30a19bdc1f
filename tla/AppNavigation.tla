---------------------------- MODULE AppNavigation ----------------------------
(***************************************************************************)
(* Moving through the web client: the location of one tab, the session its *)
(* store holds, and the redirects of the guards (routes/guards.tsx), of    *)
(* the forwarding routes and of the sign-in pages. The tables are those of *)
(* AccessRules. A chain of redirects runs while the user waits: the next   *)
(* click or address comes when the tab rests.                              *)
(*                                                                         *)
(* An account has the permissions its roles are seeded with; overrides of  *)
(* one user's permissions are left out.                                    *)
(***************************************************************************)
EXTENDS AccessRules

CONSTANTS Accounts,
          RolesOf,   \* the role codes of each account
          Branched,  \* accounts assigned to a branch
          Newcomers, \* accounts still on a temporary password at the start
          TwoFactor, \* accounts with a second factor
          Nobody

ASSUME NavigationAssumption ==
    /\ RolesOf \in [Accounts -> SUBSET RoleCodes]
    /\ Branched \subseteq Accounts /\ Newcomers \subseteq Accounts
    /\ TwoFactor \subseteq Accounts /\ Nobody \notin Accounts

VARIABLES temporary, \* server: accounts that must change their password
          token,     \* account of the stored refresh token
          session,   \* the auth store: status, account, must_change_password
          loc,       \* the address
          next,      \* its ?next=, Home if none
          via        \* how the address was reached

vars == <<temporary, token, session, loc, next, via>>

Verify == <<"two-factor-verify">>
Unknown == <<"*">>
AllPaths == GuardedPaths \cup PublicPaths \cup {Unknown}

SignedOut == [status |-> "unauthenticated", who |-> Nobody, change |-> FALSE]

PermissionsOf(a) == UNION {Seeded[role] : role \in RolesOf[a]}

SignedIn == session.status = "authenticated"

\* applyRestrictedAuthSession loads neither permissions nor roles.
Perms == IF SignedIn /\ ~session.change THEN PermissionsOf(session.who) ELSE {}
Roles == IF SignedIn /\ ~session.change THEN RolesOf[session.who] ELSE {}

-----------------------------------------------------------------------------
(* Redirects *)

Bounce == Dashboard

\* RequireBranchContext stands outside the permission guard.
NoBranch(path) == Route[path].guard.branch /\ session.who \notin Branched

Denied(path) == ~Permits(Route[path].guard, Perms, Roles)

\* Variant: RequireAuth redirects to the page it is on.
SendsAnywhere(path) ==
    IF session.change THEN {ChangePassword}
    ELSE IF path = ChangePassword THEN {Dashboard}
    ELSE IF NoBranch(path) THEN {SelectBranch}
    ELSE IF Denied(path) THEN {Bounce}
    ELSE {Target(path, Roles)} \ {path}

\* Where the elements around a guarded path send a signed-in user: nowhere when
\* they show the page.
Sends(path) ==
    IF session.change THEN {ChangePassword} \ {path}
    ELSE IF path = ChangePassword THEN {Dashboard}
    ELSE IF NoBranch(path) THEN {SelectBranch}
    ELSE IF Denied(path) THEN {Bounce}
    ELSE {Target(path, Roles)} \ {path}

\* LoginPage sends a user with a session on.
FromLogin == IF session.change THEN ChangePassword ELSE PostLogin(next, Perms, Roles)

Redirects ==
    \/ session.status = "unauthenticated" /\ loc \in GuardedPaths
    \/ SignedIn /\ loc \in GuardedPaths /\ Sends(loc) # {}
    \/ SignedIn /\ loc = Login

Resting == session.status # "booting" /\ ~Redirects

\* RequireAuth without a session keeps the address in ?next=.
ToLogin ==
    /\ session.status = "unauthenticated" /\ loc \in GuardedPaths
    /\ loc' = Login /\ next' = loc /\ via' = "guard"

ByGuard ==
    /\ SignedIn /\ loc \in GuardedPaths
    /\ loc' \in Sends(loc) /\ next' = Home
    /\ via' = IF loc' = Target(loc, Roles) THEN via ELSE "guard"

LeaveLogin ==
    /\ SignedIn /\ loc = Login
    /\ loc' = FromLogin /\ next' = Home /\ via' = "login"

Redirect ==
    /\ ToLogin \/ ByGuard \/ LeaveLogin
    /\ UNCHANGED <<temporary, token, session>>

-----------------------------------------------------------------------------
(* Boot *)

Hydrated(a) == [status |-> "authenticated", who |-> a, change |-> a \in temporary]

\* AuthBoundary shows nothing of the routes while the session is restored.
Boot ==
    /\ session.status = "booting"
    /\ session' = Hydrated(token)
    /\ UNCHANGED <<temporary, token, loc, next, via>>

BootFails ==
    /\ session.status = "booting"
    /\ session' = SignedOut /\ token' = Nobody
    /\ UNCHANGED <<temporary, loc, next, via>>

-----------------------------------------------------------------------------
(* The user *)

\* An address typed, or a reload: the memory of the tab is lost.
Load(path) ==
    /\ Resting
    /\ session' = IF token = Nobody THEN SignedOut
                  ELSE [status |-> "booting", who |-> token, change |-> FALSE]
    /\ loc' = path /\ next' = Home /\ via' = "address"
    /\ UNCHANGED <<temporary, token>>

InShell == SignedIn /\ loc \in GuardedPaths \ {ChangePassword, SelectBranch, Kiosk}

Follow(path) ==
    /\ Resting /\ InShell
    /\ path \in ShellMenu(Perms, Roles) \cup {<<"profile">>}
    /\ loc' = path /\ next' = Home /\ via' = "link"
    /\ UNCHANGED <<temporary, token, session>>

LogIn(a) ==
    /\ Resting /\ loc = Login
    /\ a \notin TwoFactor \/ a \in temporary
    /\ token' = a /\ session' = Hydrated(a)
    /\ UNCHANGED <<temporary, loc, next, via>>

AskSecondFactor(a) ==
    /\ Resting /\ loc = Login
    /\ a \in TwoFactor \ temporary
    /\ loc' = Verify
    /\ UNCHANGED <<temporary, token, session, next, via>>

\* TwoFactorVerifyPage continues by itself; the kiosk role is not asked for.
EnterCode(a) ==
    /\ Resting /\ loc = Verify /\ session.status = "unauthenticated"
    /\ a \in TwoFactor \ temporary
    /\ token' = a /\ session' = Hydrated(a)
    /\ loc' = Continue(SafeNext(next), PermissionsOf(a), RolesOf[a])
    /\ next' = Home /\ via' = "login"
    /\ UNCHANGED temporary

\* The new password is stored; loading the full session may then fail.
SubmitPassword ==
    /\ Resting /\ loc = ChangePassword /\ session.who \in temporary
    /\ temporary' = temporary \ {session.who}
    /\ \/ /\ session' = [session EXCEPT !.change = FALSE]
          /\ loc' = Dashboard /\ next' = Home /\ via' = "login"
       \/ UNCHANGED <<session, loc, next, via>>
    /\ UNCHANGED token

\* A request whose refresh fails, or a sign-out in another tab.
Expire ==
    /\ Resting /\ SignedIn
    /\ session' = SignedOut /\ token' = Nobody
    /\ UNCHANGED <<temporary, loc, next, via>>

SignOut ==
    /\ Resting /\ InShell
    /\ session' = SignedOut /\ token' = Nobody
    /\ loc' = Login /\ next' = Home /\ via' = "guard"
    /\ UNCHANGED temporary

-----------------------------------------------------------------------------
Init ==
    /\ temporary = Newcomers /\ token = Nobody /\ session = SignedOut
    /\ loc = Home /\ next = Home /\ via = "address"

Next ==
    \/ Redirect \/ Boot \/ BootFails
    \/ \E path \in AllPaths : Load(path)
    \/ \E path \in DOMAIN Menu \cup {<<"profile">>} : Follow(path)
    \/ \E a \in Accounts : LogIn(a) \/ AskSecondFactor(a) \/ EnterCode(a)
    \/ SubmitPassword \/ Expire \/ SignOut

\* Redirects happen on render; a request of the boot is answered or fails.
Fairness == WF_vars(Redirect) /\ WF_vars(Boot \/ BootFails)

Spec == Init /\ [][Next]_vars /\ Fairness

-----------------------------------------------------------------------------
(* Properties *)

\* A link the menu shows opens: it leads, through any forwarding, to a page
\* that there is and whose guard lets the user in. Menu and routes are separate tables
\* (config/navigation.ts, routes/router.tsx) with separate role lists.
ShownLinksOpen ==
    via = "link" /\ SignedIn => loc \in GuardedPaths /\ ~Denied(loc)

\* Guards, forwarding routes and sign-in pages never send the tab round in a
\* circle: whatever the address, it comes to rest on a page.
ComesToRest == []<>Resting
=============================================================================
