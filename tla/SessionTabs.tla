----------------------------- MODULE SessionTabs -----------------------------
(***************************************************************************)
(* The state of the signed-in session across the tabs of one browser: what *)
(* the server honours, what localStorage holds, what each tab keeps in its *)
(* auth store (authStore.ts) and has under way, and what must be true of   *)
(* them in every state. AuthSession has the steps.                         *)
(***************************************************************************)
EXTENDS Naturals, FiniteSets

CONSTANTS Tabs,
          Pages,     \* requests of the page a tab may have out at once
          MaxLogins, \* bound: refresh tokens ever issued
          NoToken,   \* no refresh token
          Job        \* the request of the restore or the sign-in

ASSUME SessionAssumption ==
    /\ MaxLogins \in Nat \ {0} /\ NoToken \notin 1..MaxLogins /\ Job \notin Pages

VARIABLES live,    \* server: refresh tokens neither revoked nor expired
          issued,  \* how many were issued
          stored,  \* the refresh token in localStorage
          events,  \* tabs with an undelivered event of its removal
          tab

Tokens == 1..MaxLogins
Slots == Pages \cup {Job}

\* refreshing: answered 401 and waiting for the flight; resent: asked again.
Request == [step : {"idle", "sent", "refreshing", "resent"}, good : BOOLEAN]

\* given: the token a restore asked with. leaving: signOutSession has had the
\* answer of its logout call and is about to reset.
Tab == [status : {"booting", "authenticated", "unauthenticated"},
        mem : Tokens \cup {NoToken}, access : {"none", "fresh", "expired"},
        job : {"none", "restore", "grant", "refuse", "boot-me", "boot-rights",
               "login-me", "login-rights"},
        given : Tokens \cup {NoToken}, req : [Slots -> Request],
        flight : {"none", "asked", "granted", "refused"},
        flightToken : Tokens \cup {NoToken}, leaving : BOOLEAN]

TabsWellTyped ==
    /\ live \subseteq Tokens /\ issued \in 0..MaxLogins
    /\ stored \in Tokens \cup {NoToken} /\ events \subseteq Tabs
    /\ tab \in [Tabs -> Tab]

\* The requests of a tab that wait for its refresh.
Waiting(r) == {s \in Slots : r.req[s].step = "refreshing"}

-----------------------------------------------------------------------------
(* Properties *)

\* No tab waits for something that is not under way: requests answered 401 wait
\* exactly as long as a refresh is (inflight, handle401Refresh.ts), the
\* blank page of a tab that boots has its restore (AuthBoundary), and a restore
\* or a sign-in past its first call has one request out.
NothingStranded ==
    \A t \in Tabs :
        /\ tab[t].flight # "none" <=> Waiting(tab[t]) # {}
        /\ tab[t].status = "booting" =>
              tab[t].job \in {"restore", "grant", "refuse", "boot-me", "boot-rights"}
        /\ tab[t].req[Job].step # "idle" <=>
              tab[t].job \in {"boot-me", "boot-rights", "login-me", "login-rights"}

\* A tab holds a refresh token in memory after it has left localStorage only
\* while the event of the removal is still on its way to it: whichever tab
\* signed out or gave up, and whatever the others did meanwhile.
RemovalReaches == stored = NoToken => \A t \in Tabs \ events : tab[t].mem = NoToken
=============================================================================
