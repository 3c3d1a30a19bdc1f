----------------------------- MODULE AuthSession -----------------------------
(***************************************************************************)
(* The signed-in session of the web client across the tabs of one browser, *)
(* whose state is that of SessionTabs: the restore on load                 *)
(* (AuthBoundary.tsx), the single-flight refresh of requests answered 401  *)
(* (handle401Refresh.ts), signing in (finalizeAuthSession.ts) and out      *)
(* (signOutSession.ts), and the refresh tokens the server honours          *)
(* (auth_service.py).                                                      *)
(*                                                                         *)
(* A call is taken by the server in one step and answered in another; any  *)
(* call may fail. Requests are told apart by whether the access token they *)
(* carry is still good.                                                    *)
(***************************************************************************)
EXTENDS SessionTabs

vars == <<live, issued, stored, events, tab>>

Idle == [step |-> "idle", good |-> FALSE]

\* attachAccessToken
Sent(r) == [step |-> "sent", good |-> r.access = "fresh"]

\* The store and the restore of a tab just loaded.
Loaded == [status |-> IF stored = NoToken THEN "unauthenticated" ELSE "booting",
           mem |-> stored, access |-> "none",
           job |-> IF stored = NoToken THEN "none" ELSE "restore",
           given |-> stored, req |-> [s \in Slots |-> Idle],
           flight |-> "none", flightToken |-> NoToken, leaving |-> FALSE]

\* clear of the store.
Cleared(r) == [r EXCEPT !.status = "unauthenticated", !.mem = NoToken, !.access = "none"]

\* The token leaves localStorage: the other tabs are told if there was one.
DropStored(t) ==
    /\ stored' = NoToken
    /\ events' = IF stored = NoToken THEN events ELSE events \cup (Tabs \ {t})

\* resetClientSessionState, with what else the step does to the tab.
ResetTo(t, r) ==
    /\ DropStored(t)
    /\ tab' = [tab EXCEPT ![t] = Cleared(r)]

Become(t, r) == tab' = [tab EXCEPT ![t] = r] /\ UNCHANGED <<stored, events>>

-----------------------------------------------------------------------------
(* What follows a request *)

\* Variant: a session with a status of its own.
SucceedRestricted(r, s) ==
    IF s # Job THEN [r EXCEPT !.req[s] = Idle]
    ELSE [r EXCEPT !.req[s] = Idle, !.job = "none", !.status = "restricted"]

\* applyFullAuthSession sets the status whatever happened meanwhile.
Succeed(r, s) ==
    IF s # Job THEN [r EXCEPT !.req[s] = Idle]
    ELSE IF r.job \in {"boot-rights", "login-rights"}
         THEN [r EXCEPT !.req[s] = Idle, !.job = "none", !.status = "authenticated"]
         ELSE [r EXCEPT !.req[s] = Sent(r),
                        !.job = IF r.job = "boot-me" THEN "boot-rights" ELSE "login-rights"]

\* A failed sign-in leaves the tokens it got; a failed restore drops them.
Fail(r, s) == [r EXCEPT !.req[s] = Idle, !.job = IF s = Job THEN "none" ELSE @]

FailureResets(r, s) == s = Job /\ r.job \in {"boot-me", "boot-rights"}

Failed(t, r, s) ==
    IF FailureResets(r, s) THEN ResetTo(t, Fail(r, s)) ELSE Become(t, Fail(r, s))

\* All callers of the flight take the token and ask again.
Retried(r) ==
    LET fresh == [r EXCEPT !.access = "fresh", !.flight = "none", !.flightToken = NoToken]
    IN  [fresh EXCEPT !.req = [s \in Slots |-> IF s \in Waiting(r)
                                               THEN [step |-> "resent", good |-> TRUE]
                                               ELSE r.req[s]]]

\* Variant: the flight ends and its callers are not told.
GivenUpAlone(r) == [r EXCEPT !.flight = "none", !.flightToken = NoToken]

\* All callers of the flight fail; broadcastExpired resets the tab.
GivenUp(r) ==
    [r EXCEPT !.flight = "none", !.flightToken = NoToken,
              !.req = [s \in Slots |-> IF s \in Waiting(r) THEN Idle ELSE r.req[s]],
              !.job = IF Job \in Waiting(r) THEN "none" ELSE @]

-----------------------------------------------------------------------------
(* Requests *)

Send(t, s) ==
    /\ tab[t].status = "authenticated" /\ tab[t].req[s].step = "idle"
    /\ Become(t, [tab[t] EXCEPT !.req[s] = Sent(tab[t])])
    /\ UNCHANGED <<live, issued>>

Answered(t, s) ==
    /\ tab[t].req[s].step \in {"sent", "resent"} /\ tab[t].req[s].good
    /\ Become(t, Succeed(tab[t], s))
    /\ UNCHANGED <<live, issued>>

\* Failed otherwise than by a 401.
Broken(t, s) ==
    /\ tab[t].req[s].step \in {"sent", "resent"}
    /\ Failed(t, tab[t], s)
    /\ UNCHANGED <<live, issued>>

\* Variant: a request asked again is not marked.
UnauthorizedUnmarked(t, s) ==
    LET r == [tab[t] EXCEPT !.req[s].step = "refreshing"]
    IN  /\ tab[t].req[s].step \in {"sent", "resent"} /\ ~tab[t].req[s].good
        /\ \/ /\ r.flight # "none"
              /\ Become(t, r)
           \/ /\ r.flight = "none" /\ r.mem # NoToken
              /\ Become(t, [r EXCEPT !.flight = "asked", !.flightToken = r.mem])
           \/ /\ r.flight = "none" /\ r.mem = NoToken
              /\ ResetTo(t, GivenUp(r))
        /\ UNCHANGED <<live, issued>>

\* The first 401 of a request joins the flight or starts one with the token in
\* memory; without a token, or on the second 401, the session ends.
Unauthorized(t, s) ==
    LET r == [tab[t] EXCEPT !.req[s].step = "refreshing"]
    IN  /\ tab[t].req[s].step \in {"sent", "resent"} /\ ~tab[t].req[s].good
        /\ \/ /\ tab[t].req[s].step = "resent"
              /\ ResetTo(t, Fail(tab[t], s))
           \/ /\ tab[t].req[s].step = "sent" /\ r.flight # "none"
              /\ Become(t, r)
           \/ /\ tab[t].req[s].step = "sent" /\ r.flight = "none" /\ r.mem # NoToken
              /\ Become(t, [r EXCEPT !.flight = "asked", !.flightToken = r.mem])
           \/ /\ tab[t].req[s].step = "sent" /\ r.flight = "none" /\ r.mem = NoToken
              /\ ResetTo(t, GivenUp(r))
        /\ UNCHANGED <<live, issued>>

RefreshTaken(t) ==
    /\ tab[t].flight = "asked"
    /\ \/ /\ tab[t].flightToken \in live
          /\ Become(t, [tab[t] EXCEPT !.flight = "granted"])
       \/ Become(t, [tab[t] EXCEPT !.flight = "refused"])
    /\ UNCHANGED <<live, issued>>

RefreshAnswered(t) ==
    /\ tab[t].flight \in {"granted", "refused"}
    /\ IF tab[t].flight = "granted"
       THEN Become(t, Retried(tab[t]))
       ELSE ResetTo(t, GivenUp(tab[t]))
    /\ UNCHANGED <<live, issued>>

\* An access token lives for some minutes, a refresh token for some days.
AccessExpires(t) ==
    /\ tab[t].access = "fresh"
    /\ Become(t, [tab[t] EXCEPT !.access = "expired",
                                !.req = [s \in Slots |-> [@[s] EXCEPT !.good = FALSE]]])
    /\ UNCHANGED <<live, issued>>

TokenExpires(n) ==
    /\ n \in live /\ live' = live \ {n}
    /\ UNCHANGED <<issued, stored, events, tab>>

-----------------------------------------------------------------------------
(* Restore, sign-in, sign-out *)

\* Loading the page again: requests and events of the old document are lost.
Reload(t) ==
    /\ tab' = [tab EXCEPT ![t] = Loaded]
    /\ events' = events \ {t}
    /\ UNCHANGED <<live, issued, stored>>

\* The restore's own refresh; its token was read on load.
RestoreTaken(t) ==
    /\ tab[t].job = "restore"
    /\ \/ /\ tab[t].given \in live
          /\ Become(t, [tab[t] EXCEPT !.job = "grant"])
       \/ Become(t, [tab[t] EXCEPT !.job = "refuse"])
    /\ UNCHANGED <<live, issued>>

RestoreAnswered(t) ==
    /\ tab[t].job \in {"grant", "refuse"}
    /\ IF tab[t].job = "grant"
       THEN LET r == [tab[t] EXCEPT !.access = "fresh", !.job = "boot-me"]
            IN  Become(t, [r EXCEPT !.req[Job] = Sent(r)])
       ELSE ResetTo(t, [tab[t] EXCEPT !.job = "none"])
    /\ UNCHANGED <<live, issued>>

LogIn(t) ==
    /\ tab[t].status = "unauthenticated" /\ tab[t].job = "none" /\ issued < MaxLogins
    /\ issued' = issued + 1 /\ live' = live \cup {issued'}
    /\ stored' = issued'
    /\ LET r == [tab[t] EXCEPT !.mem = issued', !.access = "fresh", !.job = "login-me"]
       IN  tab' = [tab EXCEPT ![t] = [r EXCEPT !.req[Job] = Sent(r)]]
    /\ UNCHANGED events

\* The logout call revokes the token in memory, or is lost.
AskLogout(t) ==
    /\ tab[t].status = "authenticated" /\ ~tab[t].leaving
    /\ live' \in {live, live \ {tab[t].mem}}
    /\ Become(t, [tab[t] EXCEPT !.leaving = TRUE])
    /\ UNCHANGED issued

SignOut(t) ==
    /\ tab[t].leaving
    /\ ResetTo(t, [tab[t] EXCEPT !.leaving = FALSE])
    /\ UNCHANGED <<live, issued>>

\* Variant: the other tabs do not listen.
RemovedUnheard(t) ==
    /\ t \in events /\ events' = events \ {t}
    /\ UNCHANGED <<live, issued, stored, tab>>

\* onStorage of AuthBoundary, in a tab that did not remove the token itself.
Removed(t) ==
    /\ t \in events
    /\ stored' = NoToken
    /\ events' = (IF stored = NoToken THEN events ELSE Tabs) \ {t}
    /\ tab' = [tab EXCEPT ![t] = Cleared(tab[t])]
    /\ UNCHANGED <<live, issued>>

-----------------------------------------------------------------------------
Init ==
    /\ live = {} /\ issued = 0 /\ stored = NoToken /\ events = {}
    /\ tab = [t \in Tabs |-> Loaded]

Calls(t) ==
    \/ \E s \in Slots : Answered(t, s) \/ Broken(t, s) \/ Unauthorized(t, s)
    \/ RefreshTaken(t) \/ RefreshAnswered(t) \/ RestoreTaken(t) \/ RestoreAnswered(t)

Next ==
    \/ \E t \in Tabs :
          \/ Calls(t) \/ Removed(t) \/ SignOut(t) \/ AccessExpires(t)
          \/ Reload(t) \/ LogIn(t) \/ AskLogout(t)
          \/ \E p \in Pages : Send(t, p)
    \/ \E n \in Tokens : TokenExpires(n)

\* Calls are answered or fail, not every call of a kind is lost on the way,
\* the browser delivers storage events, access tokens run out and the badges of
\* the menu keep polling (useNavBadges.ts). Nothing makes a user sign in, sign
\* out or reload.
Fairness ==
    \A t \in Tabs :
        /\ \A s \in Slots :
              /\ WF_vars(Answered(t, s) \/ Broken(t, s) \/ Unauthorized(t, s))
              /\ SF_vars(Answered(t, s) \/ Unauthorized(t, s))
        /\ WF_vars(RefreshTaken(t)) /\ WF_vars(RefreshAnswered(t))
        /\ WF_vars(RestoreTaken(t)) /\ WF_vars(RestoreAnswered(t))
        /\ WF_vars(Removed(t)) /\ WF_vars(SignOut(t)) /\ WF_vars(AccessExpires(t))
        /\ \A p \in Pages : WF_vars(Send(t, p))

Spec == Init /\ [][Next]_vars /\ Fairness

-----------------------------------------------------------------------------
(* Properties *)

\* The user loads the page only so many times.
StopsReloading(t) == <>[][~Reload(t)]_vars

\* No request waits for ever for a refresh and none is retried for ever: each
\* ends, and so does the restore of a session on load (AuthBoundary shows
\* nothing before) unless the page is loaded again and again.
RequestsEnd ==
    \A t \in Tabs :
        /\ \A s \in Slots : tab[t].req[s].step # "idle" ~> tab[t].req[s].step = "idle"
        /\ StopsReloading(t) => []<>(tab[t].status # "booting")

\* When the refresh token has left localStorage, by a sign-out or a refused
\* refresh in one tab, every tab comes to be signed out, whatever it was doing,
\* unless someone signs in again.
SignedOutEverywhere ==
    stored = NoToken ~> (stored # NoToken \/ \A t \in Tabs : tab[t].status = "unauthenticated")
=============================================================================
