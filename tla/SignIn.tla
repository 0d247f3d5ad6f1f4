------------------------------- MODULE SignIn -------------------------------
(***************************************************************************)
(* Sign-in to one client's portal: emailed one-shot links, the password    *)
(* reset by the studio, and the API token of one of its projects.          *)
(*                                                                         *)
(* Every action is one SQL statement with the Go code up to the next one.  *)
(* A password, like a token, is known by the request that set it.          *)
(***************************************************************************)
EXTENDS Naturals, FiniteSets

CONSTANTS
    Links,      \* POST /api/public/login-link requests, and the row each inserts
    Openings,   \* GET /auth/link requests
    Resets,     \* POST /api/admin/clients/{slug}/reset-password requests
    Rolls,      \* requests that mint a project token
    LinkTTL,    \* loginLinkTTL, in ticks of the clock
    RateWindow, \* loginLinkRateWin
    RateMax,    \* loginLinkRateMax
    MaxClock    \* bound on the clock

ASSUME SignInAssumption ==
    /\ LinkTTL \in Nat /\ RateWindow \in Nat /\ RateMax \in Nat /\ MaxClock \in Nat

VARIABLES
    clock,      \* the time, in ticks
    linkReq,    \* where each link request is: idle, counted, mailed, refused
    linkRow,    \* login_links: state none, live (used_at NULL) or used
    opening,    \* where each redemption is, the link it holds, the resets it follows
    redeemed,   \* history: pairs <<opening, link>> that ended in a session
    resetting,  \* where each reset is: idle, updated, done, or unburned: it
                \* answered though its second statement had failed
    tokens,     \* auth_tokens of the project: the rolls whose token is stored
    rolling     \* where each roll is: idle, deleted, done, failed

signInVars == <<clock, linkReq, linkRow, opening, redeemed, resetting, tokens, rolling>>

\* The resets that have burned the links before them, and all that answered.
ResetsDone == {r \in Resets : resetting[r] = "done"}
ResetsAnswered == {r \in Resets : resetting[r] \in {"done", "unburned"}}
PasswordsSet == {r \in Resets : resetting[r] # "idle"}

SignInTypeOK ==
    /\ clock \in 0..MaxClock
    /\ linkReq \in [Links -> {"idle", "counted", "mailed", "refused"}]
    /\ linkRow \in [Links -> [state: {"none", "live", "used"}, at: 0..MaxClock,
                              known: SUBSET Resets]]
    /\ opening \in [Openings -> [pc: {"idle", "read", "burned", "done"}, link: Links \cup {"none"},
                                 after: SUBSET Resets]]
    /\ redeemed \subseteq Openings \X Links
    /\ resetting \in [Resets -> {"idle", "updated", "done", "unburned"}]
    /\ tokens \subseteq Rolls
    /\ rolling \in [Rolls -> {"idle", "deleted", "done", "failed"}]

SignInInit ==
    /\ clock = 0
    /\ linkReq = [l \in Links |-> "idle"]
    /\ linkRow = [l \in Links |-> [state |-> "none", at |-> 0, known |-> {}]]
    /\ opening = [o \in Openings |-> [pc |-> "idle", link |-> "none", after |-> {}]]
    /\ redeemed = {}
    /\ resetting = [r \in Resets |-> "idle"]
    /\ tokens = {}
    /\ rolling = [m \in Rolls |-> "idle"]

ClockTick ==
    /\ clock < MaxClock
    /\ clock' = clock + 1
    /\ UNCHANGED <<linkReq, linkRow, opening, redeemed, resetting, tokens, rolling>>

(***************************************************************************)
(* Asking for a link. The client and the address are recognised; the count *)
(* and the insert are two statements.                                      *)
(***************************************************************************)
LiveInWindow == {l \in Links : linkRow[l].state = "live" /\ linkRow[l].at + RateWindow > clock}

CountLinks(l) ==
    /\ linkReq[l] = "idle"
    /\ linkReq' = [linkReq EXCEPT ![l] = IF Cardinality(LiveInWindow) >= RateMax
                                         THEN "refused" ELSE "counted"]
    /\ UNCHANGED <<clock, linkRow, opening, redeemed, resetting, tokens, rolling>>

\* known: the resets whose password was in force when the link was made.
InsertLink(l) ==
    /\ linkReq[l] = "counted"
    /\ linkReq' = [linkReq EXCEPT ![l] = "mailed"]
    /\ linkRow' = [linkRow EXCEPT ![l] = [state |-> "live", at |-> clock, known |-> PasswordsSet]]
    /\ UNCHANGED <<clock, opening, redeemed, resetting, tokens, rolling>>

(***************************************************************************)
(* Opening a link: look it up, burn it, read the password hash the cookie  *)
(* is bound to.                                                            *)
(***************************************************************************)
Usable(l) == linkRow[l].state = "live" /\ clock <= linkRow[l].at + LinkTTL

ReadLink(o, l) ==
    /\ opening[o].pc = "idle"
    /\ linkReq[l] = "mailed"
    /\ opening' = [opening EXCEPT ![o] = [pc |-> IF Usable(l) THEN "read" ELSE "done",
                                          link |-> l, after |-> ResetsAnswered]]
    /\ UNCHANGED <<clock, linkReq, linkRow, redeemed, resetting, tokens, rolling>>

BurnLink_Unconditional(o) ==
    /\ opening[o].pc = "read"
    /\ opening' = [opening EXCEPT ![o].pc = "burned"]
    /\ linkRow' = [linkRow EXCEPT ![opening[o].link].state = "used"]
    /\ UNCHANGED <<clock, linkReq, redeemed, resetting, tokens, rolling>>

\* UPDATE ... WHERE id = ? AND used_at IS NULL: zero rows send the caller away.
BurnLink(o) ==
    /\ opening[o].pc = "read"
    /\ LET l == opening[o].link IN
         IF linkRow[l].state = "live"
         THEN /\ linkRow' = [linkRow EXCEPT ![l].state = "used"]
              /\ opening' = [opening EXCEPT ![o].pc = "burned"]
         ELSE /\ opening' = [opening EXCEPT ![o].pc = "done"]
              /\ UNCHANGED linkRow
    /\ UNCHANGED <<clock, linkReq, redeemed, resetting, tokens, rolling>>

SetCookie(o) ==
    /\ opening[o].pc = "burned"
    /\ opening' = [opening EXCEPT ![o].pc = "done"]
    /\ redeemed' = redeemed \cup {<<o, opening[o].link>>}
    /\ UNCHANGED <<clock, linkReq, linkRow, resetting, tokens, rolling>>

\* The client goes away: the next statement fails under r.Context().
AbandonOpening(o) ==
    /\ opening[o].pc \in {"read", "burned"}
    /\ opening' = [opening EXCEPT ![o].pc = "done"]
    /\ UNCHANGED <<clock, linkReq, linkRow, redeemed, resetting, tokens, rolling>>

(***************************************************************************)
(* handleAdminResetClientPassword: the new hash, then every unused link.   *)
(***************************************************************************)
UpdatePassword(r) ==
    /\ resetting[r] = "idle"
    /\ resetting' = [resetting EXCEPT ![r] = "updated"]
    /\ UNCHANGED <<clock, linkReq, linkRow, opening, redeemed, tokens, rolling>>

BurnOutstanding(r) ==
    /\ resetting[r] = "updated"
    /\ resetting' = [resetting EXCEPT ![r] = "done"]
    /\ linkRow' = [l \in Links |-> IF linkRow[l].state = "live"
                                   THEN [linkRow[l] EXCEPT !.state = "used"] ELSE linkRow[l]]
    /\ UNCHANGED <<clock, linkReq, opening, redeemed, tokens, rolling>>

\* The second UPDATE fails, or the studio's request is cancelled before it: the
\* error is logged and the reset answers all the same.
BurnFails(r) ==
    /\ resetting[r] = "updated"
    /\ resetting' = [resetting EXCEPT ![r] = "unburned"]
    /\ UNCHANGED <<clock, linkReq, linkRow, opening, redeemed, tokens, rolling>>

(***************************************************************************)
(* mintProjectToken: DELETE all, then INSERT one; handleClearAuth is the   *)
(* DELETE alone.                                                           *)
(***************************************************************************)
DeleteTokens(m) ==
    /\ rolling[m] = "idle"
    /\ rolling' = [rolling EXCEPT ![m] = "deleted"]
    /\ tokens' = {}
    /\ UNCHANGED <<clock, linkReq, linkRow, opening, redeemed, resetting>>

CreateToken(m) ==
    /\ rolling[m] = "deleted"
    /\ rolling' = [rolling EXCEPT ![m] = "done"]
    /\ tokens' = tokens \cup {m}
    /\ UNCHANGED <<clock, linkReq, linkRow, opening, redeemed, resetting>>

\* The INSERT fails, or the admin's request is cancelled before it.
CreateTokenFails(m) ==
    /\ rolling[m] = "deleted"
    /\ rolling' = [rolling EXCEPT ![m] = "failed"]
    /\ UNCHANGED <<clock, linkReq, linkRow, opening, redeemed, resetting, tokens>>

TokenNext == \E m \in Rolls : DeleteTokens(m) \/ CreateToken(m) \/ CreateTokenFails(m)

LinkNext ==
    \/ ClockTick
    \/ \E l \in Links : CountLinks(l) \/ InsertLink(l)
    \/ \E o \in Openings : \/ \E l \in Links : ReadLink(o, l)
                           \/ BurnLink(o) \/ SetCookie(o) \/ AbandonOpening(o)
    \/ \E r \in Resets : UpdatePassword(r) \/ BurnOutstanding(r) \/ BurnFails(r)

SignInNext == LinkNext \/ TokenNext

SignInSpec == SignInInit /\ [][SignInNext]_signInVars

-----------------------------------------------------------------------------
\* A sign-in link makes one session, however many requests open it at once:
\* the conditional UPDATE of handleAuthLink decides.
LinkOnce == \A x, y \in redeemed : x[2] = y[2] => x[1] = y[1]

\* A reset whose second statement went through ends the links made before it:
\* whoever opens such a link once the reset has answered gets no session, also
\* when earlier resets failed there. (A redemption that has read the row before
\* is outside this promise, and so is a reset that could not burn; see
\* EveryResetEndsLinks.)
ResetEndsLinks ==
    \A x \in redeemed : opening[x[1]].after \cap ResetsDone \subseteq linkRow[x[2]].known

\* A project that has once had a token is left without one only by a roll
\* that is between its two statements or that failed there: nobody else's
\* roll takes the gate away for good.
GateHeld ==
    tokens = {} => \/ \A m \in Rolls : rolling[m] = "idle"
                   \/ \E m \in Rolls : rolling[m] \in {"deleted", "failed"}

\* What the sign-in desk answers for: a link makes one session, a reset that
\* burns the links made before it has ended them, and the API token of a project
\* is lost only where a roll fails half-way (handleAuthLink,
\* handleAdminResetClientPassword, mintProjectToken).
SignInSafe ==
    /\ SignInTypeOK
    /\ LinkOnce
    /\ ResetEndsLinks
    /\ GateHeld

-----------------------------------------------------------------------------
\* What the code says of itself and does not ensure (see the README, section 7):
\* "burn any unredeemed sign-in links too, or a link obtained before the reset
\* would mint a fresh cookie for the new password", of every reset that answers.
EveryResetEndsLinks ==
    \A x \in redeemed : opening[x[1]].after \subseteq linkRow[x[2]].known
=============================================================================
