------------------------------ MODULE Throttle ------------------------------
(***************************************************************************)
(* What the server refuses because it comes too often: the in-memory       *)
(* sliding windows in front of the public forms, of sign-in and of manual  *)
(* mail, and the notifier that mails the studio about a transmittal.       *)
(*                                                                         *)
(* Each call of a limiter holds its mutex, so it is one action; a sign-in  *)
(* or a nit makes two calls. A behaviour is one life of the process: the   *)
(* maps are lost with it.                                                  *)
(***************************************************************************)
EXTENDS Naturals, Sequences, SequencesExt

CONSTANTS
    FormKeys,  \* keys of regRateLimiter: "login-ip:...", "nit:*", an address, ...
    MailKeys,  \* keys of emailRateLimiter, which never prunes
    Limit,     \* Limit[k]: hits allowed per window
    Span,      \* Span[k]: the window its callers pass for k
    Callers,   \* requests in flight at once
    Asks,      \* the keys one request asks, in order
    Notified,  \* projects whose transmittal is saved by a client
    NotifyGap, \* txNotifyThrottle
    MaxTicks   \* bound on the clock

Keys == FormKeys \cup MailKeys

ASSUME ThrottleAssumption ==
    /\ Limit \in [Keys -> Nat \ {0}] /\ Span \in [Keys -> Nat \ {0}]
    /\ FormKeys \cap MailKeys = {}  \* two limiters, two maps
    /\ Asks \subseteq Seq(Keys)
    /\ NotifyGap \in Nat \ {0} /\ MaxTicks \in Nat

VARIABLES
    tick,     \* the time
    hits,     \* the limiters' maps; an absent key and an empty list are alike
    admitted, \* history: when each key admitted, never pruned
    called,   \* history: when a limiter of a key was last called
    caller,   \* the keys each request in flight has still to ask
    lastSent, \* txNotifier.lastSent; a project not in it has none
    sending,  \* goroutines of the notifier
    reported, \* history: pairs of project and time of the updates mailed
    unanswered \* history: those the provider took without our hearing of it

throttleVars == <<tick, hits, admitted, called, caller, lastSent, sending, reported, unanswered>>

Notice == [project: Notified, at: 0..MaxTicks]

ThrottleTypeOK ==
    /\ tick \in 0..MaxTicks
    /\ \A k \in Keys : hits[k] \in Seq(0..tick) /\ Len(hits[k]) <= Limit[k]
    /\ \A k \in Keys : admitted[k] \in Seq(0..tick)
    /\ called \in [Keys -> 0..tick]
    /\ caller \in [Callers -> Seq(Keys)]
    /\ DOMAIN lastSent \subseteq Notified /\ \A p \in DOMAIN lastSent : lastSent[p] \in 0..tick
    /\ sending \subseteq Notice /\ reported \subseteq Notice /\ unanswered \subseteq Notice

ThrottleInit ==
    /\ tick = 0
    /\ hits = [k \in Keys |-> <<>>] /\ admitted = [k \in Keys |-> <<>>]
    /\ called = [k \in Keys |-> 0]
    /\ caller = [c \in Callers |-> <<>>]
    /\ lastSent = [p \in {} |-> 0] /\ sending = {} /\ reported = {} /\ unanswered = {}

\* A notification ends well within the throttle: its queries have 30 seconds,
\* the call to the provider 30 more.
ThrottleTick ==
    /\ tick < MaxTicks
    /\ \A n \in sending : tick + 1 < n.at + NotifyGap
    /\ tick' = tick + 1
    /\ UNCHANGED <<hits, admitted, called, caller, lastSent, sending, reported, unanswered>>

(***************************************************************************)
(* The limiters.                                                           *)
(***************************************************************************)
Fresh_Shortened(k) ==
    LET after == {i \in DOMAIN hits[k] : hits[k][i] + Span[k] > tick + 1}
    IN SubSeq(hits[k], Min(after \cup {Len(hits[k]) + 1}), Len(hits[k]))

\* Hits of k strictly after now - window: all from the first such hit on, for
\* hits are kept in the order of time.
Fresh(k) ==
    LET after == {i \in DOMAIN hits[k] : hits[k][i] + Span[k] > tick}
    IN SubSeq(hits[k], Min(after \cup {Len(hits[k]) + 1}), Len(hits[k]))

\* The last hit of j lies before now - window, the window being the caller's.
Stale(j, cutoff) == hits[j] = <<>> \/ Last(hits[j]) + cutoff < tick

Admits(k) == Len(Fresh(k)) < Limit[k]

Pruned(k) == IF k \in MailKeys THEN {} ELSE {j \in FormKeys \ {k} : Stale(j, Span[k])}

Allow(k) ==
    /\ hits' = [j \in Keys |-> CASE j = k -> IF Admits(k) THEN Append(Fresh(k), tick) ELSE Fresh(k)
                                 [] j \in Pruned(k) -> <<>>
                                 [] OTHER -> hits[j]]
    /\ admitted' = IF Admits(k) THEN [admitted EXCEPT ![k] = Append(@, tick)] ELSE admitted
    /\ called' = [called EXCEPT ![k] = tick]

Arrive(c, ask) ==
    /\ caller[c] = <<>>
    /\ caller' = [caller EXCEPT ![c] = ask]
    /\ UNCHANGED <<tick, hits, admitted, called, lastSent, sending, reported, unanswered>>

\* The second key is asked only if the first admits; a hit of the first stays.
AskLimiter(c) ==
    /\ caller[c] # <<>>
    /\ LET k == Head(caller[c]) IN
         /\ Allow(k)
         /\ caller' = [caller EXCEPT ![c] = IF Admits(k) THEN Tail(@) ELSE <<>>]
    /\ UNCHANGED <<tick, lastSent, sending, reported, unanswered>>

(***************************************************************************)
(* The notifier: maybeNotify under its mutex, then a goroutine.            *)
(***************************************************************************)
Throttled(p) == p \in DOMAIN lastSent /\ tick < lastSent[p] + NotifyGap

Put(f, p, t) == [q \in DOMAIN f \cup {p} |-> IF q = p THEN t ELSE f[q]]

MaybeNotify(p) ==
    /\ ~ Throttled(p)
    /\ lastSent' = Put(lastSent, p, tick)
    /\ sending' = sending \cup {[project |-> p, at |-> tick]}
    /\ UNCHANGED <<tick, hits, admitted, called, caller, reported, unanswered>>

Cleared(p) == [q \in DOMAIN lastSent \ {p} |-> lastSent[q]]

\* The mail is taken; or the rows cannot be read, and the throttle stays; or the
\* call to the provider fails and the throttle is cleared, though the provider
\* may have taken the mail before the client's time was up.
SendNotice(n) ==
    /\ n \in sending
    /\ sending' = sending \ {n}
    /\ \/ reported' = reported \cup {n} /\ UNCHANGED <<lastSent, unanswered>>
       \/ UNCHANGED <<reported, lastSent, unanswered>>
       \/ /\ lastSent' = Cleared(n.project)
          /\ unanswered' \in {unanswered, unanswered \cup {n}}
          /\ UNCHANGED reported
    /\ UNCHANGED <<tick, hits, admitted, called, caller>>

LimiterNext ==
    \/ ThrottleTick
    \/ \E c \in Callers : (\E ask \in Asks : Arrive(c, ask)) \/ AskLimiter(c)

NotifierNext ==
    \/ ThrottleTick
    \/ \E p \in Notified : MaybeNotify(p)
    \/ \E n \in sending : SendNotice(n)

ThrottleNext == LimiterNext \/ NotifierNext

ThrottleSpec == ThrottleInit /\ [][ThrottleNext]_throttleVars

-----------------------------------------------------------------------------
\* Who may prune k: nobody in the limiter of mails, every caller in the other.
Pruners(k) == IF k \in MailKeys THEN {k} ELSE FormKeys

\* At time t somebody may have forgotten k's hit at time x.
Past(k, x, t) == \E j \in Pruners(k) : t >= x + Span[j]

\* No key is admitted more often than its limit within the shortest window some
\* caller of its limiter asks with, its own for manual mail, whoever else calls
\* and prunes in between. (Its own longer window it may lose; see OwnWindowHolds.)
WindowHolds ==
    \A k \in Keys : \A i \in DOMAIN admitted[k] :
        i + Limit[k] \in DOMAIN admitted[k] => Past(k, admitted[k][i], admitted[k][i + Limit[k]])

\* What regRateLimiter keeps of old callers does not outlive the next call of
\* anybody: a key untouched for longer than a window before the last call with
\* that window is gone from the map.
MapForgets ==
    \A j, k \in FormKeys :
        j # k /\ called[j] + Span[k] < called[k] => hits[j] = <<>>

\* "At most one notification per project per 30 minutes", after one whose answer
\* came: until it is that old no other goes out, also when mails are slow or
\* fail and two clients save at the same moment. (After one that the provider
\* took and never acknowledged another may; see EveryMailApart.)
NotifiedApart ==
    \A m \in reported \cup sending, n \in reported \cup sending \cup unanswered :
        m.project = n.project /\ m.at <= n.at /\ m # n => n.at >= m.at + NotifyGap

\* The limiters hold the shortest of their windows and forget old callers, and
\* a notification whose answer came is the only one of its project for half an
\* hour (registration.go, email.go, transmittal_notify.go).
ThrottleSafe ==
    /\ ThrottleTypeOK
    /\ WindowHolds
    /\ MapForgets
    /\ NotifiedApart

-----------------------------------------------------------------------------
(* What the code says of itself and does not ensure: see README, section 7. *)

\* The limit of a key over its own window: callers with a shorter one prune it
\* (nit:* and its day).
OwnWindowHolds ==
    \A k \in Keys : \A i \in DOMAIN admitted[k] :
        i + Limit[k] \in DOMAIN admitted[k] => admitted[k][i + Limit[k]] >= admitted[k][i] + Span[k]

\* "At most one notification per project per 30 minutes": of every mail that went.
EveryMailApart ==
    /\ NotifiedApart
    /\ \A m \in unanswered, n \in reported \cup sending :
           m.project = n.project /\ m.at <= n.at => n.at >= m.at + NotifyGap
=============================================================================
