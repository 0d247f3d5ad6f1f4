------------------------------ MODULE MCPortal ------------------------------
(***************************************************************************)
(* The desks a customer meets: sign-in links and tokens, addresses, the    *)
(* workshop, the limiters, the notifier, the review of the index, the      *)
(* shelf of artifacts and the letters. They share no row, so a behaviour   *)
(* picks one desk and the others stay as they are.                         *)
(***************************************************************************)
EXTENDS SignIn, Slugs, Workshop, Throttle, IndexDraft, BookOutputs, Mail, TLC

CONSTANT PortalDesks
VARIABLE desk

portalVars == <<signInVars, slugVars, workshopVars, throttleVars, indexVars, outputVars, mailVars, desk>>

Init ==
    /\ desk \in PortalDesks
    /\ SignInInit /\ SlugsInit /\ WorkshopInit /\ ThrottleInit /\ IndexInit /\ OutputsInit
    /\ MailInit

SignInDesk ==
    /\ \/ desk = "links" /\ LinkNext
       \/ desk = "tokens" /\ TokenNext
    /\ UNCHANGED <<slugVars, workshopVars, throttleVars, indexVars, outputVars, mailVars>>

SlugsDesk ==
    /\ desk = "slugs" /\ SlugsNext
    /\ UNCHANGED <<signInVars, workshopVars, throttleVars, indexVars, outputVars, mailVars>>

WorkshopDesk ==
    /\ desk = "workshop" /\ WorkshopNext
    /\ UNCHANGED <<signInVars, slugVars, throttleVars, indexVars, outputVars, mailVars>>

ThrottleDesk ==
    /\ \/ desk = "limiter" /\ LimiterNext
       \/ desk = "notifier" /\ NotifierNext
    /\ UNCHANGED <<signInVars, slugVars, workshopVars, indexVars, outputVars, mailVars>>

IndexDesk ==
    /\ desk = "index" /\ IndexNext
    /\ UNCHANGED <<signInVars, slugVars, workshopVars, throttleVars, outputVars, mailVars>>

Shelf ==
    /\ desk = "shelf" /\ OutputsNext
    /\ UNCHANGED <<signInVars, slugVars, workshopVars, throttleVars, indexVars, mailVars>>

LettersDesk ==
    /\ desk = "letters" /\ MailNext
    /\ UNCHANGED <<signInVars, slugVars, workshopVars, throttleVars, indexVars, outputVars>>

Next ==
    /\ UNCHANGED desk
    /\ SignInDesk \/ SlugsDesk \/ WorkshopDesk \/ ThrottleDesk \/ IndexDesk \/ Shelf
       \/ LettersDesk

Spec == Init /\ [][Next]_portalVars

MCAsked == {<<2, 2>>}
MCBodies == {{[field |-> "factory_url", inside |-> "bare"]},
             {[field |-> "code", inside |-> "bare"], [field |-> "factory_url", inside |-> "redeemed"]}}
MCLimit == [k \in Keys |-> IF k = "ip" THEN 2 ELSE 1]
MCSpan == [k \in Keys |-> IF k = "day" THEN 3 ELSE 1]
MCAsks == {<<"ip", "target">>, <<"ip", "day">>, <<"mail">>}
MCTasks == {[status |-> "done", due |-> 1, milestone |-> FALSE, curr |-> 2, actual |-> 1],
            [status |-> "in_progress", due |-> 1, milestone |-> TRUE, curr |-> 1, actual |-> 2],
            [status |-> "pending", due |-> 0, milestone |-> FALSE, curr |-> 0, actual |-> 1]}
MCLog == {[day |-> 0, out |-> FALSE], [day |-> 2, out |-> TRUE]}
MCSent == {{"title", "parts", "words", "complexity"},
           {"title", "words", "est_pages", "complexity", "publisher"},
           {"title", "pairing", "other", "chapters", "author"}}
MCSenders == {<<<<"buyer", 1>>>>, <<<<"buyer", 1>>, <<"audit", 2>>>>}
MCAudit == <<"audit", 1>>

\* The ids no operator orders are the same two values: links, openings, resets,
\* books, renames, redemptions, callers, projects notified, drafts.
MCSymmetry == Permutations(Redeems)
=============================================================================
