------------------------------- MODULE OtpCodes -------------------------------
(***************************************************************************)
(* The one-time codes of one phone number or e-mail address                *)
(* (otp.service.ts): every code is a row of otp_codes, issued and verified *)
(* by calls that read and write it in several statements, with no lock.    *)
(***************************************************************************)
EXTENDS Naturals, Sequences, FiniteSets

CONSTANTS
    Calls,          \* requests and verifications that can run at once
    Ttl,            \* otp.ttlSeconds
    Cooldown,       \* otp.resendCooldownSeconds
    Window,         \* otp.rateLimitWindowSeconds
    Limit,          \* otp.rateLimitPerPhone
    MaxAttempts,    \* otp.maxAttempts
    MaxTime,        \* bound on the clock
    MaxCodes        \* bound on codes

ASSUME OtpAssumption ==
    /\ Ttl \in Nat /\ Cooldown \in Nat /\ Window \in Nat \ {0}
    /\ Limit \in Nat \ {0} /\ MaxAttempts \in Nat \ {0}
    /\ MaxTime \in Nat /\ MaxCodes \in Nat

\* Only so many calls run at once.
ASSUME CallsAssumption == IsFiniteSet(Calls)

VARIABLES
    now,
    codes,      \* otp_codes, oldest first
    call,       \* call[c]: a call between two of its statements
    accepted    \* accepted[i]: for each sign-in with code i, the number of
                \* codes there were when its verification read the newest

vars == <<now, codes, call, accepted>>

Idle == [step |-> "idle", at |-> 0, id |-> 0, guess |-> 0, seen |-> 0, before |-> 0]

Unused == {i \in DOMAIN codes : ~codes[i].consumed}
IsNewest(i) == i \in Unused /\ \A j \in Unused : j <= i

To(c, step) == call' = [call EXCEPT ![c].step = step]
Refuse(c) == call' = [call EXCEPT ![c] = Idle]

Init ==
    /\ now = 0
    /\ codes = <<>>
    /\ call = [c \in Calls |-> Idle]
    /\ accepted = <<>>
-----------------------------------------------------------------------------
(* issue                                                                   *)

\* The call takes its time once, and looks at the newest unused code's lock.
BeginIssue(c) ==
    /\ call[c] = Idle
    /\ Len(codes) < MaxCodes
    /\ \A i \in Unused : IsNewest(i) => codes[i].lockUntil <= now
    /\ call' = [call EXCEPT ![c] = [Idle EXCEPT !.step = "window", !.at = now]]
    /\ UNCHANGED <<now, codes, accepted>>

\* Mutant of InWindow: codes that were never delivered do not count.
InWindowDelivered(at) == {i \in DOMAIN codes : codes[i].created + Window > at /\ codes[i].expires > 0}

InWindow(at) == {i \in DOMAIN codes : codes[i].created + Window > at}

CheckWindow(c) ==
    /\ call[c].step = "window"
    /\ IF Cardinality(InWindow(call[c].at)) >= Limit THEN Refuse(c) ELSE To(c, "invalidate")
    /\ UNCHANGED <<now, codes, accepted>>

\* Mutant of Invalidate: only the newest code is invalidated.
InvalidateNewest(c) ==
    /\ call[c].step = "invalidate"
    /\ codes' = [i \in DOMAIN codes |->
           IF IsNewest(i) /\ codes[i].expires > call[c].at
           THEN [codes[i] EXCEPT !.expires = call[c].at] ELSE codes[i]]
    /\ call' = [call EXCEPT ![c].step = "insert", ![c].before = Len(codes)]
    /\ UNCHANGED <<now, accepted>>

\* One UPDATE of every unused, unexpired code.
Invalidate(c) ==
    /\ call[c].step = "invalidate"
    /\ codes' = [i \in DOMAIN codes |->
           IF i \in Unused /\ codes[i].expires > call[c].at
           THEN [codes[i] EXCEPT !.expires = call[c].at] ELSE codes[i]]
    /\ call' = [call EXCEPT ![c].step = "insert", ![c].before = Len(codes)]
    /\ UNCHANGED <<now, accepted>>

InsertCode(c) ==
    /\ call[c].step = "insert"
    /\ Len(codes) < MaxCodes
    /\ codes' = Append(codes, [created |-> now, expires |-> call[c].at + Ttl,
                               lockUntil |-> call[c].at + Cooldown,
                               attempts |-> 0, consumed |-> FALSE,
                               replaces |-> call[c].before])
    /\ accepted' = Append(accepted, <<>>)
    /\ call' = [call EXCEPT ![c].step = "deliver", ![c].id = Len(codes) + 1]
    /\ UNCHANGED now

Deliver(c) ==
    /\ call[c].step = "deliver"
    /\ Refuse(c)
    /\ UNCHANGED <<now, codes, accepted>>

\* The code is useless and locks nothing; its row still counts.
DeliveryFails(c) ==
    /\ call[c].step = "deliver"
    /\ codes' = [codes EXCEPT ![call[c].id].expires = 0, ![call[c].id].lockUntil = 0]
    /\ Refuse(c)
    /\ UNCHANGED <<now, accepted>>
-----------------------------------------------------------------------------
(* consumeCode                                                             *)

\* The newest unused code, unexpired; the guess is another code's or wrong (0).
ReadNewest(c, guess) ==
    /\ call[c] = Idle
    /\ \E i \in Unused :
           /\ IsNewest(i)
           /\ codes[i].expires > now
           /\ call' = [call EXCEPT ![c] = [Idle EXCEPT !.step = "attempt", !.id = i,
                          !.guess = guess, !.seen = Len(codes)]]
    /\ UNCHANGED <<now, codes, accepted>>

\* Mutant of Attempt: the attempts are counted, but not up to a limit.
AttemptUnlimited(c) ==
    LET i == call[c].id IN
    /\ call[c].step = "attempt"
    /\ IF codes[i].consumed
       THEN Refuse(c) /\ UNCHANGED codes
       ELSE /\ codes' = [codes EXCEPT ![i].attempts = @ + 1]
            /\ IF call[c].guess = i THEN To(c, "consume") ELSE Refuse(c)
    /\ UNCHANGED <<now, accepted>>

\* reserveAttempt, one UPDATE, then the comparison.
Attempt(c) ==
    LET i == call[c].id IN
    /\ call[c].step = "attempt"
    /\ IF codes[i].consumed \/ codes[i].attempts >= MaxAttempts
       THEN Refuse(c) /\ UNCHANGED codes
       ELSE /\ codes' = [codes EXCEPT ![i].attempts = @ + 1]
            /\ IF call[c].guess = i THEN To(c, "consume") ELSE Refuse(c)
    /\ UNCHANGED <<now, accepted>>

\* Only one verification may consume the code; its expiry is not looked at again.
Consume(c) ==
    LET i == call[c].id IN
    /\ call[c].step = "consume"
    /\ Refuse(c)
    /\ IF codes[i].consumed
       THEN UNCHANGED <<codes, accepted>>
       ELSE /\ codes' = [codes EXCEPT ![i].consumed = TRUE]
            /\ accepted' = [accepted EXCEPT ![i] = Append(@, call[c].seen)]
    /\ UNCHANGED now
-----------------------------------------------------------------------------
Tick ==
    /\ now < MaxTime
    /\ now' = now + 1
    /\ UNCHANGED <<codes, call, accepted>>

Next ==
    \/ Tick
    \/ \E c \in Calls :
        \/ BeginIssue(c) \/ CheckWindow(c) \/ Invalidate(c) \/ InsertCode(c)
        \/ Deliver(c) \/ DeliveryFails(c)
        \/ \E guess \in 0..Len(codes) : ReadNewest(c, guess)
        \/ Attempt(c) \/ Consume(c)

Spec == Init /\ [][Next]_vars
-----------------------------------------------------------------------------
\* A code is worth at most one sign-in and MaxAttempts guesses, however many
\* verifications run at once (reserveAttempt, the consuming UPDATE).
CodeIsSpentOnce ==
    \A i \in DOMAIN codes : codes[i].attempts <= MaxAttempts /\ Len(accepted[i]) <= 1

\* "A new code invalidates every earlier unused one": a verification that began
\* after the new code was there never accepts one that its issue had found.
\* (Codes two requests write at once do not find each other.)
ReplacedCodeRefused ==
    \A i \in DOMAIN codes : \A n \in DOMAIN accepted[i] : \A j \in 1..accepted[i][n] :
        i > codes[j].replaces

\* "5 codes per hour per phone/email": requests at once may each miss the code
\* the other is about to write, but no window holds more than one code for
\* every other request beyond the limit.
WindowBounded ==
    \A t \in 0..now :
        Cardinality({i \in DOMAIN codes : codes[i].created <= t /\ codes[i].created + Window > t})
            < Limit + Cardinality(Calls)

\* "5 codes per hour per phone/email", of requests at once too.
WindowWithinLimit ==
    \A t \in 0..now :
        Cardinality({i \in DOMAIN codes : codes[i].created <= t /\ codes[i].created + Window > t}) <= Limit
================================================================================
