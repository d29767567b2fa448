---------------------------- MODULE OtpCodesProofs ----------------------------
(***************************************************************************)
(* Proofs about OtpCodes, for any number of calls at once, any lifetimes,  *)
(* limits and attempts.                                                    *)
(***************************************************************************)
EXTENDS OtpCodes, SequenceTheorems, FiniteSetTheorems, TLAPS

Codes == [created : Nat, expires : Nat, lockUntil : Nat, attempts : Nat,
          consumed : BOOLEAN, replaces : Nat]

CallRows == [step : {"idle", "window", "invalidate", "insert", "deliver", "attempt", "consume"},
             at : Nat, id : Nat, guess : Nat, seen : Nat, before : Nat]

\* Rows and calls have their types, each code its sign-ins, and a call that
\* writes a code has one.
TypeOK ==
    /\ now \in Nat
    /\ codes \in Seq(Codes)
    /\ accepted \in Seq(Seq(Nat))
    /\ Len(accepted) = Len(codes)
    /\ call \in [Calls -> CallRows]
    /\ \A c \in Calls :
           /\ call[c].at <= now
           /\ call[c].step \in {"deliver", "attempt", "consume"} => call[c].id \in DOMAIN codes

\* The consuming UPDATE counts the sign-ins.
SpentInv ==
    \A i \in DOMAIN codes :
        /\ codes[i].attempts <= MaxAttempts
        /\ Len(accepted[i]) = IF codes[i].consumed THEN 1 ELSE 0

\* A code of no further use to a verification that begins now.
Useless(i) == codes[i].consumed \/ codes[i].expires <= now

\* What an issue replaces is useless, from its UPDATE on.
ReplacedInv ==
    /\ \A j \in DOMAIN codes : \A i \in DOMAIN codes : i <= codes[j].replaces => Useless(i)
    /\ \A c \in Calls : call[c].step = "insert" =>
           \A i \in DOMAIN codes : i <= call[c].before => Useless(i)

\* What an issue found, and what a code replaces, was in the table.
BeforeInv ==
    /\ \A j \in DOMAIN codes : codes[j].replaces <= Len(codes)
    /\ \A c \in Calls : call[c].step = "insert" => call[c].before <= Len(codes)

\* A verification under way has a code that no code it has seen replaces.
GuessInv ==
    \A c \in Calls : call[c].step \in {"attempt", "consume"} =>
        /\ call[c].seen <= Len(codes)
        /\ \A j \in 1..call[c].seen : codes[j].replaces < call[c].id

SeenInv == \A i \in DOMAIN codes : \A n \in DOMAIN accepted[i] : accepted[i][n] <= Len(codes)

IInv == TypeOK /\ SpentInv /\ ReplacedInv /\ BeforeInv /\ GuessInv /\ SeenInv /\ ReplacedCodeRefused
-----------------------------------------------------------------------------
\* An attempt counted on a row changes nothing else of it.
LEMMA CountedCode ==
    ASSUME NEW r \in Codes
    PROVE  LET code == [r EXCEPT !.attempts = @ + 1] IN
           /\ code \in Codes /\ code.replaces = r.replaces /\ code.expires = r.expires
           /\ code.attempts = r.attempts + 1 /\ code.consumed = r.consumed
<1>1. r.attempts \in Nat /\ r.attempts + 1 \in Nat
  BY DEF Codes
<1> QED
  BY <1>1 DEF Codes

\* DOMAINs and elements of the two sequences.
LEMMA Rows ==
    ASSUME TypeOK
    PROVE  /\ Len(codes) \in Nat
           /\ DOMAIN codes = 1..Len(codes) /\ DOMAIN accepted = DOMAIN codes
           /\ \A i \in DOMAIN codes : codes[i] \in Codes /\ accepted[i] \in Seq(Nat)
BY LenProperties, ElementOfSeq DEF TypeOK

\* At the start there is no code and no call.
LEMMA InitIInv == Init => IInv
<1> SUFFICES ASSUME Init PROVE IInv
    OBVIOUS
<1>1. codes = <<>> /\ accepted = <<>> /\ DOMAIN codes = {} /\ DOMAIN accepted = {}
      /\ Len(codes) = 0 /\ Len(accepted) = 0
  BY DEF Init
<1>2. call = [c \in Calls |-> Idle] /\ now = 0
  BY DEF Init
<1>3. codes \in Seq(Codes) /\ accepted \in Seq(Seq(Nat))
  BY <1>1, EmptySeq
<1> QED
  BY <1>1, <1>2, <1>3
  DEF IInv, TypeOK, SpentInv, ReplacedInv, BeforeInv, GuessInv, SeenInv, ReplacedCodeRefused,
      CallRows, Idle

\* Writing an element as it is changes nothing.
LEMMA SeqSame ==
    ASSUME NEW S, NEW q \in Seq(S), NEW i PROVE q = [q EXCEPT ![i] = q[i]]
<1>1. q \in [1..Len(q) -> S]
  BY LenProperties
<1> QED
  BY <1>1

\* A step of one call that writes neither a code nor a sign-in.
LEMMA CallStep ==
    ASSUME IInv, NEW c \in Calls, NEW row \in CallRows,
           call' = [call EXCEPT ![c] = row],
           UNCHANGED <<now, codes, accepted>>,
           row.at <= now,
           row.step \in {"deliver", "attempt", "consume"} => row.id \in DOMAIN codes,
           row.step # "insert",
           row.step \in {"attempt", "consume"} =>
               /\ row.seen <= Len(codes)
               /\ \A j \in 1..row.seen : codes[j].replaces < row.id
    PROVE  IInv'
<1> USE DEF IInv
<1>1. TypeOK'
  BY DEF TypeOK
<1>2. call'[c] = row /\ \A d \in Calls \ {c} : call'[d] = call[d]
  BY DEF TypeOK
<1>3. ReplacedInv' /\ BeforeInv' /\ GuessInv'
  BY <1>2 DEF ReplacedInv, BeforeInv, GuessInv, Useless
<1>4. SpentInv' /\ SeenInv' /\ ReplacedCodeRefused'
  BY DEF SpentInv, SeenInv, ReplacedCodeRefused
<1> QED
  BY <1>1, <1>3, <1>4

\* A step that writes one code, its attempts, its consumption, or makes it
\* useless, and adds a sign-in with it at most when it is consumed.
LEMMA CodeStep ==
    ASSUME IInv, NEW c \in Calls, NEW row \in CallRows, NEW i \in DOMAIN codes,
           NEW code \in Codes, NEW s \in Seq(Nat),
           call' = [call EXCEPT ![c] = row], now' = now,
           codes' = [codes EXCEPT ![i] = code],
           accepted' = [accepted EXCEPT ![i] = s],
           row.at <= now,
           row.step \in {"idle", "consume"},
           row.step = "consume" =>
               /\ row.id \in DOMAIN codes
               /\ row.seen <= Len(codes)
               /\ \A j \in 1..row.seen : codes[j].replaces < row.id,
           code.replaces = codes[i].replaces,
           code.attempts <= MaxAttempts,
           Len(s) = IF code.consumed THEN 1 ELSE 0,
           codes[i].consumed => code.consumed,
           code.expires <= codes[i].expires,
           \A n \in DOMAIN s : /\ s[n] <= Len(codes)
                               /\ \A j \in 1..s[n] : i > codes[j].replaces
    PROVE  IInv'
<1> USE DEF IInv
<1>0. /\ Len(codes) \in Nat
      /\ DOMAIN codes = 1..Len(codes) /\ DOMAIN accepted = DOMAIN codes
      /\ \A j \in DOMAIN codes : codes[j] \in Codes /\ accepted[j] \in Seq(Nat)
  BY Rows
<1>1. /\ codes' \in Seq(Codes) /\ Len(codes') = Len(codes) /\ DOMAIN codes' = DOMAIN codes
      /\ codes'[i] = code /\ \A j \in DOMAIN codes \ {i} : codes'[j] = codes[j]
  BY <1>0, ExceptSeq, LenProperties DEF TypeOK
<1>2. /\ accepted' \in Seq(Seq(Nat)) /\ Len(accepted') = Len(codes)
      /\ accepted'[i] = s /\ \A j \in DOMAIN codes \ {i} : accepted'[j] = accepted[j]
  BY <1>0, ExceptSeq, LenProperties DEF TypeOK
<1>3. call'[c] = row /\ \A d \in Calls \ {c} : call'[d] = call[d]
  BY DEF TypeOK
<1>4. TypeOK'
  BY <1>1, <1>2, <1>3 DEF TypeOK
<1>5. SpentInv'
  <2> SUFFICES ASSUME NEW j \in DOMAIN codes
               PROVE  /\ codes'[j].attempts <= MaxAttempts
                      /\ Len(accepted'[j]) = IF codes'[j].consumed THEN 1 ELSE 0
    BY <1>1 DEF SpentInv
  <2>1. CASE j = i
    BY <1>1, <1>2, <2>1
  <2>2. CASE j # i
    BY <1>1, <1>2, <2>2 DEF SpentInv
  <2> QED
    BY <2>1, <2>2
<1>6. \A j \in DOMAIN codes : /\ codes'[j].replaces = codes[j].replaces
                              /\ Useless(j) => Useless(j)'
  <2> SUFFICES ASSUME NEW j \in DOMAIN codes
               PROVE  /\ codes'[j].replaces = codes[j].replaces
                      /\ Useless(j) => codes'[j].consumed \/ codes'[j].expires <= now'
    BY DEF Useless
  <2>1. CASE j = i
    BY <1>0, <1>1, <2>1, SMTT(30) DEF Useless, Codes, TypeOK
  <2>2. CASE j # i
    BY <1>1, <2>2 DEF Useless
  <2> QED
    BY <2>1, <2>2
<1>7. ReplacedInv'
  BY <1>1, <1>3, <1>6 DEF ReplacedInv
<1>11. BeforeInv'
  BY <1>1, <1>3, <1>6 DEF BeforeInv
<1>8. GuessInv'
  <2> SUFFICES ASSUME NEW d \in Calls, call'[d].step \in {"attempt", "consume"}
               PROVE  /\ call'[d].seen <= Len(codes)
                      /\ \A j \in 1..call'[d].seen : codes'[j].replaces < call'[d].id
    BY <1>1 DEF GuessInv
  <2>1. /\ call'[d].seen <= Len(codes)
        /\ \A j \in 1..call'[d].seen : codes[j].replaces < call'[d].id
    BY <1>3 DEF GuessInv
  <2>2. call'[d].seen \in Nat
    BY <1>4 DEF TypeOK, CallRows
  <2>3. \A j \in 1..call'[d].seen : j \in DOMAIN codes
    BY <1>0, <2>1, <2>2
  <2> QED
    BY <1>6, <2>1, <2>3
<1>9. SeenInv'
  BY <1>1, <1>2 DEF SeenInv
<1>10. ReplacedCodeRefused'
  <2> SUFFICES ASSUME NEW k \in DOMAIN codes, NEW n \in DOMAIN accepted'[k],
                      NEW j \in 1..accepted'[k][n]
               PROVE  k > codes'[j].replaces
    BY <1>1 DEF ReplacedCodeRefused
  <2>1. accepted'[k][n] <= Len(codes) /\ k > codes[j].replaces
    BY <1>2, SMTT(30) DEF SeenInv, ReplacedCodeRefused
  <2>2. accepted'[k] \in Seq(Nat)
    BY <1>0, <1>2
  <2>3. accepted'[k][n] \in Nat
    BY <2>2, LenProperties, ElementOfSeq
  <2>4. j \in DOMAIN codes
    BY <1>0, <2>1, <2>3
  <2> QED
    BY <1>6, <2>1, <2>4
<1> QED
  BY <1>4, <1>5, <1>7, <1>8, <1>9, <1>10, <1>11

\* A code a guess sees was written with the codes of that moment; both stay in
\* the table.
LEMMA SignInBounds ==
    ASSUME TypeOK, SeenInv, NEW i \in DOMAIN codes, NEW n \in DOMAIN accepted[i],
           NEW j \in 1..accepted[i][n]
    PROVE  j \in DOMAIN codes
<1>1. accepted[i] \in Seq(Nat)
  BY Rows
<1>2. accepted[i][n] \in Nat
  BY <1>1, LenProperties, ElementOfSeq
<1> QED
  BY <1>2, Rows DEF SeenInv

\* The sign-ins recorded of a code are of guesses that saw no code replacing it.
LEMMA OldSignIns ==
    ASSUME IInv, NEW i \in DOMAIN codes, NEW n \in DOMAIN accepted[i]
    PROVE  /\ accepted[i][n] <= Len(codes)
           /\ \A j \in 1..accepted[i][n] : i > codes[j].replaces
BY DEF IInv, SeenInv, ReplacedCodeRefused

\* A new code is useful, and replaces only useless ones.
LEMMA InsertStep == ASSUME IInv, NEW c \in Calls, InsertCode(c) PROVE IInv'
<1> USE DEF IInv
<1> DEFINE code == [created |-> now, expires |-> call[c].at + Ttl,
                    lockUntil |-> call[c].at + Cooldown,
                    attempts |-> 0, consumed |-> FALSE, replaces |-> call[c].before]
           row == [call[c] EXCEPT !.step = "deliver", !.id = Len(codes) + 1]
           n == Len(codes) + 1
<1>0. /\ Len(codes) \in Nat
      /\ DOMAIN codes = 1..Len(codes) /\ DOMAIN accepted = DOMAIN codes
      /\ \A j \in DOMAIN codes : codes[j] \in Codes /\ accepted[j] \in Seq(Nat)
  BY Rows
<1>1. call[c] \in CallRows /\ call[c].step = "insert" /\ call[c].at <= now
  BY DEF TypeOK, InsertCode
<1>2. code \in Codes /\ row \in CallRows
  <2>1. call[c].at \in Nat /\ call[c].before \in Nat
    BY <1>1 DEF CallRows
  <2>2. now \in Nat /\ call[c].at + Ttl \in Nat /\ call[c].at + Cooldown \in Nat
    BY <2>1, OtpAssumption DEF TypeOK
  <2>3. code \in Codes
    BY <2>1, <2>2 DEF Codes
  <2>4. row \in CallRows
    <3> DEFINE half == [call[c] EXCEPT !.step = "deliver"]
    <3>1. half \in CallRows
      BY <1>1 DEF CallRows
    <3>2. row = [half EXCEPT !.id = n] /\ n \in Nat
      BY <1>0
    <3> HIDE DEF half, row, n
    <3> QED
      BY <3>1, <3>2 DEF CallRows
  <2> QED
    BY <2>3, <2>4
<1>3. codes' = Append(codes, code) /\ accepted' = Append(accepted, <<>>) /\ now' = now
      /\ call' = [call EXCEPT ![c].step = "deliver", ![c].id = Len(codes) + 1]
  BY DEF InsertCode
<1>4. /\ codes' \in Seq(Codes) /\ Len(codes') = n /\ DOMAIN codes' = 1..n
      /\ codes'[n] = code /\ \A j \in DOMAIN codes : codes'[j] = codes[j]
  <2>1. codes \in Seq(Codes)
    BY DEF TypeOK
  <2> HIDE DEF code
  <2> QED
    BY <1>0, <1>2, <1>3, <2>1, AppendProperties, LenProperties
<1>5. /\ accepted' \in Seq(Seq(Nat)) /\ Len(accepted') = n /\ DOMAIN accepted' = 1..n
      /\ accepted'[n] = <<>> /\ DOMAIN accepted'[n] = {}
      /\ \A j \in DOMAIN codes : accepted'[j] = accepted[j]
  <2>1. accepted \in Seq(Seq(Nat)) /\ Len(accepted) = Len(codes) /\ <<>> \in Seq(Nat)
    BY EmptySeq DEF TypeOK
  <2> QED
    <3>1. /\ accepted' \in Seq(Seq(Nat)) /\ Len(accepted') = n /\ DOMAIN accepted' = 1..n
          /\ accepted'[n] = <<>> /\ \A j \in DOMAIN codes : accepted'[j] = accepted[j]
      BY <1>0, <1>3, <2>1, AppendProperties, LenProperties
    <3>2. DOMAIN <<>> = {}
      OBVIOUS
    <3> QED
      BY <3>1, <3>2
<1>6. call'[c] = row /\ (\A d \in Calls \ {c} : call'[d] = call[d]) /\ call' \in [Calls -> CallRows]
  BY <1>2, <1>3 DEF TypeOK
<1>7. row.step = "deliver" /\ row.id = n /\ row.at = call[c].at
  BY <1>1 DEF CallRows
<1>8. /\ code.attempts = 0 /\ code.consumed = FALSE /\ code.replaces = call[c].before
  OBVIOUS
<1> HIDE DEF code, row
<1>9. \A d \in Calls : call'[d].step \in {"attempt", "consume", "insert"} => d # c
  BY <1>6, <1>7
<1>10. TypeOK'
  <2>1. \A d \in Calls :
            /\ call'[d].at <= now'
            /\ call'[d].step \in {"deliver", "attempt", "consume"} => call'[d].id \in DOMAIN codes'
    BY <1>0, <1>1, <1>3, <1>4, <1>6, <1>7 DEF TypeOK
  <2> QED
    BY <1>3, <1>4, <1>5, <1>6, <2>1 DEF TypeOK
<1>11. SpentInv'
  <2> SUFFICES ASSUME NEW j \in 1..n
               PROVE  /\ codes'[j].attempts <= MaxAttempts
                      /\ Len(accepted'[j]) = IF codes'[j].consumed THEN 1 ELSE 0
    BY <1>4 DEF SpentInv
  <2>0. j # n => j \in DOMAIN codes
    BY <1>0
  <2>1. CASE j = n
    <3>1. Len(<<>>) = 0
      OBVIOUS
    <3> QED
      BY <1>4, <1>5, <1>8, <2>1, <3>1, OtpAssumption
  <2>2. CASE j # n
    BY <1>4, <1>5, <2>0, <2>2 DEF SpentInv
  <2> QED
    BY <2>1, <2>2
<1>12. ReplacedInv'
  <2>1. \A i \in DOMAIN codes : i <= call[c].before => Useless(i)
    BY <1>1 DEF ReplacedInv
  <2>2. \A i \in DOMAIN codes : Useless(i) => codes'[i].consumed \/ codes'[i].expires <= now'
    BY <1>3, <1>4 DEF Useless
  <2>3. call[c].before <= Len(codes)
    BY <1>1 DEF BeforeInv
  <2>4. \A j \in 1..n : \A i \in 1..n :
            i <= codes'[j].replaces => codes'[i].consumed \/ codes'[i].expires <= now'
    <3> SUFFICES ASSUME NEW j \in 1..n, NEW i \in 1..n, i <= codes'[j].replaces
                 PROVE  codes'[i].consumed \/ codes'[i].expires <= now'
      OBVIOUS
    <3>1. CASE j = n
      <4>1. i <= call[c].before
        BY <1>4, <1>8, <3>1
      <4>2. call[c].before \in Nat
        BY <1>1 DEF CallRows
      <4>3. i \in DOMAIN codes
        BY <1>0, <2>3, <4>1, <4>2
      <4> QED
        BY <2>1, <2>2, <4>1, <4>3
    <3>2. CASE j # n
      <4>1. j \in DOMAIN codes /\ codes'[j] = codes[j]
        BY <1>0, <1>4, <3>2
      <4>2. codes[j].replaces \in Nat /\ codes[j].replaces <= Len(codes)
        BY <1>0, <4>1 DEF Codes, BeforeInv
      <4>3. i \in DOMAIN codes
        BY <1>0, <4>1, <4>2
      <4> QED
        BY <2>2, <4>1, <4>3 DEF ReplacedInv
    <3> QED
      BY <3>1, <3>2
  <2>5. \A d \in Calls : call'[d].step = "insert" =>
            \A i \in 1..n : i <= call'[d].before => codes'[i].consumed \/ codes'[i].expires <= now'
    <3> SUFFICES ASSUME NEW d \in Calls, call'[d].step = "insert",
                        NEW i \in 1..n, i <= call'[d].before
                 PROVE  codes'[i].consumed \/ codes'[i].expires <= now'
      OBVIOUS
    <3>1. d # c /\ call'[d] = call[d]
      BY <1>6, <1>9
    <3>2. call[d].before \in Nat /\ call[d].before <= Len(codes)
      BY <3>1 DEF BeforeInv, TypeOK, CallRows
    <3>3. i \in DOMAIN codes
      BY <1>0, <3>1, <3>2
    <3> QED
      BY <2>2, <3>1, <3>3 DEF ReplacedInv
  <2> QED
    BY <1>4, <2>4, <2>5 DEF ReplacedInv, Useless
<1>13. BeforeInv'
  <2>1. ASSUME NEW j \in 1..n PROVE codes'[j].replaces <= n
    <3>1. CASE j = n
      <4>1. call[c].before \in Nat /\ call[c].before <= Len(codes)
        BY <1>1 DEF BeforeInv, CallRows
      <4> QED
        BY <1>0, <1>4, <1>8, <3>1, <4>1
    <3>2. CASE j # n
      <4>1. j \in DOMAIN codes /\ codes'[j] = codes[j]
        BY <1>0, <1>4, <3>2
      <4>2. codes[j].replaces \in Nat /\ codes[j].replaces <= Len(codes)
        BY <1>0, <4>1 DEF Codes, BeforeInv
      <4> QED
        BY <1>0, <4>1, <4>2
    <3> QED
      BY <3>1, <3>2
  <2>2. ASSUME NEW d \in Calls, call'[d].step = "insert" PROVE call'[d].before <= n
    <3>1. d # c /\ call'[d] = call[d]
      BY <1>6, <1>9, <2>2
    <3>2. call[d].before \in Nat /\ call[d].before <= Len(codes)
      BY <2>2, <3>1 DEF BeforeInv, TypeOK, CallRows
    <3> QED
      BY <1>0, <3>1, <3>2
  <2> QED
    BY <1>4, <2>1, <2>2 DEF BeforeInv
<1>14. GuessInv'
  <2> SUFFICES ASSUME NEW d \in Calls, call'[d].step \in {"attempt", "consume"}
               PROVE  /\ call'[d].seen <= n
                      /\ \A j \in 1..call'[d].seen : codes'[j].replaces < call'[d].id
    BY <1>4 DEF GuessInv
  <2>1. d # c /\ call'[d] = call[d]
    BY <1>6, <1>9
  <2>2. /\ call[d].seen \in Nat /\ call[d].seen <= Len(codes)
        /\ \A j \in 1..call[d].seen : codes[j].replaces < call[d].id
    BY <2>1 DEF GuessInv, TypeOK, CallRows
  <2>3. \A j \in 1..call[d].seen : codes'[j] = codes[j]
    BY <1>0, <1>4, <2>2
  <2> QED
    BY <1>0, <2>1, <2>2, <2>3
<1>15. SeenInv'
  <2> SUFFICES ASSUME NEW i \in 1..n, NEW k \in DOMAIN accepted'[i]
               PROVE  accepted'[i][k] <= n
    BY <1>4 DEF SeenInv
  <2>0. i # n
    BY <1>5
  <2>3. i \in DOMAIN codes
    BY <1>0, <2>0
  <2>1. i \in DOMAIN codes /\ k \in DOMAIN accepted[i] /\ accepted'[i] = accepted[i]
    BY <1>5, <2>3
  <2>2. accepted[i][k] \in Nat
    BY <1>0, <2>1, LenProperties, ElementOfSeq
  <2> QED
    BY <1>0, <2>1, <2>2 DEF SeenInv
<1>16. ReplacedCodeRefused'
  <2> SUFFICES ASSUME NEW i \in 1..n, NEW k \in DOMAIN accepted'[i], NEW j \in 1..accepted'[i][k]
               PROVE  i > codes'[j].replaces
    BY <1>4 DEF ReplacedCodeRefused
  <2>0. i # n
    BY <1>5
  <2>3. i \in DOMAIN codes
    BY <1>0, <2>0
  <2>1. i \in DOMAIN codes /\ k \in DOMAIN accepted[i] /\ accepted'[i] = accepted[i]
    BY <1>5, <2>3
  <2>2. j \in DOMAIN codes
    BY <2>1, SignInBounds
  <2> QED
    BY <1>4, <2>1, <2>2 DEF ReplacedCodeRefused
<1> QED
  BY <1>10, <1>11, <1>12, <1>13, <1>14, <1>15, <1>16

\* The UPDATE leaves every code there is useless, and changes nothing else.
LEMMA InvalidateStep == ASSUME IInv, NEW c \in Calls, Invalidate(c) PROVE IInv'
<1> USE DEF IInv
<1> DEFINE row == [call[c] EXCEPT !.step = "insert", !.before = Len(codes)]
<1>0. /\ Len(codes) \in Nat
      /\ DOMAIN codes = 1..Len(codes) /\ DOMAIN accepted = DOMAIN codes
      /\ \A j \in DOMAIN codes : codes[j] \in Codes /\ accepted[j] \in Seq(Nat)
  BY Rows
<1>1. call[c] \in CallRows /\ call[c].at <= now /\ call[c].at \in Nat /\ now \in Nat
  BY DEF TypeOK, CallRows
<1>2. now' = now /\ accepted' = accepted
      /\ call' = [call EXCEPT ![c].step = "insert", ![c].before = Len(codes)]
  BY DEF Invalidate
<1>3. codes' = [i \in DOMAIN codes |->
           IF i \in Unused /\ codes[i].expires > call[c].at
           THEN [codes[i] EXCEPT !.expires = call[c].at] ELSE codes[i]]
  BY DEF Invalidate
<1>4. /\ codes' \in [1..Len(codes) -> Codes]
      /\ \A i \in DOMAIN codes :
             /\ codes'[i].attempts = codes[i].attempts
             /\ codes'[i].consumed = codes[i].consumed
             /\ codes'[i].replaces = codes[i].replaces
             /\ codes'[i].consumed \/ codes'[i].expires <= now
  <2> SUFFICES ASSUME NEW i \in DOMAIN codes
               PROVE  /\ codes'[i] \in Codes
                      /\ codes'[i].attempts = codes[i].attempts
                      /\ codes'[i].consumed = codes[i].consumed
                      /\ codes'[i].replaces = codes[i].replaces
                      /\ codes'[i].consumed \/ codes'[i].expires <= now
    BY <1>0, <1>3
  <2>1. CASE i \in Unused /\ codes[i].expires > call[c].at
    <3>1. codes'[i] = [codes[i] EXCEPT !.expires = call[c].at]
      BY <1>3, <2>1
    <3> QED
      BY <1>0, <1>1, <3>1 DEF Codes
  <2>2. CASE i \notin Unused
    BY <1>0, <1>3, <2>2 DEF Unused
  <2>3. CASE ~(codes[i].expires > call[c].at)
    <3>1. codes'[i] = codes[i] /\ codes[i].expires \in Nat
      BY <1>0, <1>3, <2>3 DEF Codes
    <3> QED
      BY <1>0, <1>1, <2>3, <3>1
  <2> QED
    BY <2>1, <2>2, <2>3
<1>5. codes' \in Seq(Codes) /\ Len(codes') = Len(codes) /\ DOMAIN codes' = DOMAIN codes
  BY <1>0, <1>4, SeqDef, LenProperties
<1>6. /\ call'[c] = row /\ row \in CallRows
      /\ (\A d \in Calls \ {c} : call'[d] = call[d]) /\ call' \in [Calls -> CallRows]
  <2>1. row \in CallRows
    BY <1>0, <1>1 DEF CallRows
  <2> QED
    BY <1>2, <2>1 DEF TypeOK
<1>7. row.step = "insert" /\ row.at = call[c].at /\ row.before = Len(codes)
  BY <1>1 DEF CallRows
<1> HIDE DEF row
<1>8. TypeOK'
  BY <1>1, <1>2, <1>5, <1>6, <1>7 DEF TypeOK
<1>9. SpentInv'
  BY <1>2, <1>4, <1>5 DEF SpentInv
<1>10. ReplacedInv'
  BY <1>2, <1>4, <1>5 DEF ReplacedInv, Useless
<1>11. BeforeInv'
  BY <1>0, <1>4, <1>5, <1>6, <1>7 DEF BeforeInv
<1>12. GuessInv'
  <2> SUFFICES ASSUME NEW d \in Calls, call'[d].step \in {"attempt", "consume"}
               PROVE  /\ call'[d].seen <= Len(codes)
                      /\ \A j \in 1..call'[d].seen : codes'[j].replaces < call'[d].id
    BY <1>5 DEF GuessInv
  <2>1. d # c /\ call'[d] = call[d]
    BY <1>6, <1>7
  <2>2. /\ call[d].seen \in Nat /\ call[d].seen <= Len(codes)
        /\ \A j \in 1..call[d].seen : codes[j].replaces < call[d].id
    BY <2>1 DEF GuessInv, TypeOK, CallRows
  <2>3. \A j \in 1..call[d].seen : codes'[j].replaces = codes[j].replaces
    BY <1>0, <1>4, <2>2
  <2> QED
    BY <2>1, <2>2, <2>3
<1>13. SeenInv'
  BY <1>2, <1>5 DEF SeenInv
<1>14. ReplacedCodeRefused'
  <2> SUFFICES ASSUME NEW i \in DOMAIN codes, NEW k \in DOMAIN accepted[i], NEW j \in 1..accepted[i][k]
               PROVE  i > codes'[j].replaces
    BY <1>2, <1>5 DEF ReplacedCodeRefused
  <2> QED
    BY <1>4, SignInBounds DEF ReplacedCodeRefused
<1> QED
  BY <1>8, <1>9, <1>10, <1>11, <1>12, <1>13, <1>14

\* Every step keeps the invariant.
LEMMA NextIInv == IInv /\ [Next]_vars => IInv'
<1> SUFFICES ASSUME IInv, [Next]_vars PROVE IInv'
    OBVIOUS
<1>0. /\ Len(codes) \in Nat /\ now \in Nat
      /\ DOMAIN codes = 1..Len(codes) /\ DOMAIN accepted = DOMAIN codes
      /\ \A j \in DOMAIN codes : codes[j] \in Codes /\ accepted[j] \in Seq(Nat)
      /\ call \in [Calls -> CallRows]
  BY Rows DEF IInv, TypeOK
<1>5. Idle \in CallRows /\ Idle.at = 0 /\ Idle.step = "idle"
  BY DEF CallRows, Idle
<1>1. CASE UNCHANGED vars
  BY <1>1 DEF vars, IInv, TypeOK, SpentInv, ReplacedInv, Useless, BeforeInv, GuessInv, SeenInv,
              ReplacedCodeRefused
<1>2. CASE Tick
  <2>1. now' \in Nat /\ now <= now' /\ UNCHANGED <<codes, call, accepted>>
    BY <1>0, <1>2 DEF Tick
  <2>2. TypeOK'
    BY <1>0, <2>1 DEF IInv, TypeOK, CallRows
  <2>3. \A i \in DOMAIN codes : Useless(i) => codes[i].consumed \/ codes[i].expires <= now'
    <3>1. \A i \in DOMAIN codes : codes[i].expires \in Nat
      BY <1>0 DEF Codes
    <3> QED
      BY <1>0, <2>1, <3>1 DEF Useless
  <2>4. ReplacedInv'
    BY <2>1, <2>3 DEF IInv, ReplacedInv, Useless
  <2> QED
    BY <2>1, <2>2, <2>4
    DEF IInv, SpentInv, BeforeInv, GuessInv, SeenInv, ReplacedCodeRefused
<1>3. ASSUME NEW c \in Calls, BeginIssue(c) PROVE IInv'
  <2> DEFINE row == [Idle EXCEPT !.step = "window", !.at = now]
  <2>1. row \in CallRows /\ row.at = now /\ row.step = "window"
    BY <1>0, <1>5 DEF CallRows
  <2>2. call' = [call EXCEPT ![c] = row] /\ UNCHANGED <<now, codes, accepted>>
    BY <1>3 DEF BeginIssue
  <2>3. row.at <= now /\ row.step \notin {"insert", "deliver", "attempt", "consume"}
    BY <1>0, <2>1
  <2> HIDE DEF row
  <2> QED
    BY <2>1, <2>2, <2>3, CallStep
<1>4. ASSUME NEW c \in Calls, NEW row \in CallRows,
             row = Idle \/ row = [call[c] EXCEPT !.step = "invalidate"],
             call' = [call EXCEPT ![c] = row], UNCHANGED <<now, codes, accepted>>
      PROVE  IInv'
  <2>1. row.at <= now /\ row.step \in {"idle", "invalidate"}
    <3>1. CASE row = Idle
      BY <1>0, <1>5, <3>1
    <3>2. CASE row = [call[c] EXCEPT !.step = "invalidate"]
      BY <1>0, <3>2 DEF IInv, TypeOK, CallRows
    <3> QED
      BY <1>4, <3>1, <3>2
  <2> QED
    BY <1>4, <2>1, CallStep
<1>6. ASSUME NEW c \in Calls, CheckWindow(c) PROVE IInv'
  <2>1. [call[c] EXCEPT !.step = "invalidate"] \in CallRows
    BY <1>0 DEF CallRows
  <2> QED
    BY <1>4, <1>5, <1>6, <2>1 DEF CheckWindow, Refuse, To
<1>7. ASSUME NEW c \in Calls, Deliver(c) PROVE IInv'
  BY <1>4, <1>5, <1>7 DEF Deliver, Refuse
<1>8. ASSUME NEW c \in Calls, Invalidate(c) PROVE IInv'
  BY <1>8, InvalidateStep
<1>9. ASSUME NEW c \in Calls, InsertCode(c) PROVE IInv'
  BY <1>9, InsertStep
<1>10. ASSUME NEW c \in Calls, DeliveryFails(c) PROVE IInv'
  <2> DEFINE i == call[c].id
             code == [codes[i] EXCEPT !.expires = 0, !.lockUntil = 0]
  <2>1. i \in DOMAIN codes
    BY <1>10 DEF DeliveryFails, IInv, TypeOK
  <2>2. codes[i] \in Codes /\ accepted[i] \in Seq(Nat)
    BY <1>0, <2>1
  <2>3. /\ code \in Codes /\ code.replaces = codes[i].replaces /\ code.expires <= codes[i].expires
        /\ code.attempts = codes[i].attempts /\ code.consumed = codes[i].consumed
    <3>1. codes[i].expires \in Nat
      BY <2>2 DEF Codes
    <3> DEFINE expired == [codes[i] EXCEPT !.expires = 0]
    <3>2. /\ expired \in Codes /\ expired.expires = 0 /\ expired.replaces = codes[i].replaces
          /\ expired.attempts = codes[i].attempts /\ expired.consumed = codes[i].consumed
      BY <2>2 DEF Codes
    <3>3. code = [expired EXCEPT !.lockUntil = 0]
      OBVIOUS
    <3> HIDE DEF expired, code
    <3>4. /\ code \in Codes /\ code.expires = 0 /\ code.replaces = codes[i].replaces
          /\ code.attempts = codes[i].attempts /\ code.consumed = codes[i].consumed
      BY <3>2, <3>3 DEF Codes
    <3> QED
      BY <3>1, <3>4
  <2>4. codes' = [codes EXCEPT ![i] = code] /\ accepted' = accepted
        /\ call' = [call EXCEPT ![c] = Idle] /\ now' = now
    BY <1>10 DEF DeliveryFails, Refuse
  <2>5. accepted' = [accepted EXCEPT ![i] = accepted[i]]
    BY <2>4, SeqSame DEF IInv, TypeOK
  <2>6. Idle.at <= now /\ Idle.step = "idle"
    BY <1>0, <1>5
  <2>7. code.attempts <= MaxAttempts /\ Len(accepted[i]) = IF code.consumed THEN 1 ELSE 0
    BY <2>1, <2>3 DEF IInv, SpentInv
  <2>8. codes[i].consumed => code.consumed
    BY <2>3
  <2>9. \A n \in DOMAIN accepted[i] :
            accepted[i][n] <= Len(codes) /\ \A j \in 1..accepted[i][n] : i > codes[j].replaces
    BY <2>1, OldSignIns
  <2> HIDE DEF code
  <2> QED
    BY <1>5, <2>1, <2>2, <2>3, <2>4, <2>5, <2>6, <2>7, <2>8, <2>9, CodeStep,
       ZenonT(30)
<1>11. ASSUME NEW c \in Calls, NEW guess \in 0..Len(codes), ReadNewest(c, guess) PROVE IInv'
  <2>1. PICK i \in Unused :
           /\ codes[i].expires > now
           /\ call' = [call EXCEPT ![c] = [Idle EXCEPT !.step = "attempt", !.id = i,
                                             !.guess = guess, !.seen = Len(codes)]]
    BY <1>11 DEF ReadNewest
  <2> DEFINE row == [Idle EXCEPT !.step = "attempt", !.id = i, !.guess = guess, !.seen = Len(codes)]
  <2>2. i \in DOMAIN codes /\ ~codes[i].consumed
    BY DEF Unused
  <2>3. row \in CallRows /\ row.at = 0 /\ row.step = "attempt" /\ row.id = i /\ row.seen = Len(codes)
    <3>1. i \in Nat /\ guess \in Nat
      BY <1>0, <2>2
    <3> QED
      BY <1>0, <1>5, <3>1 DEF CallRows
  <2>4. \A j \in 1..Len(codes) : codes[j].replaces < i
    <3>1. \A j \in 1..Len(codes) : codes[j].replaces \in Nat /\ i \in Nat
      BY <1>0, <2>2 DEF Codes
    <3> SUFFICES ASSUME NEW j \in 1..Len(codes), i <= codes[j].replaces PROVE FALSE
      BY <3>1
    <3>2. Useless(i)
      BY <1>0, <2>2 DEF IInv, ReplacedInv
    <3>3. codes[i].expires \in Nat
      BY <1>0, <2>2 DEF Codes
    <3> QED
      BY <1>0, <2>1, <2>2, <3>2, <3>3 DEF Useless
  <2>5. call' = [call EXCEPT ![c] = row] /\ UNCHANGED <<now, codes, accepted>>
    BY <1>11, <2>1 DEF ReadNewest
  <2>6. /\ row.at <= now /\ row.id \in DOMAIN codes /\ row.step # "insert"
        /\ row.seen <= Len(codes) /\ \A j \in 1..row.seen : codes[j].replaces < row.id
    BY <1>0, <2>2, <2>3, <2>4
  <2> HIDE DEF row
  <2> QED
    BY <2>3, <2>5, <2>6, CallStep
<1>12. ASSUME NEW c \in Calls, Attempt(c) PROVE IInv'
  <2> DEFINE i == call[c].id
             code == [codes[i] EXCEPT !.attempts = @ + 1]
             row == [call[c] EXCEPT !.step = "consume"]
  <2>1. i \in DOMAIN codes /\ codes[i] \in Codes /\ accepted[i] \in Seq(Nat)
    BY <1>0, <1>12 DEF Attempt, IInv, TypeOK
  <2>2. CASE codes[i].consumed \/ codes[i].attempts >= MaxAttempts
    BY <1>4, <1>5, <1>12, <2>2 DEF Attempt, Refuse
  <2>3. CASE ~(codes[i].consumed \/ codes[i].attempts >= MaxAttempts)
    <3>1. /\ code \in Codes /\ code.replaces = codes[i].replaces /\ code.expires = codes[i].expires
          /\ code.attempts = codes[i].attempts + 1 /\ code.consumed = codes[i].consumed
      BY <2>1, CountedCode
    <3>2. code.attempts <= MaxAttempts /\ code.expires <= codes[i].expires
      <4>1. codes[i].attempts \in Nat /\ codes[i].expires \in Nat
        BY <2>1 DEF Codes
      <4> QED
        BY <2>3, <3>1, <4>1, OtpAssumption
    <3>3. /\ codes' = [codes EXCEPT ![i] = code] /\ accepted' = accepted /\ now' = now
          /\ accepted' = [accepted EXCEPT ![i] = accepted[i]]
      BY <1>12, <2>3, SeqSame DEF Attempt, IInv, TypeOK
    <3>4. Len(accepted[i]) = IF code.consumed THEN 1 ELSE 0
      BY <2>1, <3>1 DEF IInv, SpentInv
    <3>5. row \in CallRows /\ row.step = "consume" /\ row.at <= now
          /\ row.id = i /\ row.seen = call[c].seen
      BY <1>0 DEF CallRows, IInv, TypeOK
    <3>6. row.seen <= Len(codes) /\ \A j \in 1..row.seen : codes[j].replaces < row.id
      BY <1>12, <3>5 DEF Attempt, IInv, GuessInv
    <3>7. Idle.at <= now /\ Idle.step = "idle"
      BY <1>0, <1>5
    <3>8. call' = [call EXCEPT ![c] = Idle] \/ call' = [call EXCEPT ![c] = row]
      BY <1>12, <2>3 DEF Attempt, Refuse, To
    <3>10. codes[i].consumed => code.consumed
      BY <3>1
    <3>11. \A n \in DOMAIN accepted[i] :
               accepted[i][n] <= Len(codes) /\ \A j \in 1..accepted[i][n] : i > codes[j].replaces
      BY <2>1, OldSignIns
    <3> HIDE DEF code, row
    <3>12. CASE call' = [call EXCEPT ![c] = Idle]
      BY <1>5, <2>1, <3>1, <3>2, <3>3, <3>4, <3>7, <3>10, <3>11, <3>12, CodeStep,
         ZenonT(30)
    <3>13. CASE call' = [call EXCEPT ![c] = row]
      BY <2>1, <3>1, <3>2, <3>3, <3>4, <3>5, <3>6, <3>10, <3>11, <3>13, CodeStep,
         ZenonT(30)
    <3> QED
      BY <3>8, <3>12, <3>13
  <2> QED
    BY <2>2, <2>3
<1>13. ASSUME NEW c \in Calls, Consume(c) PROVE IInv'
  <2> DEFINE i == call[c].id
             code == [codes[i] EXCEPT !.consumed = TRUE]
             s == Append(accepted[i], call[c].seen)
  <2>1. i \in DOMAIN codes /\ codes[i] \in Codes /\ accepted[i] \in Seq(Nat) /\ call[c].seen \in Nat
    BY <1>0, <1>13 DEF Consume, IInv, TypeOK, CallRows
  <2>2. CASE codes[i].consumed
    BY <1>4, <1>5, <1>13, <2>2 DEF Consume, Refuse
  <2>3. CASE ~codes[i].consumed
    <3>1. /\ code \in Codes /\ code.replaces = codes[i].replaces /\ code.expires = codes[i].expires
          /\ code.attempts = codes[i].attempts /\ code.consumed
      BY <2>1 DEF Codes
    <3>2. code.attempts <= MaxAttempts /\ code.expires <= codes[i].expires
      <4>1. codes[i].expires \in Nat
        BY <2>1 DEF Codes
      <4> QED
        BY <2>1, <3>1, <4>1 DEF IInv, SpentInv
    <3>3. Len(accepted[i]) = 0
      BY <2>1, <2>3 DEF IInv, SpentInv
    <3>4. s \in Seq(Nat) /\ Len(s) = 1 /\ DOMAIN s = 1..1 /\ s[1] = call[c].seen
      BY <2>1, <3>3, AppendProperties, LenProperties
    <3>5. codes' = [codes EXCEPT ![i] = code] /\ accepted' = [accepted EXCEPT ![i] = s]
          /\ call' = [call EXCEPT ![c] = Idle] /\ now' = now
      BY <1>13, <2>1, <2>3 DEF Consume, Refuse
    <3>6. call[c].seen <= Len(codes) /\ \A j \in 1..call[c].seen : codes[j].replaces < i
      BY <1>13 DEF Consume, IInv, GuessInv
    <3>7. \A n \in DOMAIN s : s[n] <= Len(codes) /\ \A j \in 1..s[n] : i > codes[j].replaces
      <4>1. i \in Nat /\ \A j \in 1..call[c].seen : j \in DOMAIN codes
        BY <1>0, <2>1, <3>6
      <4>2. \A j \in 1..call[c].seen : codes[j].replaces \in Nat
        BY <1>0, <4>1 DEF Codes
      <4> QED
        BY <3>4, <3>6, <4>1, <4>2
    <3>8. Idle.at <= now /\ Idle.step = "idle"
      BY <1>0, <1>5
    <3>9. Len(s) = IF code.consumed THEN 1 ELSE 0
      BY <3>1, <3>4
    <3> HIDE DEF code, s
    <3> QED
      BY <1>0, <1>5, <2>1, <3>1, <3>2, <3>4, <3>5, <3>7, <3>8, <3>9, CodeStep
  <2> QED
    BY <2>2, <2>3
<1> QED
  BY <1>1, <1>2, <1>3, <1>6, <1>7, <1>8, <1>9, <1>10, <1>11, <1>12, <1>13 DEF Next

LEMMA SpecIInv == Spec => []IInv
BY InitIInv, NextIInv, PTL DEF Spec
-----------------------------------------------------------------------------
\* A code is worth one sign-in and MaxAttempts guesses, however many
\* verifications run at once.
THEOREM CodeIsSpentOnceThm == Spec => []CodeIsSpentOnce
<1>1. IInv => CodeIsSpentOnce
  BY DEF IInv, SpentInv, CodeIsSpentOnce
<1> QED
  BY <1>1, SpecIInv, PTL

\* A verification that begins after a code was issued accepts none of the codes
\* its issue had found.
THEOREM ReplacedCodeRefusedThm == Spec => []ReplacedCodeRefused
BY SpecIInv, PTL DEF IInv
-----------------------------------------------------------------------------
(* Codes in a window *)

\* The codes that were there at t and count towards the limit.
Holds(t) == {i \in DOMAIN codes : codes[i].created <= t /\ codes[i].created + Window > t}

\* The issues that found room in the window and have not written their code.
Passed == {c \in Calls : call[c].step \in {"invalidate", "insert"}}

\* What the window holds from now on, with the codes about to be written, is
\* less than the limit and one more for every call.
WindowInv ==
    \A t \in Nat : t >= now => Cardinality(Holds(t)) + Cardinality(Passed) < Limit + Cardinality(Calls)

\* Together they are inductive: a window that has begun is not added to later.
Room == WindowInv /\ WindowBounded

\* The sets that are counted are finite.
LEMMA FiniteParts ==
    ASSUME TypeOK
    PROVE  /\ IsFiniteSet(Passed) /\ Cardinality(Passed) \in Nat
           /\ Cardinality(Calls) \in Nat /\ Cardinality(Passed) <= Cardinality(Calls)
           /\ \A t : IsFiniteSet(Holds(t)) /\ Cardinality(Holds(t)) \in Nat
           /\ \A at : IsFiniteSet(InWindow(at)) /\ Cardinality(InWindow(at)) \in Nat
<1>1. Len(codes) \in Nat /\ DOMAIN codes = 1..Len(codes)
  BY Rows
<1>2. IsFiniteSet(DOMAIN codes)
  BY <1>1, FS_Interval
<1>3. Passed \in SUBSET Calls /\ (\A t : Holds(t) \in SUBSET DOMAIN codes)
      /\ \A at : InWindow(at) \in SUBSET DOMAIN codes
  BY DEF Passed, Holds, InWindow
<1> QED
  BY <1>2, <1>3, CallsAssumption, FS_Subset, FS_CardinalityType

\* What WindowBounded bounds.
LEMMA WindowHolds ==
    WindowBounded <=> \A t \in 0..now : Cardinality(Holds(t)) < Limit + Cardinality(Calls)
BY DEF WindowBounded, Holds

\* A step that writes no code and lets no call pass.
LEMMA WindowKept ==
    ASSUME TypeOK, TypeOK', Room, DOMAIN codes' = DOMAIN codes,
           \A i \in DOMAIN codes : codes'[i].created = codes[i].created,
           now' \in {now, now + 1}, Passed' \subseteq Passed
    PROVE  Room'
<1>1. \A t : Holds(t)' = Holds(t)
  BY DEF Holds
<1>2. now \in Nat /\ Limit \in Nat
  BY OtpAssumption DEF TypeOK
<1>3. Cardinality(Passed') \in Nat /\ Cardinality(Passed') <= Cardinality(Passed)
  BY FiniteParts, FS_Subset, FS_CardinalityType
<1>4. \A t \in Nat : t >= now' => t >= now
  BY <1>2
<1>5. WindowInv'
  <2> SUFFICES ASSUME NEW t \in Nat, t >= now'
               PROVE  Cardinality(Holds(t)') + Cardinality(Passed') < Limit + Cardinality(Calls)
    BY DEF WindowInv
  <2>1. Cardinality(Holds(t)) + Cardinality(Passed) < Limit + Cardinality(Calls)
    BY <1>4 DEF Room, WindowInv
  <2>2. Cardinality(Holds(t)') = Cardinality(Holds(t))
    BY <1>1
  <2> QED
    BY <1>2, <1>3, <2>1, <2>2, FiniteParts
<1>6. \A t \in 0..now' : Cardinality(Holds(t)') < Limit + Cardinality(Calls)
  <2> SUFFICES ASSUME NEW t \in 0..now'
               PROVE  Cardinality(Holds(t)') < Limit + Cardinality(Calls)
    OBVIOUS
  <2>1. CASE t \in 0..now
    BY <1>1, <2>1, WindowHolds DEF Room
  <2>2. CASE t >= now
    <3>1. t \in Nat /\ Cardinality(Holds(t)) + Cardinality(Passed) < Limit + Cardinality(Calls)
      BY <1>2, <2>2 DEF Room, WindowInv
    <3>2. Cardinality(Holds(t)') = Cardinality(Holds(t))
      BY <1>1
    <3> QED
      BY <1>2, <3>1, <3>2, FiniteParts
  <2> QED
    BY <1>2, <2>1, <2>2
<1>7. WindowBounded'
  BY <1>6 DEF WindowBounded, Holds
<1> QED
  BY <1>5, <1>7 DEF Room

\* An issue that passes has found fewer codes than the limit, among them all that
\* any later window still holds.
LEMMA PassKeepsRoom ==
    ASSUME TypeOK, Room, NEW c \in Calls, CheckWindow(c), TypeOK'
    PROVE  Room'
<1>1. /\ call[c].step = "window" /\ UNCHANGED <<now, codes>>
      /\ IF Cardinality(InWindow(call[c].at)) >= Limit THEN Refuse(c) ELSE To(c, "invalidate")
  BY DEF CheckWindow
<1>2. CASE Cardinality(InWindow(call[c].at)) >= Limit
  <2>1. Passed' \subseteq Passed
    BY <1>1, <1>2 DEF Refuse, Idle, Passed, TypeOK
  <2> QED
    BY <1>1, <2>1, WindowKept
<1>3. CASE ~(Cardinality(InWindow(call[c].at)) >= Limit)
  <2> DEFINE at == call[c].at
  <2>1. /\ now \in Nat /\ at \in Nat /\ at <= now
        /\ Limit \in Nat /\ Window \in Nat
    BY OtpAssumption DEF TypeOK, CallRows
  <2>2. \A t : Holds(t)' = Holds(t)
    BY <1>1 DEF Holds
  <2>3. ASSUME NEW t \in Nat, t >= now
        PROVE  Cardinality(Holds(t)') + Cardinality(Passed') < Limit + Cardinality(Calls)
    <3>1. \A i \in DOMAIN codes : codes[i].created \in Nat
      BY Rows DEF Codes
    <3>2. Holds(t) \in SUBSET InWindow(at)
      BY <2>1, <2>3, <3>1 DEF Holds, InWindow
    <3>3. Cardinality(Holds(t)) <= Cardinality(InWindow(at))
      BY <3>2, FiniteParts, FS_Subset
    <3>4. /\ Cardinality(InWindow(at)) < Limit
          /\ Cardinality(InWindow(at)) \in Nat /\ Cardinality(Holds(t)) \in Nat
      BY <1>3, <2>1, FiniteParts
    <3>5. Passed' \in SUBSET Calls
      BY DEF Passed
    <3>6. /\ Cardinality(Passed') \in Nat /\ Cardinality(Calls) \in Nat
          /\ Cardinality(Passed') <= Cardinality(Calls)
      BY <3>5, CallsAssumption, FS_Subset, FS_CardinalityType
    <3>7. Cardinality(Holds(t)') = Cardinality(Holds(t))
      BY <2>2
    <3> QED
      BY <2>1, <3>3, <3>4, <3>6, <3>7
  <2>4. WindowInv'
    BY <1>1, <2>3 DEF WindowInv
  <2>5. WindowBounded'
    BY <1>1 DEF Room, WindowBounded
  <2> QED
    BY <2>4, <2>5 DEF Room
<1> QED
  BY <1>2, <1>3

\* The code that is written is one that was counted as passed.
LEMMA InsertKeepsRoom ==
    ASSUME TypeOK, Room, NEW c \in Calls, InsertCode(c), TypeOK'
    PROVE  Room'
<1> DEFINE n == Len(codes) + 1
<1>1. /\ Len(codes) \in Nat /\ DOMAIN codes = 1..Len(codes)
      /\ DOMAIN codes' = DOMAIN codes \cup {n} /\ n \notin DOMAIN codes
      /\ codes'[n].created = now /\ \A j \in DOMAIN codes : codes'[j] = codes[j]
  <2>1. PICK code : code.created = now /\ codes' = Append(codes, code)
    BY DEF InsertCode
  <2>2. Len(codes') = n /\ codes'[n] = code /\ \A j \in DOMAIN codes : codes'[j] = codes[j]
    BY <2>1, Rows, AppendProperties DEF TypeOK
  <2>3. DOMAIN codes' = 1..n
    BY <2>2, LenProperties DEF TypeOK
  <2> QED
    BY <2>1, <2>2, <2>3, Rows
<1>2. /\ now' = now /\ now \in Nat /\ Limit \in Nat
      /\ c \in Passed /\ Passed' = Passed \ {c}
  BY OtpAssumption DEF InsertCode, Passed, TypeOK
<1>3. /\ Cardinality(Passed) \in Nat /\ Cardinality(Calls) \in Nat
      /\ Cardinality(Passed') = Cardinality(Passed) - 1 /\ Cardinality(Passed') \in Nat
  BY <1>2, FiniteParts, FS_RemoveElement, FS_CardinalityType
<1>4. ASSUME NEW t \in Nat
      PROVE  /\ Cardinality(Holds(t)) \in Nat
             /\ Cardinality(Holds(t)') \in Nat
             /\ Cardinality(Holds(t)') <= Cardinality(Holds(t)) + 1
             /\ t < now => Holds(t)' = Holds(t)
  <2>1. Holds(t)' \in SUBSET (Holds(t) \cup {n})
    BY <1>1 DEF Holds
  <2>2. IsFiniteSet(Holds(t)) /\ Cardinality(Holds(t)) \in Nat
    BY FiniteParts
  <2>3. /\ IsFiniteSet(Holds(t) \cup {n})
        /\ Cardinality(Holds(t) \cup {n}) <= Cardinality(Holds(t)) + 1
    <3> DEFINE H == Holds(t)
    <3>1. IsFiniteSet(H) /\ Cardinality(H) \in Nat
      BY <2>2
    <3> HIDE DEF H
    <3>2. IsFiniteSet(H \cup {n}) /\ Cardinality(H \cup {n}) <= Cardinality(H) + 1
      <4>1. /\ IsFiniteSet(H \cup {n})
            /\ Cardinality(H \cup {n}) = IF n \in H THEN Cardinality(H) ELSE Cardinality(H) + 1
        BY <3>1, FS_AddElement
      <4> QED
        BY <3>1, <4>1
    <3> QED
      BY <3>2 DEF H
  <2>4. /\ Cardinality(Holds(t) \cup {n}) \in Nat /\ Cardinality(Holds(t)') \in Nat
        /\ Cardinality(Holds(t)') <= Cardinality(Holds(t) \cup {n})
    BY <2>1, <2>3, FS_Subset, FS_CardinalityType
  <2>5. t < now => Holds(t)' = Holds(t)
    BY <1>1, <1>2 DEF Holds
  <2> QED
    BY <2>2, <2>3, <2>4, <2>5
<1>5. ASSUME NEW t \in Nat, t >= now
      PROVE  Cardinality(Holds(t)') + Cardinality(Passed') < Limit + Cardinality(Calls)
  <2>1. Cardinality(Holds(t)) + Cardinality(Passed) < Limit + Cardinality(Calls)
    BY <1>5 DEF Room, WindowInv
  <2> QED
    BY <1>2, <1>3, <1>4, <2>1
<1>6. WindowInv'
  BY <1>2, <1>5 DEF WindowInv
<1>7. \A t \in 0..now : Cardinality(Holds(t)') < Limit + Cardinality(Calls)
  <2> SUFFICES ASSUME NEW t \in 0..now
               PROVE  Cardinality(Holds(t)') < Limit + Cardinality(Calls)
    OBVIOUS
  <2>1. t \in Nat /\ (t < now \/ t >= now)
    BY <1>2
  <2>2. CASE t < now
    BY <1>4, <2>1, <2>2, WindowHolds DEF Room
  <2>3. CASE t >= now
    <3>1. Cardinality(Holds(t)') + Cardinality(Passed') < Limit + Cardinality(Calls)
      BY <1>5, <2>1, <2>3
    <3>2. Cardinality(Holds(t)') \in Nat
      BY <1>4, <2>1
    <3> QED
      BY <1>2, <1>3, <3>1, <3>2
  <2> QED
    BY <2>1, <2>2, <2>3
<1>8. WindowBounded'
  BY <1>2, <1>7 DEF WindowBounded, Holds
<1> QED
  BY <1>6, <1>8 DEF Room

\* Nothing that is written to a code changes when it was created.
LEMMA Created ==
    ASSUME NEW r \in Codes
    PROVE  /\ [r EXCEPT !.expires = 0, !.lockUntil = 0].created = r.created
           /\ [r EXCEPT !.attempts = @ + 1].created = r.created
           /\ [r EXCEPT !.consumed = TRUE].created = r.created
BY DEF Codes

\* There is no code at the start.
LEMMA InitRoom == Init => Room
<1> SUFFICES ASSUME Init PROVE Room
    OBVIOUS
<1>1. DOMAIN codes = {} /\ now = 0 /\ Passed = {}
  BY DEF Init, Passed, Idle
<1>2. \A t : Holds(t) = {}
  BY <1>1 DEF Holds
<1>3. Cardinality({}) = 0 /\ Cardinality(Calls) \in Nat /\ Limit \in Nat \ {0}
  BY CallsAssumption, OtpAssumption, FS_EmptySet, FS_CardinalityType
<1>4. \A t : Cardinality(Holds(t)) = 0
  BY <1>2, <1>3
<1> QED
  BY <1>1, <1>3, <1>4, WindowHolds DEF Room, WindowInv

\* Only a check that passes and a code that is written count.
LEMMA NextRoom == IInv /\ IInv' /\ Room /\ [Next]_vars => Room'
<1> SUFFICES ASSUME TypeOK, TypeOK', Room, [Next]_vars PROVE Room'
    BY DEF IInv
<1>1. ASSUME DOMAIN codes' = DOMAIN codes,
             \A i \in DOMAIN codes : codes'[i].created = codes[i].created,
             now' \in {now, now + 1}, Passed' \subseteq Passed
      PROVE  Room'
  BY <1>1, WindowKept
<1>2. CASE UNCHANGED vars
  BY <1>1, <1>2 DEF vars, Passed
<1>3. CASE Tick
  BY <1>1, <1>3 DEF Tick, Passed
<1>4. ASSUME NEW c \in Calls, BeginIssue(c) \/ Deliver(c) \/ \E guess \in 0..Len(codes) : ReadNewest(c, guess)
      PROVE  Room'
  <2>1. /\ UNCHANGED <<now, codes>>
        /\ \A d \in Calls \ {c} : call'[d] = call[d]
        /\ call'[c].step \in {"window", "idle", "attempt"}
    <3>0. call \in [Calls -> CallRows]
      BY DEF TypeOK
    <3>1. CASE BeginIssue(c)
      <4>1. /\ UNCHANGED <<now, codes>>
            /\ call' = [call EXCEPT ![c] = [Idle EXCEPT !.step = "window", !.at = now]]
        BY <3>1 DEF BeginIssue
      <4>2. [Idle EXCEPT !.step = "window", !.at = now].step = "window"
        BY DEF Idle
      <4> QED
        BY <3>0, <4>1, <4>2
    <3>3. CASE Deliver(c)
      BY <3>0, <3>3 DEF Deliver, Refuse, Idle
    <3>2. ASSUME NEW guess \in 0..Len(codes), ReadNewest(c, guess)
          PROVE  /\ UNCHANGED <<now, codes>>
                 /\ \A d \in Calls \ {c} : call'[d] = call[d]
                 /\ call'[c].step = "attempt"
      BY <3>2 DEF ReadNewest, Idle, TypeOK
    <3> QED
      BY <1>4, <3>1, <3>2, <3>3
  <2> QED
    BY <1>1, <2>1 DEF Passed
<1>5. ASSUME NEW c \in Calls, Invalidate(c) PROVE Room'
  <2>1. /\ now' = now /\ DOMAIN codes' = DOMAIN codes
        /\ \A i \in DOMAIN codes : codes'[i] \in {codes[i], [codes[i] EXCEPT !.expires = call[c].at]}
        /\ call[c].step = "invalidate" /\ \A d \in Calls \ {c} : call'[d] = call[d]
    BY <1>5 DEF Invalidate, TypeOK
  <2>2. \A i \in DOMAIN codes : codes'[i].created = codes[i].created
    <3> SUFFICES ASSUME NEW i \in DOMAIN codes PROVE codes'[i].created = codes[i].created
      OBVIOUS
    <3>1. codes[i] \in Codes
      BY Rows
    <3>2. CASE codes'[i] = [codes[i] EXCEPT !.expires = call[c].at]
      BY <3>1, <3>2 DEF Codes
    <3> QED
      BY <2>1, <3>2
  <2>3. Passed' \subseteq Passed
    BY <2>1 DEF Passed
  <2> QED
    BY <1>1, <2>1, <2>2, <2>3
<1>6. ASSUME NEW c \in Calls, DeliveryFails(c) \/ Attempt(c) \/ Consume(c) PROVE Room'
  <2>1. /\ now' = now
        /\ \/ codes' = codes
           \/ codes' = [codes EXCEPT ![call[c].id].expires = 0, ![call[c].id].lockUntil = 0]
           \/ codes' = [codes EXCEPT ![call[c].id].attempts = @ + 1]
           \/ codes' = [codes EXCEPT ![call[c].id].consumed = TRUE]
    BY <1>6 DEF DeliveryFails, Attempt, Consume
  <2>2. DOMAIN codes' = DOMAIN codes /\ \A i \in DOMAIN codes : codes'[i].created = codes[i].created
    <3>1. \A i \in DOMAIN codes : codes[i] \in Codes
      BY Rows
    <3>2. DOMAIN codes' = DOMAIN codes
      BY <2>1
    <3>3. \A i \in DOMAIN codes :
              \/ codes'[i] = codes[i]
              \/ codes'[i] = [codes[i] EXCEPT !.expires = 0, !.lockUntil = 0]
              \/ codes'[i] = [codes[i] EXCEPT !.attempts = @ + 1]
              \/ codes'[i] = [codes[i] EXCEPT !.consumed = TRUE]
      BY <2>1
    <3> QED
      BY <3>1, <3>2, <3>3, Created
  <2>3. /\ \A d \in Calls \ {c} : call'[d] = call[d]
        /\ call'[c].step \in {"idle", "consume"}
    <3>1. call' = [call EXCEPT ![c] = Idle] \/ call' = [call EXCEPT ![c].step = "consume"]
      BY <1>6 DEF DeliveryFails, Attempt, Consume, Refuse, To
    <3>2. CASE call' = [call EXCEPT ![c] = Idle]
      BY <3>2 DEF Idle, TypeOK
    <3>3. CASE call' = [call EXCEPT ![c].step = "consume"]
      BY <3>3 DEF TypeOK, CallRows
    <3> QED
      BY <3>1, <3>2, <3>3
  <2> QED
    BY <1>1, <2>1, <2>2, <2>3 DEF Passed
<1>7. ASSUME NEW c \in Calls, CheckWindow(c) \/ InsertCode(c) PROVE Room'
  BY <1>7, PassKeepsRoom, InsertKeepsRoom
<1> QED
  BY <1>2, <1>3, <1>4, <1>5, <1>6, <1>7 DEF Next

\* No window holds more than one code for every other request beyond the limit,
\* whatever requests check it at once (issue).
THEOREM WindowBoundedThm == Spec => []WindowBounded
<1>1. Room => WindowBounded
  BY DEF Room
<1>2. IInv /\ Room /\ [Next]_vars => Room'
  BY NextIInv, NextRoom
<1> QED
  BY <1>1, <1>2, SpecIInv, InitRoom, PTL DEF Spec
=============================================================================
