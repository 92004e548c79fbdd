--------------------------- MODULE DissectorProofs ---------------------------
(***************************************************************************)
(* Proofs about the dissector, for every stream of a client, however recv()*)
(* cuts it and send() drains it, and for fields of any length.             *)
(***************************************************************************)
EXTENDS Dissector, SequenceTheorems, WellFoundedInduction, TLAPS

-----------------------------------------------------------------------------
(* Induction, with the set of the numbers that have a property in place of *)
(* the property.                                                           *)

LEMMA HasLeast ==
    ASSUME NEW T \in SUBSET Nat, T # {}
    PROVE  \E m \in T : \A x \in T : m <= x
<1>1. PICK m \in T : \A x \in T : ~ (<<x, m>> \in OpToRel(<, Nat))
    BY NatLessThanWellFounded, WFMin
<1>2. \A x \in T : ~ (x < m)
    BY <1>1 DEF OpToRel
<1> QED
    BY <1>2

LEMMA Climb ==
    ASSUME NEW a \in Nat, NEW b \in Nat, NEW S, a \in S,
           \A n \in a .. b - 1 : n \in S => n + 1 \in S
    PROVE  a .. b \subseteq S
<1>1. SUFFICES ASSUME NEW x \in a .. b, x \notin S PROVE FALSE
    OBVIOUS
<1> DEFINE T == {n \in a .. b : n \notin S}
<1>2. T \in SUBSET Nat /\ T # {}
    BY <1>1
<1>3. PICK m \in T : \A n \in T : m <= n
    BY <1>2, HasLeast
<1>4. m \in Nat /\ m # a /\ a <= m /\ m <= b
    BY <1>3
<1>5. m - 1 \in a .. b - 1 /\ m - 1 \notin T
    BY <1>3, <1>4
<1>6. m - 1 \in S
    BY <1>5
<1>7. m - 1 + 1 \in S
    BY <1>5, <1>6
<1> QED
    BY <1>3, <1>4, <1>7

-----------------------------------------------------------------------------
(* What a parse makes of the parser.                                       *)

(* The record behind the character at i, and the list of all of them       *)
After(f, i, first, clears) ==
    IF i = first THEN [p |-> Resumed, at |-> first, logs |-> FALSE]
    ELSE IF f[i - 1].logs \/ f[i - 1].at >= i THEN f[i - 1]
    ELSE LET step == StepPop3(f[i - 1].p, stream[i], clears)
         IN  [p |-> step.p, at |-> i - 1 + step.takes, logs |-> step.logs]

LEMMA ParsesExist ==
    ASSUME NEW first \in Nat, NEW last \in Nat, first <= last, NEW clears
    PROVE  \E f : f = [i \in first .. last |-> After(f, i, first, clears)]
<1> DEFINE S == {n \in Nat : \E f : f = [i \in first .. n |-> After(f, i, first, clears)]}
<1>1. first \in S
    <2> DEFINE f == [i \in {first} |-> [p |-> Resumed, at |-> first, logs |-> FALSE]]
    <2>1. f = [i \in {first} |-> After(f, i, first, clears)]
        BY DEF After
    <2>2. {first} = first .. first
        OBVIOUS
    <2> QED
        BY <2>1, <2>2
<1>2. ASSUME NEW n \in first .. last - 1, n \in S
      PROVE  n + 1 \in S
    <2>1. PICK f : f = [i \in first .. n |-> After(f, i, first, clears)]
        BY <1>2
    <2> DEFINE g == [i \in first .. n + 1 |->
                       IF i = n + 1 THEN After(f, n + 1, first, clears) ELSE f[i]]
    <2>2. n \in Nat /\ n + 1 \in Nat /\ first <= n
        BY <1>2
    <2>3. ASSUME NEW i \in first .. n + 1
          PROVE  g[i] = After(g, i, first, clears)
        <3>1. i \in Nat /\ first <= i /\ i <= n + 1
            BY <2>2
        <3>2. CASE i = first
            <4>1. i \in first .. n /\ i # n + 1
                BY <2>2, <3>2
            <4>2. g[i] = f[i] /\ f[i] = After(f, i, first, clears)
                BY <2>1, <4>1
            <4> HIDE DEF g
            <4> QED
                BY <3>2, <4>2 DEF After
        <3>3. CASE i # first
            <4>1. i - 1 \in first .. n /\ i - 1 # n + 1 /\ i - 1 \in first .. n + 1
                BY <3>1, <3>3
            <4>2. g[i - 1] = f[i - 1]
                BY <4>1
            <4>3. g[i] = After(f, i, first, clears)
                <5>1. CASE i = n + 1
                    BY <5>1
                <5>2. CASE i # n + 1
                    <6>1. i \in first .. n
                        BY <3>1, <5>2
                    <6> QED
                        BY <2>1, <5>2, <6>1
                <5> QED
                    BY <5>1, <5>2
            <4> HIDE DEF g
            <4> QED
                BY <4>2, <4>3 DEF After
        <3> QED
            BY <3>2, <3>3
    <2>4. g = [i \in first .. n + 1 |-> After(g, i, first, clears)]
        BY <2>3
    <2> HIDE DEF g
    <2> QED
        BY <2>2, <2>4
<1>3. first .. last \subseteq S
    <2> HIDE DEF S
    <2> QED
        BY <1>1, <1>2, Climb
<1> QED
    BY <1>3

LEMMA ParseUnfolds ==
    ASSUME NEW first \in Nat, NEW last \in Nat, first <= last, NEW clears
    PROVE  \E f : /\ f = [i \in first .. last |-> After(f, i, first, clears)]
                  /\ Parse(first, last, clears) = f[last]
<1> DEFINE f[i \in first .. last] ==
            IF i = first THEN [p |-> Resumed, at |-> first, logs |-> FALSE]
            ELSE LET before == f[i - 1]
                     step == StepPop3(before.p, stream[i], clears)
                 IN  IF before.logs \/ before.at >= i THEN before
                     ELSE [p |-> step.p, at |-> i - 1 + step.takes, logs |-> step.logs]
<1>1. f = [i \in first .. last |-> After(f, i, first, clears)]
    <2>1. \E g : g = [i \in first .. last |-> After(g, i, first, clears)]
        BY ParsesExist
    <2> QED
        BY <2>1, Zenon DEF After
<1>2. Parse(first, last, clears) = f[last]
    BY Zenon DEF Parse
<1> HIDE DEF f
<1> QED
    BY <1>1, <1>2

(* What a parse satisfies where it begins, and keeps with each character,  *)
(* it satisfies where it ends                                              *)
LEMMA ParseIn ==
    ASSUME NEW first \in Nat, NEW last \in Nat, first <= last, NEW clears, NEW Q,
           [p |-> pop3, at |-> first, logs |-> FALSE] \in Q[first],
           \A i \in first .. last - 1 : \A r \in Q[i] :
              IF r.logs \/ r.at >= i + 1 THEN r \in Q[i + 1]
              ELSE \A step : step = StepPop3(r.p, stream[i + 1], clears) =>
                   [p |-> step.p, at |-> i + step.takes, logs |-> step.logs] \in Q[i + 1]
    PROVE  Parse(first, last, clears) \in Q[last]
<1>1. PICK f : f = [i \in first .. last |-> After(f, i, first, clears)]
               /\ Parse(first, last, clears) = f[last]
    BY ParseUnfolds
<1> DEFINE S == {i \in first .. last : f[i] \in Q[i]}
<1>2. \A i \in first .. last : f[i] = After(f, i, first, clears)
    BY <1>1, Zenon
<1>3. first \in S
    <2>1. first \in first .. last
        OBVIOUS
    <2>2. f[first] = [p |-> pop3, at |-> first, logs |-> FALSE]
        BY <1>2, <2>1 DEF After, Resumed
    <2> QED
        BY <2>1, <2>2
<1>4. ASSUME NEW i \in first .. last - 1, i \in S
      PROVE  i + 1 \in S
    <2>1. i \in Nat /\ i + 1 \in first .. last /\ i + 1 # first /\ (i + 1) - 1 = i
        OBVIOUS
    <2>2. PICK r : r = f[i] /\ r \in Q[i]
        BY <1>4
    <2>3. PICK step : step = StepPop3(r.p, stream[i + 1], clears)
        OBVIOUS
    <2>4. f[i + 1] = IF r.logs \/ r.at >= i + 1 THEN r
                     ELSE [p |-> step.p, at |-> i + step.takes, logs |-> step.logs]
        BY <1>2, <2>1, <2>2, <2>3 DEF After
    <2>5. f[i + 1] \in Q[i + 1]
        BY <2>2, <2>3, <2>4
    <2> QED
        BY <2>1, <2>5
<1>5. first .. last \subseteq S
    <2> HIDE DEF S
    <2> QED
        BY <1>3, <1>4, Climb
<1>6. last \in S
    BY <1>5
<1> QED
    BY <1>1, <1>6

-----------------------------------------------------------------------------
(* A character of a parse, its result written out.                         *)

Ready(p) == p.state = "DONE" /\ p.user_done /\ p.pass_done
Stuck(p) == p.state = "DONE" /\ ~ (p.user_done /\ p.pass_done)

Becomes(q, state, cmd, user, pass) ==
    /\ q \in Pop /\ q.state = state /\ q.cmd = cmd /\ q.user = user /\ q.pass = pass
SameUser(p, q) == q.user_done = p.user_done
SamePass(p, q) == q.pass_done = p.pass_done

(* What parse_pop3 does with a character in each of its states             *)
FromCommand(p, c, q) ==
    IF c # SP THEN Becomes(q, "COMMAND", Extended(p.cmd, c), p.user, p.pass)
    ELSE IF p.cmd = USER THEN Becomes(q, "USER", "", <<>>, p.pass)
    ELSE IF p.cmd = PASS THEN Becomes(q, "PASS", "", p.user, <<>>)
    ELSE Becomes(q, "CHECK", "", p.user, p.pass)
FromCheck(p, c, q) ==
    IF c = CR THEN Becomes(q, "COMMAND", "", p.user, p.pass)
    ELSE Becomes(q, "CHECK", p.cmd, p.user, p.pass)
FromUser(p, c, q) ==
    IF c = CR THEN /\ Becomes(q, "COMMAND", "", p.user, p.pass)
                   /\ Len(p.user) < MaxField => q.user_done
    ELSE Becomes(q, "USER", p.cmd, Kept(p.user, c), p.pass) /\ SameUser(p, q)
FromPass(p, c, q) ==
    IF c = CR THEN /\ Becomes(q, "DONE", p.cmd, p.user, p.pass)
                   /\ Len(p.pass) < MaxField => q.pass_done
    ELSE Becomes(q, "PASS", p.cmd, p.user, Kept(p.pass, c)) /\ SamePass(p, q)
FromDone(p, step) ==
    \/ /\ Ready(p) /\ step.logs = TRUE
       /\ Becomes(step.p, "COMMAND", "", p.user, p.pass)
       /\ SameUser(p, step.p) /\ SamePass(p, step.p)
    \/ Stuck(p) /\ step.logs = FALSE /\ step.p = p

(* A field takes a character                                               *)
LEMMA KeptField ==
    ASSUME NEW field \in Field, NEW c \in STRING
    PROVE  Kept(field, c) \in Field
<1>1. MaxField \in Nat
    BY FieldAssumption
<1>2. field \in Seq(STRING) /\ Len(field) <= MaxField
    BY DEF Field
<1>3. CASE Len(field) < MaxField
    <2>1. Append(field, c) \in Seq(STRING) /\ Len(Append(field, c)) = Len(field) + 1
        BY <1>2, AppendProperties
    <2>2. PICK n \in Nat : n = Len(field)
        BY <1>2
    <2>3. Len(Append(field, c)) <= MaxField
        BY <1>1, <1>3, <2>1, <2>2
    <2> QED
        BY <1>3, <2>1, <2>3 DEF Field, Kept
<1>4. CASE ~ (Len(field) < MaxField)
    BY <1>4 DEF Kept
<1> QED
    BY <1>3, <1>4

LEMMA PopParts ==
    ASSUME NEW p \in Pop
    PROVE  /\ p.state \in {"COMMAND", "CHECK", "USER", "PASS", "DONE"}
           /\ p.cmd \in {"", USER, PASS, "other"} /\ p.user \in Field /\ p.pass \in Field
           /\ p.user_done \in BOOLEAN /\ p.pass_done \in BOOLEAN
           /\ p = [state |-> p.state, cmd |-> p.cmd, user |-> p.user, pass |-> p.pass,
                   user_done |-> p.user_done, pass_done |-> p.pass_done]
BY DEF Pop

LEMMA CommandSteps ==
    ASSUME NEW p \in Pop, p.state = "COMMAND", NEW c \in STRING, NEW clears \in BOOLEAN,
           NEW step, step = StepPop3(p, c, clears)
    PROVE  /\ FromCommand(p, c, step.p) /\ SameUser(p, step.p) /\ SamePass(p, step.p)
           /\ step.takes = 1 /\ step.logs = FALSE
<1>1. PICK cmd, user, pass, ud, pd :
         /\ cmd = p.cmd /\ user = p.user /\ pass = p.pass
         /\ ud = p.user_done /\ pd = p.pass_done
    OBVIOUS
<1>2. /\ cmd \in {"", USER, PASS, "other"} /\ user \in Field /\ pass \in Field
      /\ ud \in BOOLEAN /\ pd \in BOOLEAN
    BY <1>1, PopParts
<1>0. p = [state |-> "COMMAND", cmd |-> cmd, user |-> user, pass |-> pass,
           user_done |-> ud, pass_done |-> pd]
    BY <1>1, PopParts
<1>3. CASE c # SP
    <2>1. PICK more : more = Extended(cmd, c)
        OBVIOUS
    <2>2. more \in {"", USER, PASS, "other"}
        BY <2>1 DEF Extended
    <2>3. PICK q : q = [p EXCEPT !.cmd = Extended(@, c)]
        OBVIOUS
    <2>4. q = [state |-> "COMMAND", cmd |-> more, user |-> user, pass |-> pass,
               user_done |-> ud, pass_done |-> pd]
        BY <1>0, <1>1, <2>1, <2>3
    <2>5. Becomes(q, "COMMAND", more, user, pass) /\ q.user_done = ud /\ q.pass_done = pd
        BY <1>2, <2>2, <2>4 DEF Becomes, Pop
    <2>6. step = Take(q, 1)
        BY <1>3, <2>3 DEF StepPop3
    <2>7. step.p = q /\ step.takes = 1 /\ step.logs = FALSE
        BY <2>6 DEF Take
    <2> QED
        BY <1>1, <1>3, <2>1, <2>5, <2>7 DEF FromCommand, SameUser, SamePass
<1>4. CASE c = SP /\ cmd = USER
    <2>1. PICK q : q = [p EXCEPT !.state = "USER", !.user = Emptied(@), !.cmd = ""]
        OBVIOUS
    <2>2. q = [state |-> "USER", cmd |-> "", user |-> <<>>, pass |-> pass,
               user_done |-> ud, pass_done |-> pd]
        BY <1>0, <2>1 DEF Emptied
    <2>3. <<>> \in Field
        BY FieldAssumption DEF Field
    <2>4. Becomes(q, "USER", "", <<>>, pass) /\ q.user_done = ud /\ q.pass_done = pd
        BY <1>2, <2>2, <2>3 DEF Becomes, Pop
    <2>5. step = Take(q, 1)
        BY <1>1, <1>4, <2>1 DEF StepPop3, USER, PASS
    <2>6. step.p = q /\ step.takes = 1 /\ step.logs = FALSE
        BY <2>5 DEF Take
    <2> QED
        BY <1>1, <1>4, <2>4, <2>6 DEF FromCommand, SameUser, SamePass
<1>5. CASE c = SP /\ cmd = PASS
    <2>1. PICK q : q = [p EXCEPT !.state = "PASS", !.pass = Emptied(@), !.cmd = ""]
        OBVIOUS
    <2>2. q = [state |-> "PASS", cmd |-> "", user |-> user, pass |-> <<>>,
               user_done |-> ud, pass_done |-> pd]
        BY <1>0, <2>1 DEF Emptied
    <2>3. <<>> \in Field
        BY FieldAssumption DEF Field
    <2>4. Becomes(q, "PASS", "", user, <<>>) /\ q.user_done = ud /\ q.pass_done = pd
        BY <1>2, <2>2, <2>3 DEF Becomes, Pop
    <2>5. step = Take(q, 1)
        BY <1>1, <1>5, <2>1 DEF StepPop3, USER, PASS
    <2>6. step.p = q /\ step.takes = 1 /\ step.logs = FALSE
        BY <2>5 DEF Take
    <2> QED
        BY <1>1, <1>5, <2>4, <2>6 DEF FromCommand, SameUser, SamePass, USER, PASS
<1>6. CASE c = SP /\ cmd \notin {USER, PASS}
    <2>1. PICK q : q = [p EXCEPT !.state = "CHECK", !.cmd = ""]
        OBVIOUS
    <2>2. q = [state |-> "CHECK", cmd |-> "", user |-> user, pass |-> pass,
               user_done |-> ud, pass_done |-> pd]
        BY <1>0, <2>1
    <2>3. Becomes(q, "CHECK", "", user, pass) /\ q.user_done = ud /\ q.pass_done = pd
        BY <1>2, <2>2 DEF Becomes, Pop
    <2>4. step = Take(q, 1)
        BY <1>1, <1>6, <2>1 DEF StepPop3
    <2>5. step.p = q /\ step.takes = 1 /\ step.logs = FALSE
        BY <2>4 DEF Take
    <2> QED
        BY <1>1, <1>6, <2>3, <2>5 DEF FromCommand, SameUser, SamePass
<1> QED
    BY <1>3, <1>4, <1>5, <1>6

LEMMA RestartIs ==
    ASSUME NEW p \in Pop, NEW q, q = Restart(p)
    PROVE  /\ Becomes(q, "COMMAND", "", p.user, p.pass)
           /\ q.user_done = p.user_done /\ q.pass_done = p.pass_done
           /\ q = [state |-> "COMMAND", cmd |-> "", user |-> p.user, pass |-> p.pass,
                   user_done |-> p.user_done, pass_done |-> p.pass_done]
<1>1. PICK was, cmd, user, pass, ud, pd :
         /\ was = p.state /\ cmd = p.cmd /\ user = p.user /\ pass = p.pass
         /\ ud = p.user_done /\ pd = p.pass_done
    OBVIOUS
<1>2. user \in Field /\ pass \in Field /\ ud \in BOOLEAN /\ pd \in BOOLEAN
    BY <1>1, PopParts
<1>3. p = [state |-> was, cmd |-> cmd, user |-> user, pass |-> pass,
           user_done |-> ud, pass_done |-> pd]
    BY <1>1, PopParts
<1>4. q = [state |-> "COMMAND", cmd |-> "", user |-> user, pass |-> pass,
           user_done |-> ud, pass_done |-> pd]
    BY <1>3 DEF Restart
<1>5. PICK r : r = q
    OBVIOUS
<1>6. r = [state |-> "COMMAND", cmd |-> "", user |-> user, pass |-> pass,
           user_done |-> ud, pass_done |-> pd]
    BY <1>4, <1>5
<1>7. Becomes(r, "COMMAND", "", user, pass) /\ r.user_done = ud /\ r.pass_done = pd
    BY ONLY <1>2, <1>6 DEF Becomes, Pop
<1> QED
    BY <1>1, <1>4, <1>5, <1>7

LEMMA CheckSteps ==
    ASSUME NEW p \in Pop, p.state = "CHECK", NEW c \in STRING, NEW clears \in BOOLEAN,
           NEW step, step = StepPop3(p, c, clears)
    PROVE  /\ FromCheck(p, c, step.p) /\ SameUser(p, step.p) /\ SamePass(p, step.p)
           /\ step.takes = (IF c = CR THEN 2 ELSE 1) /\ step.logs = FALSE
<1>1. step = IF c = CR THEN Take(Restart(p), 2) ELSE Take(p, 1)
    BY DEF StepPop3
<1>2. CASE c = CR
    <2>1. step.p = Restart(p) /\ step.takes = 2 /\ step.logs = FALSE
        BY <1>1, <1>2 DEF Take
    <2> QED
        BY <1>2, <2>1, RestartIs DEF FromCheck, SameUser, SamePass
<1>3. CASE c # CR
    <2>1. step.p = p /\ step.takes = 1 /\ step.logs = FALSE
        BY <1>1, <1>3 DEF Take
    <2> QED
        BY <1>3, <2>1 DEF FromCheck, SameUser, SamePass, Becomes
<1> QED
    BY <1>2, <1>3

LEMMA UserSteps ==
    ASSUME NEW p \in Pop, p.state = "USER", NEW c \in STRING, NEW clears \in BOOLEAN,
           NEW step, step = StepPop3(p, c, clears)
    PROVE  /\ FromUser(p, c, step.p) /\ SamePass(p, step.p)
           /\ step.takes = (IF c = CR THEN 2 ELSE 1) /\ step.logs = FALSE
<1>1. PICK cmd, user, pass, ud, pd :
         /\ cmd = p.cmd /\ user = p.user /\ pass = p.pass
         /\ ud = p.user_done /\ pd = p.pass_done
    OBVIOUS
<1>2. /\ cmd \in {"", USER, PASS, "other"} /\ user \in Field /\ pass \in Field
      /\ ud \in BOOLEAN /\ pd \in BOOLEAN
    BY <1>1, PopParts
<1>3. p = [state |-> "USER", cmd |-> cmd, user |-> user, pass |-> pass,
           user_done |-> ud, pass_done |-> pd]
    BY <1>1, PopParts
<1>4. CASE c = CR
    <2>1. PICK done \in BOOLEAN : done = Done(user, clears)
        BY DEF Done
    <2>2. PICK r : r = Restart(p)
        OBVIOUS
    <2>3. PICK q : q = [r EXCEPT !.user_done = done]
        OBVIOUS
    <2>4. r = [state |-> "COMMAND", cmd |-> "", user |-> user, pass |-> pass,
               user_done |-> ud, pass_done |-> pd]
        BY <1>1, <2>2, RestartIs
    <2>5. q = [state |-> "COMMAND", cmd |-> "", user |-> user, pass |-> pass,
               user_done |-> done, pass_done |-> pd]
        BY <2>3, <2>4
    <2>6. Becomes(q, "COMMAND", "", user, pass) /\ q.user_done = done /\ q.pass_done = pd
        BY <1>2, <2>1, <2>5 DEF Becomes, Pop
    <2>7. Len(user) < MaxField => done
        BY <2>1 DEF Done
    <2>8. step = Take(q, 2)
        BY <1>1, <1>4, <2>1, <2>2, <2>3 DEF StepPop3
    <2>9. step.p = q /\ step.takes = 2 /\ step.logs = FALSE
        BY <2>8 DEF Take
    <2> QED
        BY <1>1, <1>4, <2>6, <2>7, <2>9 DEF FromUser, SamePass
<1>5. CASE c # CR
    <2>1. PICK more : more = Kept(user, c)
        OBVIOUS
    <2>2. more \in Field
        BY <1>2, <2>1, KeptField
    <2>3. PICK q : q = [p EXCEPT !.user = Kept(@, c)]
        OBVIOUS
    <2>4. q = [state |-> "USER", cmd |-> cmd, user |-> more, pass |-> pass,
               user_done |-> ud, pass_done |-> pd]
        BY <1>1, <1>3, <2>1, <2>3
    <2>5. Becomes(q, "USER", cmd, more, pass) /\ q.user_done = ud /\ q.pass_done = pd
        BY <1>2, <2>2, <2>4 DEF Becomes, Pop
    <2>6. step = Take(q, 1)
        BY <1>5, <2>3 DEF StepPop3
    <2>7. step.p = q /\ step.takes = 1 /\ step.logs = FALSE
        BY <2>6 DEF Take
    <2> QED
        BY <1>1, <1>5, <2>1, <2>5, <2>7 DEF FromUser, SameUser, SamePass
<1> QED
    BY <1>4, <1>5

LEMMA PassSteps ==
    ASSUME NEW p \in Pop, p.state = "PASS", NEW c \in STRING, NEW clears \in BOOLEAN,
           NEW step, step = StepPop3(p, c, clears)
    PROVE  /\ FromPass(p, c, step.p) /\ SameUser(p, step.p)
           /\ step.takes = 1 /\ step.logs = FALSE
<1>1. PICK cmd, user, pass, ud, pd :
         /\ cmd = p.cmd /\ user = p.user /\ pass = p.pass
         /\ ud = p.user_done /\ pd = p.pass_done
    OBVIOUS
<1>2. /\ cmd \in {"", USER, PASS, "other"} /\ user \in Field /\ pass \in Field
      /\ ud \in BOOLEAN /\ pd \in BOOLEAN
    BY <1>1, PopParts
<1>3. p = [state |-> "PASS", cmd |-> cmd, user |-> user, pass |-> pass,
           user_done |-> ud, pass_done |-> pd]
    BY <1>1, PopParts
<1>4. CASE c = CR
    <2>1. PICK done \in BOOLEAN : done = Done(pass, clears)
        BY DEF Done
    <2>2. PICK q : q = [p EXCEPT !.state = "DONE", !.pass_done = done]
        OBVIOUS
    <2>3. q = [state |-> "DONE", cmd |-> cmd, user |-> user, pass |-> pass,
               user_done |-> ud, pass_done |-> done]
        BY <1>3, <2>2
    <2>4. Becomes(q, "DONE", cmd, user, pass) /\ q.user_done = ud /\ q.pass_done = done
        BY <1>2, <2>1, <2>3 DEF Becomes, Pop
    <2>5. Len(pass) < MaxField => done
        BY <2>1 DEF Done
    <2>6. step = Take(q, 1)
        BY <1>1, <1>4, <2>1, <2>2 DEF StepPop3
    <2>7. step.p = q /\ step.takes = 1 /\ step.logs = FALSE
        BY <2>6 DEF Take
    <2> QED
        BY <1>1, <1>4, <2>4, <2>5, <2>7 DEF FromPass, SameUser
<1>5. CASE c # CR
    <2>1. PICK more : more = Kept(pass, c)
        OBVIOUS
    <2>2. more \in Field
        BY <1>2, <2>1, KeptField
    <2>3. PICK q : q = [p EXCEPT !.pass = Kept(@, c)]
        OBVIOUS
    <2>4. q = [state |-> "PASS", cmd |-> cmd, user |-> user, pass |-> more,
               user_done |-> ud, pass_done |-> pd]
        BY <1>1, <1>3, <2>1, <2>3
    <2>5. Becomes(q, "PASS", cmd, user, more) /\ q.user_done = ud /\ q.pass_done = pd
        BY <1>2, <2>2, <2>4 DEF Becomes, Pop
    <2>6. step = Take(q, 1)
        BY <1>5, <2>3 DEF StepPop3
    <2>7. step.p = q /\ step.takes = 1 /\ step.logs = FALSE
        BY <2>6 DEF Take
    <2> QED
        BY <1>1, <1>5, <2>1, <2>5, <2>7 DEF FromPass, SameUser, SamePass
<1> QED
    BY <1>4, <1>5

LEMMA DoneSteps ==
    ASSUME NEW p \in Pop, p.state = "DONE", NEW c \in STRING, NEW clears \in BOOLEAN,
           NEW step, step = StepPop3(p, c, clears)
    PROVE  step.takes = 1 /\ FromDone(p, step)
<1>1. step = IF p.user_done /\ p.pass_done
             THEN [p |-> Restart(p), takes |-> 1, logs |-> TRUE] ELSE Take(p, 1)
    BY DEF StepPop3
<1>2. CASE p.user_done /\ p.pass_done
    <2>1. step.p = Restart(p) /\ step.takes = 1 /\ step.logs = TRUE
        BY <1>1, <1>2
    <2> QED
        BY <1>2, <2>1, RestartIs DEF FromDone, Ready, SameUser, SamePass
<1>3. CASE ~ (p.user_done /\ p.pass_done)
    <2>1. step.p = p /\ step.takes = 1 /\ step.logs = FALSE
        BY <1>1, <1>3 DEF Take
    <2> QED
        BY <1>3, <2>1 DEF FromDone, Stuck
<1> QED
    BY <1>2, <1>3

(* What becomes of the parser with any character: it goes on, skips the LF *)
(* behind a CR, or logs                                                    *)
Outcome(p, c, step) ==
    /\ step.p \in Pop
    /\ \/ step.takes = 1 /\ step.logs = FALSE /\ (Ready(step.p) => c = CR)
       \/ step.takes = 2 /\ step.logs = FALSE /\ ~ Ready(step.p) /\ c = CR
       \/ step.takes = 1 /\ step.logs = TRUE /\ ~ Ready(step.p) /\ Ready(p)

LEMMA StepTyped ==
    ASSUME NEW p \in Pop, NEW c \in STRING, NEW clears \in BOOLEAN,
           NEW step, step = StepPop3(p, c, clears)
    PROVE  Outcome(p, c, step)
<1>1. PICK q : q = step.p
    OBVIOUS
<1>2. CASE p.state = "COMMAND"
    <2>1. FromCommand(p, c, step.p) /\ step.takes = 1 /\ step.logs = FALSE
        BY <1>2, CommandSteps
    <2>2. q \in Pop /\ q.state # "DONE"
        BY <1>1, <2>1 DEF FromCommand, Becomes
    <2>3. ~ Ready(q)
        BY <2>2 DEF Ready
    <2> QED
        BY <1>1, <2>1, <2>2, <2>3, Zenon DEF Outcome
<1>3. CASE p.state = "CHECK"
    <2>1. FromCheck(p, c, step.p) /\ step.takes = (IF c = CR THEN 2 ELSE 1) /\ step.logs = FALSE
        BY <1>3, CheckSteps
    <2>2. q \in Pop /\ q.state # "DONE"
        BY <1>1, <2>1 DEF FromCheck, Becomes
    <2>3. ~ Ready(q)
        BY <2>2 DEF Ready
    <2> QED
        BY <1>1, <2>1, <2>2, <2>3, Zenon DEF Outcome
<1>4. CASE p.state = "USER"
    <2>1. FromUser(p, c, step.p) /\ step.takes = (IF c = CR THEN 2 ELSE 1) /\ step.logs = FALSE
        BY <1>4, UserSteps
    <2>2. q \in Pop /\ q.state # "DONE"
        BY <1>1, <2>1 DEF FromUser, Becomes
    <2>3. ~ Ready(q)
        BY <2>2 DEF Ready
    <2> QED
        BY <1>1, <2>1, <2>2, <2>3, Zenon DEF Outcome
<1>5. CASE p.state = "PASS"
    <2>1. FromPass(p, c, step.p) /\ step.takes = 1 /\ step.logs = FALSE
        BY <1>5, PassSteps
    <2>2. q \in Pop /\ (q.state = "DONE" => c = CR)
        BY <1>1, <2>1 DEF FromPass, Becomes
    <2>3. Ready(q) => c = CR
        BY <2>2 DEF Ready
    <2> QED
        BY <1>1, <2>1, <2>2, <2>3, Zenon DEF Outcome
<1>6. CASE p.state = "DONE"
    <2>1. step.takes = 1 /\ FromDone(p, step)
        BY <1>6, DoneSteps
    <2>2. CASE Ready(p) /\ step.logs = TRUE /\ Becomes(q, "COMMAND", "", p.user, p.pass)
        <3>1. q \in Pop /\ q.state # "DONE"
            BY <2>2 DEF Becomes
        <3>2. ~ Ready(q)
            BY <3>1 DEF Ready
        <3> QED
            BY <1>1, <2>1, <2>2, <3>1, <3>2, Zenon DEF Outcome
    <2>3. CASE Stuck(p) /\ step.logs = FALSE /\ q = p
        <3>1. ~ Ready(q)
            BY <2>3 DEF Ready, Stuck
        <3> QED
            BY <1>1, <2>1, <2>3, <3>1, Zenon DEF Outcome
    <2> QED
        BY <1>1, <2>1, <2>2, <2>3, Zenon DEF FromDone
<1> QED
    BY <1>2, <1>3, <1>4, <1>5, <1>6, PopParts

-----------------------------------------------------------------------------
(* What a parse comes to: with pairs of a parser and the number of         *)
(* characters behind it, where it goes on from (G) and where a login ends  *)
(* it (E).                                                                 *)

Goes(G, r, i) ==
    \E q \in Pop, n \in {i, i + 1} :
        <<q, n>> \in G /\ r = [p |-> q, at |-> n, logs |-> FALSE]
Ended(E, r, first, i) ==
    \E q \in Pop, n \in first + 1 .. i :
        <<q, n>> \in E /\ r = [p |-> q, at |-> n, logs |-> TRUE]

Keeps(G, E, q, n, clears) ==
    \A step : step = StepPop3(q, stream[n + 1], clears) =>
        /\ step.logs = FALSE => <<step.p, n + step.takes>> \in G
        /\ step.logs = TRUE => <<step.p, n + 1>> \in E

LEMMA ParseReaches ==
    ASSUME NEW first \in Nat, NEW last \in Nat, first <= last, NEW clears \in BOOLEAN,
           stream \in Seq(STRING), last <= Len(stream), pop3 \in Pop,
           NEW G, NEW E, <<pop3, first>> \in G,
           \A n \in first .. last - 1, q \in Pop : <<q, n>> \in G => Keeps(G, E, q, n, clears)
    PROVE  \E r : /\ r = Parse(first, last, clears)
                  /\ Goes(G, r, last) \/ Ended(E, r, first, last)
<1> DEFINE Parsed == [p : Pop, at : Nat, logs : BOOLEAN]
           Q == [i \in first .. last |->
                   {r \in Parsed : Goes(G, r, i) \/ Ended(E, r, first, i)}]
<1>1. [p |-> pop3, at |-> first, logs |-> FALSE] \in Q[first]
    <2>1. PICK r : r = [p |-> pop3, at |-> first, logs |-> FALSE]
        OBVIOUS
    <2>2. r \in Parsed
        BY <2>1
    <2>3. Goes(G, r, first)
        BY <2>1 DEF Goes
    <2>4. first \in first .. last
        OBVIOUS
    <2> QED
        BY <2>1, <2>2, <2>3, <2>4
<1>2. ASSUME NEW i \in first .. last - 1, NEW r \in Q[i]
      PROVE  IF r.logs \/ r.at >= i + 1 THEN r \in Q[i + 1]
             ELSE \A step : step = StepPop3(r.p, stream[i + 1], clears) =>
                  [p |-> step.p, at |-> i + step.takes, logs |-> step.logs] \in Q[i + 1]
    <2>1. i \in first .. last /\ i + 1 \in first .. last /\ i \in Nat /\ i + 1 \in 1 .. Len(stream)
        OBVIOUS
    <2>2. r \in Parsed /\ (Goes(G, r, i) \/ Ended(E, r, first, i))
        BY <2>1
    <2> HIDE DEF Parsed
    <2>3. \A s : s \in Q[i + 1] <=>
                 s \in Parsed /\ (Goes(G, s, i + 1) \/ Ended(E, s, first, i + 1))
        BY <2>1
    <2> HIDE DEF Q
    <2>4. CASE Ended(E, r, first, i)
        <3>1. PICK q \in Pop, n \in first + 1 .. i :
                 <<q, n>> \in E /\ r = [p |-> q, at |-> n, logs |-> TRUE]
            BY <2>4 DEF Ended
        <3>2. r.logs = TRUE
            BY <3>1
        <3>3. n \in first + 1 .. i + 1
            BY <2>1
        <3>4. Ended(E, r, first, i + 1)
            BY <3>1, <3>3 DEF Ended
        <3> QED
            BY <2>2, <2>3, <3>2, <3>4
    <2>5. CASE Goes(G, r, i)
        <3>1. PICK q \in Pop, n \in {i, i + 1} :
                 <<q, n>> \in G /\ r = [p |-> q, at |-> n, logs |-> FALSE]
            BY <2>5 DEF Goes
        <3>2. r.logs = FALSE /\ r.at = n /\ r.p = q
            BY <3>1
        <3>3. CASE n = i + 1
            <4>1. Goes(G, r, i + 1)
                BY <2>1, <3>1, <3>3 DEF Goes
            <4>2. r.at >= i + 1
                BY <2>1, <3>2, <3>3
            <4> QED
                BY <2>2, <2>3, <4>1, <4>2
        <3>4. CASE n = i
            <4>1. ~ (r.logs \/ r.at >= i + 1)
                BY <2>1, <3>2, <3>4
            <4>2. ASSUME NEW step, step = StepPop3(r.p, stream[i + 1], clears)
                  PROVE  [p |-> step.p, at |-> i + step.takes, logs |-> step.logs] \in Q[i + 1]
                <5>1. PICK c \in STRING : c = stream[i + 1]
                    BY <2>1, ElementOfSeq
                <5>2. step = StepPop3(q, c, clears)
                    BY <3>2, <4>2, <5>1
                <5>0. Outcome(q, c, step)
                    BY <5>2, StepTyped
                <5>3. /\ step.p \in Pop
                      /\ \/ step.takes = 1 /\ step.logs = FALSE
                         \/ step.takes = 2 /\ step.logs = FALSE
                         \/ step.takes = 1 /\ step.logs = TRUE
                    BY <5>0, Zenon DEF Outcome
                <5>4. /\ step.logs = FALSE => <<step.p, i + step.takes>> \in G
                      /\ step.logs = TRUE => <<step.p, i + 1>> \in E
                    <6>1. Keeps(G, E, q, i, clears)
                        BY <2>1, <3>1, <3>4
                    <6> QED
                        BY <5>1, <5>2, <6>1 DEF Keeps
                <5>5. PICK s : s = [p |-> step.p, at |-> i + step.takes, logs |-> step.logs]
                    OBVIOUS
                <5>6. PICK next : next = step.p
                    OBVIOUS
                <5>7. CASE step.takes = 1 /\ step.logs = FALSE
                    <6>1. s = [p |-> next, at |-> i + 1, logs |-> FALSE]
                        BY <5>5, <5>6, <5>7
                    <6>2. s \in Parsed
                        BY <2>1, <5>3, <5>6, <6>1 DEF Parsed
                    <6>3. Goes(G, s, i + 1)
                        BY <5>3, <5>4, <5>6, <5>7, <6>1 DEF Goes
                    <6> QED
                        BY <2>3, <5>5, <6>2, <6>3
                <5>8. CASE step.takes = 2 /\ step.logs = FALSE
                    <6>1. s = [p |-> next, at |-> i + 2, logs |-> FALSE]
                        BY <5>5, <5>6, <5>8
                    <6>2. s \in Parsed
                        BY <2>1, <5>3, <5>6, <6>1 DEF Parsed
                    <6>3. i + 2 = (i + 1) + 1
                        BY <2>1
                    <6>4. Goes(G, s, i + 1)
                        BY <5>3, <5>4, <5>6, <5>8, <6>1, <6>3 DEF Goes
                    <6> QED
                        BY <2>3, <5>5, <6>2, <6>4
                <5>9. CASE step.takes = 1 /\ step.logs = TRUE
                    <6>1. s = [p |-> next, at |-> i + 1, logs |-> TRUE]
                        BY <5>5, <5>6, <5>9
                    <6>2. s \in Parsed
                        BY <2>1, <5>3, <5>6, <6>1 DEF Parsed
                    <6>3. i + 1 \in first + 1 .. i + 1
                        BY <2>1
                    <6>4. Ended(E, s, first, i + 1)
                        BY <5>3, <5>4, <5>6, <5>9, <6>1, <6>3 DEF Ended
                    <6> QED
                        BY <2>3, <5>5, <6>2, <6>4
                <5> QED
                    BY <5>3, <5>7, <5>8, <5>9, Zenon
            <4> QED
                BY <4>1, <4>2
        <3> QED
            BY <3>1, <3>3, <3>4
    <2> QED
        BY <2>2, <2>4, <2>5
<1>3. PICK r : r = Parse(first, last, clears)
    OBVIOUS
<1>4. r \in Q[last]
    <2> HIDE DEF Q
    <2> QED
        BY <1>1, <1>2, <1>3, ParseIn
<1>5. last \in first .. last
    OBVIOUS
<1> QED
    BY <1>3, <1>4, <1>5

-----------------------------------------------------------------------------
(* Type correctness                                                        *)

LEMMA StreamTyped ==
    ASSUME stream \in Streams
    PROVE  stream \in Seq(STRING) /\ Len(stream) \in Nat
BY StreamsAssumption

LEMMA ParseTyped ==
    ASSUME NEW first \in Nat, NEW last \in Nat, first <= last, NEW clears \in BOOLEAN,
           stream \in Seq(STRING), last <= Len(stream), pop3 \in Pop
    PROVE  \E q \in Pop, n \in first .. last + 1 :
              \/ Parse(first, last, clears) = [p |-> q, at |-> n, logs |-> FALSE]
              \/ Parse(first, last, clears) = [p |-> q, at |-> n, logs |-> TRUE]
<1> DEFINE G == Pop \X Nat
<1>1. <<pop3, first>> \in G
    OBVIOUS
<1>2. ASSUME NEW n \in first .. last - 1, NEW q \in Pop
      PROVE  Keeps(G, G, q, n, clears)
    <2>1. SUFFICES ASSUME NEW step, step = StepPop3(q, stream[n + 1], clears)
                   PROVE  <<step.p, n + step.takes>> \in G /\ <<step.p, n + 1>> \in G
        BY DEF Keeps
    <2>0. n \in Nat /\ n + 1 \in 1 .. Len(stream)
        OBVIOUS
    <2>2. PICK c \in STRING : c = stream[n + 1]
        BY <2>0, ElementOfSeq
    <2>3. Outcome(q, c, step)
        BY <2>1, <2>2, StepTyped
    <2>4. step.p \in Pop /\ (step.takes = 1 \/ step.takes = 2)
        BY <2>3, Zenon DEF Outcome
    <2>5. n + 1 \in Nat /\ n + step.takes \in Nat
        BY <2>0, <2>4
    <2> QED
        BY <2>4, <2>5
<1>3. PICK r : /\ r = Parse(first, last, clears)
               /\ Goes(G, r, last) \/ Ended(G, r, first, last)
    <2> HIDE DEF G
    <2> QED
        BY <1>1, <1>2, ParseReaches
<1>4. CASE Goes(G, r, last)
    <2>1. PICK q \in Pop, n \in {last, last + 1} : r = [p |-> q, at |-> n, logs |-> FALSE]
        BY <1>4 DEF Goes
    <2>2. n \in first .. last + 1
        OBVIOUS
    <2> QED
        BY <1>3, <2>1, <2>2
<1>5. CASE Ended(G, r, first, last)
    <2>1. PICK q \in Pop, n \in first + 1 .. last : r = [p |-> q, at |-> n, logs |-> TRUE]
        BY <1>5 DEF Ended
    <2>2. n \in first .. last + 1
        OBVIOUS
    <2> QED
        BY <1>3, <2>1, <2>2
<1> QED
    BY <1>3, <1>4, <1>5

LEMMA WiderSeq ==
    ASSUME NEW S, NEW T, S \subseteq T, NEW seq \in Seq(S)
    PROVE  seq \in Seq(T)
OBVIOUS

LEMMA LoggedTyped ==
    ASSUME NEW p \in Pop
    PROVE  Logged(p) \in Shown \X Shown
<1> DEFINE Symbol == STRING \cup {"TRUE"}
<1>1. p.user \in Seq(STRING) /\ p.pass \in Seq(STRING)
    BY PopParts DEF Field
<1>2. STRING \subseteq Symbol /\ "TRUE" \in Symbol
    OBVIOUS
<1>3. Shown = Seq(Symbol)
    BY DEF Shown
<1> HIDE DEF Symbol
<1>4. p.user \in Seq(Symbol) /\ p.pass \in Seq(Symbol)
    BY <1>1, <1>2, WiderSeq
<1>5. ASSUME NEW field \in Seq(Symbol), NEW behind \in Seq(Symbol)
      PROVE  Printed(field, behind) \in Seq(Symbol)
    <2>1. <<"TRUE">> \in Seq(Symbol)
        BY <1>2
    <2>2. field \o <<"TRUE">> \in Seq(Symbol)
        BY <2>1, ConcatProperties
    <2>3. field \o <<"TRUE">> \o behind \in Seq(Symbol)
        BY <2>2, ConcatProperties
    <2> QED
        BY <2>3 DEF Printed
<1>6. <<>> \in Seq(Symbol)
    OBVIOUS
<1>7. Printed(p.pass, <<>>) \in Seq(Symbol)
    BY <1>4, <1>5, <1>6
<1>8. Printed(p.user, Printed(p.pass, <<>>)) \in Seq(Symbol)
    BY <1>4, <1>5, <1>7
<1> QED
    BY <1>3, <1>7, <1>8, Zenon DEF Logged

LEMMA FreshIsPop == Fresh \in Pop
<1>1. <<>> \in Field
    BY FieldAssumption DEF Field
<1> QED
    BY <1>1 DEF Fresh, Pop

(* What CopyRead does, its parse given a name                              *)
Read(n, clears, r) ==
    /\ n \in 1 .. Len(stream) - pos /\ clears \in BOOLEAN
    /\ pos' = pos + n
    /\ r = Parse(drained, pos + n, clears)
    /\ disector => /\ pop3' = r.p /\ at' = r.at
                   /\ log' = IF r.logs THEN Append(log, Logged(r.p)) ELSE log
    /\ ~ disector => pop3' = pop3 /\ at' = at /\ log' = log

LEMMA CopyReads ==
    ASSUME CopyRead
    PROVE  \E n, clears, r : Read(n, clears, r)
<1>1. PICK n \in 1 .. Len(stream) - pos, clears \in BOOLEAN :
          /\ pos' = pos + n
          /\ LET read == Parse(drained, pos', clears)
             IN  IF disector
                 THEN /\ pop3' = read.p
                      /\ at' = read.at
                      /\ log' = IF read.logs THEN Append(log, Logged(read.p))
                                ELSE log
                 ELSE UNCHANGED <<pop3, at, log>>
    BY DEF CopyRead
<1>2. PICK r : r = Parse(drained, pos + n, clears)
    OBVIOUS
<1>3. disector => /\ pop3' = r.p /\ at' = r.at
                  /\ log' = IF r.logs THEN Append(log, Logged(r.p)) ELSE log
    BY <1>1, <1>2, Zenon
<1>4. ~ disector => pop3' = pop3 /\ at' = at /\ log' = log
    BY <1>1, Zenon
<1>5. Read(n, clears, r)
    BY <1>1, <1>2, <1>3, <1>4, Zenon DEF Read
<1> QED
    BY <1>5

LEMMA InitTyped == Init => TypeOK
<1> SUFFICES ASSUME Init PROVE TypeOK
    OBVIOUS
<1>1. stream \in Seq(STRING) /\ Len(stream) \in Nat
    BY StreamTyped DEF Init
<1>2. pos \in 0 .. Len(stream) /\ drained \in 0 .. pos /\ at \in 0 .. pos + 1
    BY <1>1, FieldAssumption DEF Init
<1>3. chunks \in 0 .. MaxChunks
    BY FieldAssumption DEF Init
<1>4. polite \in BOOLEAN /\ seamless \in BOOLEAN
    BY DEF Init
<1> QED
    BY <1>2, <1>3, <1>4, FreshIsPop DEF Init, TypeOK

LEMMA ReadTyped ==
    ASSUME TypeOK, CopyRead
    PROVE  TypeOK'
<1>1. stream \in Seq(STRING) /\ Len(stream) \in Nat
    BY StreamTyped DEF TypeOK
<1>2. pos \in 0 .. Len(stream) /\ drained \in 0 .. pos /\ at \in 0 .. pos + 1 /\ pop3 \in Pop
      /\ log \in Seq(Shown \X Shown)
    BY DEF TypeOK
<1>3. PICK n, clears, r : Read(n, clears, r)
    BY CopyReads
<1>4. n \in 1 .. Len(stream) - pos /\ clears \in BOOLEAN
    BY <1>3 DEF Read
<1>5. PICK last \in Nat : last = pos + n /\ drained \in Nat /\ drained <= last /\ last <= Len(stream)
    BY <1>1, <1>2, <1>4
<1>6. r = Parse(drained, last, clears)
    BY <1>3, <1>5 DEF Read
<1>7. PICK q \in Pop, m \in drained .. last + 1 :
         \/ r = [p |-> q, at |-> m, logs |-> FALSE]
         \/ r = [p |-> q, at |-> m, logs |-> TRUE]
    <2>1. PICK first \in Nat : first = drained
        BY <1>5
    <2>2. first <= last /\ last <= Len(stream)
        BY <1>5, <2>1
    <2>3. clears \in BOOLEAN /\ pop3 \in Pop /\ stream \in Seq(STRING)
        BY <1>1, <1>2, <1>4
    <2>4. \E q \in Pop, m \in first .. last + 1 :
              \/ Parse(first, last, clears) = [p |-> q, at |-> m, logs |-> FALSE]
              \/ Parse(first, last, clears) = [p |-> q, at |-> m, logs |-> TRUE]
        BY <2>2, <2>3, ParseTyped
    <2> QED
        BY <1>6, <2>1, <2>4
<1>8. pos' = last /\ pos' \in 0 .. Len(stream) /\ drained \in 0 .. pos'
    BY <1>1, <1>2, <1>3, <1>4, <1>5 DEF Read
<1>9. at' \in 0 .. pos' + 1 /\ pop3' \in Pop /\ log' \in Seq(Shown \X Shown)
    <2>1. CASE disector
        <3>1. r.p = q /\ r.at = m
            BY <1>7
        <3>2. at' = m /\ pop3' = q
            BY <1>3, <2>1, <3>1 DEF Read
        <3>3. log' = log \/ log' = Append(log, Logged(q))
            BY <1>3, <2>1, <3>1 DEF Read
        <3>4. Append(log, Logged(q)) \in Seq(Shown \X Shown)
            BY <1>2, LoggedTyped, AppendProperties
        <3> QED
            <4>1. at' \in 0 .. pos' + 1
                BY <1>5, <1>8, <3>2
            <4>2. pop3' \in Pop
                BY <3>2
            <4>3. log' \in Seq(Shown \X Shown)
                BY <1>2, <3>3, <3>4
            <4> QED
                BY <4>1, <4>2, <4>3
    <2>2. CASE ~ disector
        <3>1. at' = at /\ pop3' = pop3 /\ log' = log
            BY <1>3, <2>2, Zenon DEF Read
        <3> QED
            BY <1>2, <1>4, <1>5, <1>8, <3>1
    <2> QED
        BY <2>1, <2>2
<1>10. chunks' \in 0 .. MaxChunks
    BY FieldAssumption DEF CopyRead, TypeOK
<1>11. seamless' \in BOOLEAN /\ polite' \in BOOLEAN
    BY DEF CopyRead
<1>12. stream' = stream /\ drained' = drained /\ disector' = disector
    BY DEF CopyRead
<1> QED
    BY <1>8, <1>9, <1>10, <1>11, <1>12 DEF TypeOK

(* What copy_write and the monitoring leave as it is                       *)
Still == /\ stream' = stream /\ pos' = pos /\ pop3' = pop3 /\ log' = log /\ at' = at
         /\ seamless' = seamless /\ polite' = polite

LEMMA NextTyped ==
    ASSUME TypeOK, [Next]_vars
    PROVE  TypeOK' /\ (CopyRead \/ Still)
<1>1. CASE CopyRead
    BY <1>1, ReadTyped
<1>2. CASE CopyWrite
    <2>1. PICK m \in 1 .. pos - drained : drained' = drained + m
        BY <1>2 DEF CopyWrite
    <2>2. pos \in 0 .. Len(stream) /\ drained \in 0 .. pos /\ Len(stream) \in Nat
        BY StreamTyped DEF TypeOK
    <2>3. drained' \in 0 .. pos
        BY <2>1, <2>2
    <2> QED
        BY <1>2, <2>3 DEF CopyWrite, TypeOK, Still
<1>3. CASE SetDisector
    BY <1>3 DEF SetDisector, TypeOK, Still
<1>4. CASE UNCHANGED vars
    BY <1>4 DEF vars, TypeOK, Still
<1> QED
    BY <1>1, <1>2, <1>3, <1>4 DEF Next

(* The fields of struct pop3_st stay within their arrays, and the parse    *)
(* stays within what recv() has returned, but for the LF behind a CR that  *)
(* it skips unseen (copy_st.c:88): whatever the client sends.              *)
THEOREM DissectorTypeCorrect == Spec => []TypeOK
<1>1. TypeOK /\ [Next]_vars => TypeOK'
    BY NextTyped
<1> QED
    BY <1>1, InitTyped, PTL DEF Spec

-----------------------------------------------------------------------------
(* The parser behind the first k characters, in terms of the stream: which *)
(* line it is in, what it has kept of an argument, and whose end it knows. *)

(* A line that begins at i and has not ended at k *)
Line(i, k) == LineAt(i) /\ i <= k /\ k <= Len(stream) /\ \A j \in i .. k : stream[j] # CR

(* The argument of the word at u ends before the CR at e *)
Ends(u, e) ==
    /\ e \in u + 2 .. Len(stream) /\ stream[e] = CR
    /\ \A j \in u .. e - 1 : stream[j] # CR
NoUser(i, j) == \A u \in i .. j : ~ Command(u, USER)

(* A field with the first n characters of the argument of the word at u, as *)
(* far as it holds them                                                     *)
Holds(field, u, n) ==
    /\ field \in Field /\ Len(field) = (IF n < MaxField THEN n ELSE MaxField)
    /\ \A j \in 1 .. Len(field) : field[j] = stream[u + 1 + j]

(* The user field before a line that begins at i: the argument of the last *)
(* USER, and whether it holds its end                                      *)
HoldsUser(p, u, e) ==
    Ends(u, e) /\ Holds(p.user, u, e - u - 2) /\ (e - u - 2 < MaxField => p.user_done)
UserAt(p, i) ==
    \/ ~ p.user_done /\ NoUser(1, i - 1)
    \/ \E u \in 1 .. i - 1 :
          Command(u, USER) /\ NoUser(u + 1, i - 1) /\ \E e \in DOMAIN stream : HoldsUser(p, u, e)

Blocked == \E i \in DOMAIN stream : Command(i, PASS) /\ ~ Fits(i)

AtStart(p, k) ==
    /\ p.state = "COMMAND" /\ p.cmd = "" /\ UserAt(p, k + 1)
    /\ k = 0 \/ k > Len(stream) \/ stream[k] = LF
AtWord(p, k) ==
    /\ p.state = "COMMAND" /\ LineAt(k) /\ UserAt(p, k)
    /\ stream[k] # SP /\ p.cmd = Extended("", stream[k])
AtCheck(p, i, k) ==
    /\ p.state = "CHECK" /\ Line(i, k) /\ UserAt(p, i)
    /\ stream[i] # USER /\ stream[i] # PASS
AtUser(p, i, k) ==
    /\ p.state = "USER" /\ Line(i, k) /\ i < k
    /\ stream[i] = USER /\ Holds(p.user, i, k - i - 1)
AtPass(p, i, k) ==
    /\ p.state = "PASS" /\ Line(i, k) /\ i < k /\ UserAt(p, i)
    /\ stream[i] = PASS /\ Holds(p.pass, i, k - i - 1)
AtDone(p, i, k) ==
    /\ p.state = "DONE" /\ Line(i, k - 1) /\ UserAt(p, i) /\ stream[i] = PASS
    /\ Ends(i, k) /\ Holds(p.pass, i, k - i - 2) /\ (k - i - 2 < MaxField => p.pass_done)

PopAt(p, k) ==
    \/ AtStart(p, k)
    \/ AtWord(p, k)
    \/ \E i \in 1 .. k : AtCheck(p, i, k) \/ AtUser(p, i, k) \/ AtPass(p, i, k) \/ AtDone(p, i, k)
    \/ Stuck(p) /\ Blocked

(* The inductive invariant *)
Polite ==
    polite /\ Lines =>
        /\ seamless /\ at = pos /\ ~ Ready(pop3)
        /\ pos = 0 \/ stream[pos] = LF
InStep == seamless /\ Lines /\ Arguments => PopAt(pop3, at) /\ (Blocked \/ Lists(log, Spoken(at)))
IInv == TypeOK /\ Polite /\ InStep /\ LogsOnlyWhatWasSent

-----------------------------------------------------------------------------
(* A client that speaks line by line: the parse of a line ends where the   *)
(* line does, and leaves nothing behind it that could log.                 *)

LEMMA ParseLine ==
    ASSUME NEW first \in Nat, NEW last \in Nat, first < last, NEW clears \in BOOLEAN,
           stream \in Seq(STRING), last <= Len(stream), pop3 \in Pop, ~ Ready(pop3), Lines,
           \A i \in first + 1 .. last : stream[i] = LF <=> i = last
    PROVE  \E q \in Pop :
              /\ ~ Ready(q)
              /\ \/ Parse(first, last, clears) = [p |-> q, at |-> last, logs |-> FALSE]
                 \/ Parse(first, last, clears) = [p |-> q, at |-> last, logs |-> TRUE]
<1> DEFINE G == {g \in Pop \X Nat :
                   /\ Ready(g[1]) => g[2] > first /\ stream[g[2]] = CR
                   /\ g[2] > last => stream[last] = CR}
           E == {g \in Pop \X Nat : ~ Ready(g[1]) /\ g[2] > first + 1 /\ stream[g[2] - 1] = CR}
<1>0. \A q \in Pop, n \in Nat :
         /\ <<q, n>> \in G <=> /\ Ready(q) => n > first /\ stream[n] = CR
                               /\ n > last => stream[last] = CR
         /\ <<q, n>> \in E <=> ~ Ready(q) /\ n > first + 1 /\ stream[n - 1] = CR
    OBVIOUS
<1>1. <<pop3, first>> \in G
    BY <1>0
<1> HIDE DEF G, E
<1>2. ASSUME NEW n \in first .. last - 1, NEW q \in Pop, <<q, n>> \in G
      PROVE  Keeps(G, E, q, n, clears)
    <2>1. n \in Nat /\ n + 1 \in 1 .. Len(stream) /\ first <= n /\ n + 1 <= last
        OBVIOUS
    <2>2. PICK c \in STRING : c = stream[n + 1]
        BY <2>1, ElementOfSeq
    <2>3. SUFFICES ASSUME NEW step, step = StepPop3(q, c, clears)
                   PROVE  /\ step.logs = FALSE => <<step.p, n + step.takes>> \in G
                          /\ step.logs = TRUE => <<step.p, n + 1>> \in E
        BY <2>2 DEF Keeps
    <2>4. Outcome(q, c, step)
        BY <2>3, StepTyped
    <2>5. step.p \in Pop
        BY <2>4, Zenon DEF Outcome
    <2>6. CASE step.takes = 1 /\ step.logs = FALSE /\ (Ready(step.p) => c = CR)
        <3>1. n + 1 \in Nat /\ n + 1 > first /\ ~ (n + 1 > last)
            BY <2>1
        <3>2. <<step.p, n + 1>> \in G
            BY <1>0, <2>2, <2>5, <2>6, <3>1
        <3> QED
            BY <2>6, <3>2
    <2>7. CASE step.takes = 2 /\ step.logs = FALSE /\ ~ Ready(step.p) /\ c = CR
        <3>1. n + 2 \in Nat /\ (n + 2 > last => n + 1 = last)
            BY <2>1
        <3>2. n + 2 > last => stream[last] = CR
            BY <2>2, <2>7, <3>1
        <3>3. <<step.p, n + 2>> \in G
            BY <1>0, <2>5, <2>7, <3>1, <3>2
        <3> QED
            BY <2>7, <3>3
    <2>8. CASE step.takes = 1 /\ step.logs = TRUE /\ ~ Ready(step.p) /\ Ready(q)
        <3>1. n > first /\ stream[n] = CR
            BY <1>0, <1>2, <2>1, <2>8
        <3>2. n + 1 \in Nat /\ n + 1 > first + 1 /\ (n + 1) - 1 = n
            BY <2>1, <3>1
        <3>3. <<step.p, n + 1>> \in E
            BY <1>0, <2>5, <2>8, <3>1, <3>2
        <3> QED
            BY <2>8, <3>3
    <2> QED
        BY <2>4, <2>6, <2>7, <2>8, Zenon DEF Outcome
<1>3. PICK r : /\ r = Parse(first, last, clears)
               /\ Goes(G, r, last) \/ Ended(E, r, first, last)
    BY <1>1, <1>2, ParseReaches
<1>4. stream[last] = LF /\ last \in 1 .. Len(stream)
    OBVIOUS
<1>5. CASE Goes(G, r, last)
    <2>1. PICK q \in Pop, n \in {last, last + 1} :
             <<q, n>> \in G /\ r = [p |-> q, at |-> n, logs |-> FALSE]
        BY <1>5 DEF Goes
    <2>2. n = last
        <3>1. n # last => n > last /\ n \in Nat
            OBVIOUS
        <3> QED
            BY <1>0, <1>4, <2>1, <3>1 DEF CR, LF
    <2>3. ~ Ready(q)
        BY <1>0, <1>4, <2>1, <2>2 DEF CR, LF
    <2> QED
        BY <1>3, <2>1, <2>2, <2>3
<1>6. CASE Ended(E, r, first, last)
    <2>1. PICK q \in Pop, n \in first + 1 .. last :
             <<q, n>> \in E /\ r = [p |-> q, at |-> n, logs |-> TRUE]
        BY <1>6 DEF Ended
    <2>2. n \in Nat /\ ~ Ready(q) /\ n > first + 1 /\ stream[n - 1] = CR
        BY <1>0, <2>1
    <2>3. n - 1 \in 1 .. Len(stream) - 1 /\ (n - 1) + 1 = n
        BY <2>2
    <2>4. stream[n] = LF
        BY <2>2, <2>3 DEF Lines
    <2>5. n = last
        BY <2>2, <2>4
    <2> QED
        BY <1>3, <2>1, <2>2, <2>5
<1> QED
    BY <1>3, <1>5, <1>6

-----------------------------------------------------------------------------
(* Lines of the stream                                                     *)

LEMMA Positions ==
    ASSUME stream \in Seq(STRING)
    PROVE  Len(stream) \in Nat /\ DOMAIN stream = 1 .. Len(stream)
BY LenProperties

(* No line begins within another, nor before the LF behind its CR          *)
LEMMA NoLines ==
    ASSUME stream \in Seq(STRING), Lines, NEW i \in Nat, NEW k \in Nat, Line(i, k),
           NEW j \in i + 1 .. k + 2
    PROVE  ~ LineAt(j)
<1>1. SUFFICES ASSUME LineAt(j) PROVE FALSE
    OBVIOUS
<1>2. Len(stream) \in Nat /\ DOMAIN stream = 1 .. Len(stream)
    BY Positions
<1>3. i >= 1 /\ i <= k /\ k <= Len(stream) /\ LineAt(i) /\ \A n \in i .. k : stream[n] # CR
    BY <1>2 DEF Line, LineAt
<1>4. j \in 1 .. Len(stream) /\ j - 1 \in 1 .. Len(stream) /\ stream[j - 1] = LF
    BY <1>1, <1>2, <1>3 DEF LineAt
<1>5. j - 1 > 1 /\ stream[(j - 1) - 1] = CR
    BY <1>2, <1>4 DEF Lines
<1>6. (j - 1) - 1 \notin i .. k
    BY <1>3, <1>5
<1>7. j = i + 1
    BY <1>2, <1>3, <1>5, <1>6
<1>8. i # 1 /\ stream[i - 1] = CR
    BY <1>5, <1>7
<1>9. stream[i - 1] = LF
    BY <1>3, <1>8 DEF LineAt
<1> QED
    BY <1>8, <1>9 DEF CR, LF

LEMMA NoUserInLine ==
    ASSUME stream \in Seq(STRING), Lines, NEW i \in Nat, NEW k \in Nat, Line(i, k)
    PROVE  /\ NoUser(i + 1, k + 2)
           /\ stream[i] # USER => NoUser(i, k + 2)
<1>1. \A j \in i + 1 .. k + 2 : ~ Command(j, USER)
    BY NoLines DEF Command
<1>2. ASSUME stream[i] # USER, NEW j \in i .. k + 2
      PROVE  ~ Command(j, USER)
    <2>1. CASE j = i
        BY <1>2, <2>1 DEF Command
    <2>2. CASE j # i
        <3>1. j \in i + 1 .. k + 2
            BY <2>2
        <3> QED
            BY <1>1, <3>1
    <2> QED
        BY <2>1, <2>2
<1> QED
    BY <1>1, <1>2 DEF NoUser

(* What the parser knows of the user stays so as long as no USER comes     *)
LEMMA UserKept ==
    ASSUME NEW i \in Nat, NEW m \in Nat, i <= m, NEW p, NEW q,
           UserAt(p, i), NoUser(i, m - 1), q.user = p.user, SameUser(p, q)
    PROVE  UserAt(q, m)
<1>1. CASE ~ p.user_done /\ NoUser(1, i - 1)
    <2>1. NoUser(1, m - 1)
        BY <1>1 DEF NoUser
    <2>2. ~ q.user_done
        BY <1>1 DEF SameUser
    <2> QED
        BY <2>1, <2>2 DEF UserAt
<1>2. CASE \E u \in 1 .. i - 1 :
              Command(u, USER) /\ NoUser(u + 1, i - 1) /\ \E e \in DOMAIN stream : HoldsUser(p, u, e)
    <2>1. PICK u \in 1 .. i - 1 :
              Command(u, USER) /\ NoUser(u + 1, i - 1) /\ \E e \in DOMAIN stream : HoldsUser(p, u, e)
        BY <1>2
    <2>2. PICK e \in DOMAIN stream : HoldsUser(p, u, e)
        BY <2>1
    <2>3. HoldsUser(q, u, e)
        BY <2>2 DEF HoldsUser, SameUser
    <2>4. u \in 1 .. m - 1
        OBVIOUS
    <2>5. NoUser(u + 1, m - 1)
        BY <2>1 DEF NoUser
    <2> QED
        BY <2>1, <2>3, <2>4, <2>5 DEF UserAt
<1> QED
    BY <1>1, <1>2 DEF UserAt

-----------------------------------------------------------------------------
(* What has been spoken                                                    *)

LEMMA SpokenSame ==
    ASSUME stream \in Seq(STRING), NEW k \in Nat, k = 0 \/ stream[k] # CR
    PROVE  Spoken(k + 1) = Spoken(k)
<1>1. Len(stream) \in Nat /\ DOMAIN stream = 1 .. Len(stream)
    BY Positions
<1>2. ASSUME NEW i \in Passwords
      PROVE  (\E e \in i .. (k + 1) - 1 : stream[e] = CR)
             <=> (\E e \in i .. k - 1 : stream[e] = CR)
    <2>1. i \in Nat /\ i >= 1
        BY <1>1 DEF Passwords
    <2>2. ASSUME NEW e \in i .. (k + 1) - 1, stream[e] = CR
          PROVE  e \in i .. k - 1
        BY <2>1, <2>2
    <2>3. i .. k - 1 \subseteq i .. (k + 1) - 1
        BY <2>1
    <2> QED
        BY <2>2, <2>3
<1> QED
    BY <1>2 DEF Spoken

LEMMA NewSpoken ==
    ASSUME stream \in Seq(STRING), Lines, NEW i \in Nat, NEW k \in Nat, Line(i, k),
           stream[k + 1] = CR
    PROVE  /\ Spoken(k + 1) = Spoken(k)
           /\ i \notin Passwords => Spoken(k + 2) = Spoken(k)
           /\ i \in Passwords => Spoken(k + 2) = Spoken(k + 1) \cup {i}
           /\ \A s \in Spoken(k + 1) : s < i
<1>1. Len(stream) \in Nat /\ DOMAIN stream = 1 .. Len(stream)
    BY Positions
<1>2. i >= 1 /\ i <= k /\ k <= Len(stream) /\ LineAt(i) /\ \A n \in i .. k : stream[n] # CR
    BY <1>1 DEF Line, LineAt
<1>3. Spoken(k + 1) = Spoken(k)
    BY <1>2, SpokenSame
<1>4. ASSUME NEW s \in Passwords
      PROVE  s \in Nat /\ s >= 1 /\ LineAt(s) /\ stream[s] = PASS
    BY <1>1, <1>4 DEF Passwords, Command
<1>5. ASSUME NEW s \in Spoken(k + 1)
      PROVE  s < i
    <2>1. s \in Passwords
        BY DEF Spoken
    <2>2. PICK e \in s .. (k + 1) - 1 : stream[e] = CR
        BY DEF Spoken
    <2>3. e \notin i .. k
        BY <1>2, <2>2
    <2> QED
        BY <1>2, <1>4, <2>1, <2>2, <2>3
<1>6. ASSUME NEW s \in Spoken(k + 2), s # i
      PROVE  s \in Spoken(k + 1)
    <2>1. s \in Passwords
        BY DEF Spoken
    <2>2. s \in Nat /\ s >= 1 /\ LineAt(s) /\ stream[s] = PASS
        BY <1>4, <2>1
    <2>3. PICK e \in s .. (k + 2) - 1 : stream[e] = CR
        BY <1>6 DEF Spoken
    <2>4. ~ (s > i)
        <3>1. s > i => s \in i + 1 .. k + 2
            BY <1>2, <2>2, <2>3
        <3> QED
            BY <2>2, <3>1, NoLines
    <2>5. s < i /\ i # 1
        BY <1>6, <2>2, <2>4
    <2>6. stream[i - 1] = LF
        BY <1>2, <2>5 DEF LineAt
    <2>7. i - 1 > 1 /\ stream[(i - 1) - 1] = CR
        <3>1. i - 1 \in DOMAIN stream
            BY <1>1, <1>2, <2>5
        <3> QED
            BY <2>6, <3>1 DEF Lines
    <2>8. s # i - 1
        BY <2>2, <2>6 DEF LF, PASS
    <2>9. (i - 1) - 1 \in s .. (k + 1) - 1
        BY <1>2, <2>2, <2>5, <2>8
    <2> QED
        BY <2>1, <2>7, <2>9 DEF Spoken
<1>7. Spoken(k + 1) \subseteq Spoken(k + 2)
    <2>1. ASSUME NEW s \in Passwords
          PROVE  s .. (k + 1) - 1 \subseteq s .. (k + 2) - 1
        BY <1>4
    <2> QED
        BY <2>1 DEF Spoken
<1>8. i \in Passwords => i \in Spoken(k + 2)
    <2>1. k + 1 \in i .. (k + 2) - 1
        BY <1>2
    <2> QED
        BY <2>1 DEF Spoken
<1>9. i \in Spoken(k + 2) => i \in Passwords
    BY DEF Spoken
<1>10. Spoken(k + 2) \subseteq Spoken(k + 1) \cup {i}
    BY <1>6
<1>11. i \notin Passwords => Spoken(k + 2) = Spoken(k + 1)
    BY <1>7, <1>9, <1>10
<1>12. i \in Passwords => Spoken(k + 2) = Spoken(k + 1) \cup {i}
    BY <1>7, <1>8, <1>10
<1> QED
    BY <1>3, <1>5, <1>11, <1>12

-----------------------------------------------------------------------------
(* Fields and arguments                                                    *)

LEMMA ClippedIs ==
    ASSUME NEW S, NEW seq \in Seq(S), NEW field \in Seq(S), NEW n \in Nat, n = Len(seq),
           Len(field) = (IF n < MaxField THEN n ELSE MaxField),
           \A j \in 1 .. Len(field) : field[j] = seq[j]
    PROVE  Clipped(seq) = field
<1>1. PICK m \in Nat : m = Len(field) /\ m = (IF n < MaxField THEN n ELSE MaxField)
    BY FieldAssumption
<1>2. Clipped(seq) = SubSeq(seq, 1, m)
    BY <1>1 DEF Clipped
<1>3. m <= n
    BY <1>1, FieldAssumption
<1>4. \A i \in 1 .. m : seq[i] \in S
    BY <1>3, ElementOfSeq
<1>5. PICK part : part = SubSeq(seq, 1, m)
    OBVIOUS
<1>6. /\ part \in Seq(S) /\ Len(part) = IF 1 <= m THEN m - 1 + 1 ELSE 0
      /\ \A i \in 1 .. m - 1 + 1 : part[i] = seq[1 + i - 1]
    BY <1>4, <1>5, SubSeqProperties
<1>7. Len(part) = m
    BY <1>6
<1>8. \A i \in 1 .. m : part[i] = field[i]
    <2>1. ASSUME NEW i \in 1 .. m PROVE part[i] = field[i]
        <3>1. i \in 1 .. m - 1 + 1 /\ 1 + i - 1 = i
            OBVIOUS
        <3>2. part[i] = seq[i]
            BY <1>6, <3>1
        <3> QED
            BY <1>1, <3>2
    <2> QED
        BY <2>1
<1>9. part = field
    BY <1>1, <1>6, <1>7, <1>8, SeqEqual
<1> QED
    BY <1>2, <1>5, <1>9

LEMMA EndOfIs ==
    ASSUME stream \in Seq(STRING), NEW u \in Nat, NEW e, Ends(u, e)
    PROVE  EndOf(u) = e /\ e \in Nat /\ e - u - 2 \in Nat /\ e <= Len(stream)
<1>1. Len(stream) \in Nat
    BY Positions
<1>2. e \in Nat /\ u + 2 <= e /\ e <= Len(stream) /\ stream[e] = CR
      /\ \A j \in u .. e - 1 : stream[j] # CR
    BY <1>1 DEF Ends
<1>3. e \in u .. Len(stream)
    BY <1>1, <1>2
<1>4. ASSUME NEW d \in u .. Len(stream), stream[d] = CR, \A j \in u .. d - 1 : stream[j] # CR
      PROVE  d = e
    <2>1. d \notin u .. e - 1
        BY <1>2, <1>4
    <2>2. e \notin u .. d - 1
        BY <1>2, <1>4
    <2> QED
        BY <1>1, <1>2, <2>1, <2>2
<1>5. EndOf(u) = e
    BY <1>2, <1>3, <1>4 DEF EndOf
<1> QED
    BY <1>2, <1>5

LEMMA ArgumentIs ==
    ASSUME stream \in Seq(STRING), NEW u \in Nat, NEW e, Ends(u, e),
           NEW field, Holds(field, u, e - u - 2)
    PROVE  /\ Len(Argument(u)) = e - u - 2
           /\ Clipped(Argument(u)) = field
           /\ e - u - 2 < MaxField => Argument(u) = field
<1>1. EndOf(u) = e /\ e \in Nat /\ e - u - 2 \in Nat /\ e <= Len(stream) /\ Len(stream) \in Nat
    BY EndOfIs, Positions
<1>2. PICK n \in Nat : n = e - u - 2
    BY <1>1
<1>3. PICK part : part = SubSeq(stream, u + 2, e - 1)
    OBVIOUS
<1>4. Argument(u) = part
    BY <1>1, <1>3 DEF Argument
<1>5. \A i \in u + 2 .. e - 1 : stream[i] \in STRING
    <2>1. ASSUME NEW i \in u + 2 .. e - 1 PROVE i \in 1 .. Len(stream)
        BY <1>1
    <2> QED
        BY <2>1, ElementOfSeq
<1>6. u + 2 \in Int /\ e - 1 \in Int /\ (e - 1) - (u + 2) + 1 = n
    BY <1>1, <1>2
<1>7. /\ part \in Seq(STRING)
      /\ Len(part) = IF u + 2 <= e - 1 THEN (e - 1) - (u + 2) + 1 ELSE 0
      /\ \A i \in 1 .. (e - 1) - (u + 2) + 1 : part[i] = stream[(u + 2) + i - 1]
    BY <1>3, <1>5, <1>6, SubSeqProperties
<1>8. Len(part) = n
    BY <1>1, <1>2, <1>7
<1>9. \A i \in 1 .. n : part[i] = stream[u + 1 + i]
    <2>1. ASSUME NEW i \in 1 .. n PROVE part[i] = stream[u + 1 + i]
        <3>1. i \in 1 .. (e - 1) - (u + 2) + 1 /\ (u + 2) + i - 1 = u + 1 + i
            BY <1>6
        <3> QED
            BY <1>7, <3>1
    <2> QED
        BY <2>1
<1>10. PICK m \in Nat : m = Len(field) /\ m = (IF n < MaxField THEN n ELSE MaxField)
    BY <1>2, FieldAssumption DEF Holds
<1>11. field \in Seq(STRING)
    BY DEF Holds, Field
<1>12. \A j \in 1 .. m : field[j] = part[j]
    <2>1. ASSUME NEW j \in 1 .. m PROVE field[j] = part[j]
        <3>1. j \in 1 .. n
            BY <1>10, FieldAssumption
        <3>2. field[j] = stream[u + 1 + j]
            BY <1>10 DEF Holds
        <3> QED
            BY <1>9, <3>1, <3>2
    <2> QED
        BY <2>1
<1>13. Clipped(part) = field
    BY <1>7, <1>8, <1>10, <1>11, <1>12, ClippedIs
<1>14. n < MaxField => part = field
    <2>1. SUFFICES ASSUME n < MaxField PROVE part = field
        OBVIOUS
    <2>2. m = n
        BY <1>10, <2>1
    <2> QED
        BY <1>7, <1>8, <1>10, <1>11, <1>12, <2>2, SeqEqual
<1> QED
    BY <1>2, <1>4, <1>8, <1>13, <1>14

LEMMA PrintedIs ==
    ASSUME NEW field \in Field, NEW behind \in Shown
    PROVE  /\ Printed(field, behind) \in Shown
           /\ Clipped(Printed(field, behind)) = field
           /\ Len(field) < MaxField => Printed(field, behind) = field
<1> DEFINE Symbol == STRING \cup {"TRUE"}
<1>1. field \in Seq(STRING) /\ Len(field) <= MaxField
    BY DEF Field
<1>2. STRING \subseteq Symbol /\ "TRUE" \in Symbol
    OBVIOUS
<1>3. Shown = Seq(Symbol)
    BY DEF Shown
<1> HIDE DEF Symbol
<1>4. field \in Seq(Symbol)
    BY <1>1, <1>2, WiderSeq
<1>5. PICK m \in Nat : m = Len(field) /\ m <= MaxField
    BY <1>1, <1>4
<1>6. CASE m < MaxField
    <2>1. Printed(field, behind) = field
        BY <1>5, <1>6 DEF Printed
    <2>2. Clipped(field) = field
        BY <1>4, <1>5, <1>6, ClippedIs
    <2> QED
        BY <1>3, <1>4, <2>1, <2>2
<1>7. CASE ~ (m < MaxField)
    <2>1. m = MaxField
        BY <1>5, <1>7, FieldAssumption
    <2>2. PICK one : one = field \o <<"TRUE">>
        OBVIOUS
    <2>3. <<"TRUE">> \in Seq(Symbol) /\ Len(<<"TRUE">>) = 1
        BY <1>2
    <2>4. /\ one \in Seq(Symbol) /\ Len(one) = m + 1
          /\ \A i \in 1 .. m + 1 : one[i] = IF i <= m THEN field[i] ELSE <<"TRUE">>[i - m]
        BY <1>4, <1>5, <2>2, <2>3, ConcatProperties
    <2>5. PICK all : all = one \o behind
        OBVIOUS
    <2>6. behind \in Seq(Symbol)
        BY <1>3
    <2>7. PICK k \in Nat : k = Len(behind)
        BY <2>6
    <2>8. /\ all \in Seq(Symbol) /\ Len(all) = m + 1 + k
          /\ \A i \in 1 .. m + 1 + k : all[i] = IF i <= m + 1 THEN one[i] ELSE behind[i - (m + 1)]
        <3>1. PICK w \in Nat : w = m + 1 /\ w = Len(one)
            BY <2>4
        <3>2. one \in Seq(Symbol)
            BY <2>4
        <3>4. /\ one \o behind \in Seq(Symbol) /\ Len(one \o behind) = Len(one) + Len(behind)
              /\ \A i \in 1 .. Len(one) + Len(behind) : (one \o behind)[i] =
                     IF i <= Len(one) THEN one[i] ELSE behind[i - Len(one)]
            BY <2>6, <3>2, ConcatProperties
        <3>3. /\ all \in Seq(Symbol) /\ Len(all) = w + k
              /\ \A i \in 1 .. w + k : all[i] = IF i <= w THEN one[i] ELSE behind[i - w]
            BY <2>5, <2>7, <3>1, <3>4
        <3> QED
            BY <3>1, <3>3
    <2>9. \A j \in 1 .. m : field[j] = all[j]
        <3>1. ASSUME NEW j \in 1 .. m PROVE field[j] = all[j]
            <4>1. j \in 1 .. m + 1 /\ j \in 1 .. m + 1 + k /\ j <= m /\ j <= m + 1
                OBVIOUS
            <4>2. one[j] = field[j]
                BY <2>4, <4>1
            <4>3. all[j] = one[j]
                BY <2>8, <4>1
            <4> QED
                BY <4>2, <4>3
        <3> QED
            BY <3>1
    <2>10. PICK n \in Nat : n = m + 1 + k /\ m = (IF n < MaxField THEN n ELSE MaxField)
        BY <2>1, <2>7
    <2>11. Clipped(all) = field
        BY <1>4, <1>5, <2>8, <2>9, <2>10, ClippedIs
    <2>12. Printed(field, behind) = all
        BY <1>5, <1>7, <2>2, <2>5 DEF Printed
    <2> QED
        BY <1>3, <1>5, <1>7, <2>8, <2>11, <2>12
<1> QED
    BY <1>6, <1>7

-----------------------------------------------------------------------------
(* The login behind a password                                             *)

LEMMA LastUserIs ==
    ASSUME stream \in Seq(STRING), NEW i \in Nat, Command(i, PASS),
           NEW u \in 1 .. i - 1, Command(u, USER), NoUser(u + 1, i - 1)
    PROVE  LastUser(i) = u /\ i \in Passwords
<1>1. i \in DOMAIN stream /\ stream[i] = PASS
    BY DEF Command, LineAt
<1>2. \A j \in u + 1 .. i : ~ Command(j, USER)
    <2>1. ASSUME NEW j \in u + 1 .. i PROVE ~ Command(j, USER)
        <3>1. CASE j = i
            BY <1>1, <3>1 DEF Command, USER, PASS
        <3>2. CASE j # i
            <4>1. j \in u + 1 .. i - 1
                BY <3>2
            <4> QED
                BY <4>1 DEF NoUser
        <3> QED
            BY <3>1, <3>2
    <2> QED
        BY <2>1
<1>3. u \in 1 .. i
    OBVIOUS
<1>4. ASSUME NEW v \in 1 .. i, Command(v, USER), \A j \in v + 1 .. i : ~ Command(j, USER)
      PROVE  v = u
    <2>1. v \notin u + 1 .. i /\ u \notin v + 1 .. i
        BY <1>2, <1>4
    <2> QED
        BY <2>1
<1>5. LastUser(i) = u
    BY <1>2, <1>3, <1>4 DEF LastUser
<1>6. i \in Passwords
    BY <1>1, <1>3 DEF Passwords
<1> QED
    BY <1>5, <1>6

LEMMA NotAPassword ==
    ASSUME NEW i \in Nat, stream[i] = PASS, NoUser(1, i - 1)
    PROVE  i \notin Passwords
<1>1. SUFFICES ASSUME NEW u \in 1 .. i, Command(u, USER) PROVE FALSE
    BY DEF Passwords
<1>2. u # i
    BY <1>1 DEF Command, USER, PASS
<1>3. u \in 1 .. i - 1
    BY <1>2
<1> QED
    BY <1>1, <1>3 DEF NoUser

Agree(login, i) ==
    /\ i \in Passwords
    /\ \A field \in {1, 2} : Clipped(login[field]) = Clipped(LoginAt(i)[field])

LEMMA LoginIs ==
    ASSUME stream \in Seq(STRING), NEW i \in Nat, NEW k \in Nat, NEW p \in Pop, AtDone(p, i, k)
    PROVE  /\ Fits(i) => Ready(p) /\ Logged(p) = LoginAt(i)
           /\ Ready(p) => Agree(Logged(p), i)
<1>1. /\ p.state = "DONE" /\ stream[i] = PASS /\ Command(i, PASS) /\ Ends(i, k)
      /\ Holds(p.pass, i, k - i - 2) /\ (k - i - 2 < MaxField => p.pass_done)
    BY DEF AtDone, Line, Command
<1>2. CASE ~ p.user_done /\ NoUser(1, i - 1)
    <2>1. i \notin Passwords
        BY <1>1, <1>2, NotAPassword
    <2>2. ~ Ready(p)
        BY <1>2 DEF Ready
    <2>3. ~ Fits(i)
        BY <2>1 DEF Fits
    <2> QED
        BY <2>2, <2>3
<1>3. CASE \E u \in 1 .. i - 1 :
              Command(u, USER) /\ NoUser(u + 1, i - 1) /\ \E e \in DOMAIN stream : HoldsUser(p, u, e)
    <2>1. PICK u \in 1 .. i - 1 :
              Command(u, USER) /\ NoUser(u + 1, i - 1) /\ \E e \in DOMAIN stream : HoldsUser(p, u, e)
        BY <1>3
    <2>2. PICK e \in DOMAIN stream :
             Ends(u, e) /\ Holds(p.user, u, e - u - 2) /\ (e - u - 2 < MaxField => p.user_done)
        BY <2>1 DEF HoldsUser
    <2>3. LastUser(i) = u /\ i \in Passwords
        BY <1>1, <2>1, LastUserIs
    <2>4. PICK name, word : name = Argument(u) /\ word = Argument(i)
        OBVIOUS
    <2>5. LoginAt(i) = <<name, word>>
        BY <2>3, <2>4 DEF LoginAt
    <2>6. u \in Nat
        OBVIOUS
    <2>7. /\ Len(name) = e - u - 2 /\ Clipped(name) = p.user
          /\ e - u - 2 < MaxField => name = p.user
        BY <2>2, <2>4, <2>6, ArgumentIs
    <2>8. /\ Len(word) = k - i - 2 /\ Clipped(word) = p.pass
          /\ k - i - 2 < MaxField => word = p.pass
        BY <1>1, <2>4, ArgumentIs
    <2>9. p.user \in Field /\ p.pass \in Field /\ <<>> \in Shown
        <3>1. <<>> \in Shown
            BY EmptySeq DEF Shown
        <3> QED
            BY <3>1, PopParts
    <2>10. PICK pass : pass = Printed(p.pass, <<>>)
        OBVIOUS
    <2>11. /\ pass \in Shown /\ Clipped(pass) = p.pass
           /\ Len(p.pass) < MaxField => pass = p.pass
        BY <2>9, <2>10, PrintedIs
    <2>12. PICK user : user = Printed(p.user, pass)
        OBVIOUS
    <2>13. /\ Clipped(user) = p.user
           /\ Len(p.user) < MaxField => user = p.user
        BY <2>9, <2>11, <2>12, PrintedIs
    <2>14. Logged(p) = <<user, pass>>
        BY <2>10, <2>12, Zenon DEF Logged
    <2>15. Agree(Logged(p), i)
        BY <2>3, <2>5, <2>7, <2>8, <2>11, <2>13, <2>14 DEF Agree
    <2>16. ASSUME Fits(i)
           PROVE  Ready(p) /\ Logged(p) = LoginAt(i)
        <3>1. Len(name) < MaxField /\ Len(word) < MaxField
            BY <2>5, <2>16 DEF Fits
        <3>2. p.user_done /\ p.pass_done /\ name = p.user /\ word = p.pass
            BY <1>1, <2>2, <2>7, <2>8, <3>1
        <3>3. Ready(p)
            BY <1>1, <3>2 DEF Ready
        <3>4. user = name /\ pass = word
            BY <2>11, <2>13, <3>1, <3>2
        <3> QED
            BY <2>5, <2>14, <3>3, <3>4
    <2> QED
        BY <2>15, <2>16
<1> QED
    BY <1>2, <1>3 DEF AtDone, UserAt

-----------------------------------------------------------------------------
(* Each character takes the parser from what it is behind the first k to   *)
(* what it is behind it, and no other password than the one it logs has    *)
(* been spoken since.                                                      *)

LEMMA HoldsNone ==
    ASSUME NEW u \in Nat
    PROVE  Holds(<<>>, u, 0)
BY FieldAssumption DEF Holds, Field

LEMMA HoldsMore ==
    ASSUME NEW u \in Nat, NEW n \in Nat, NEW field, Holds(field, u, n),
           NEW c \in STRING, c = stream[u + n + 2]
    PROVE  Holds(Kept(field, c), u, n + 1)
<1>1. PICK m \in Nat : m = Len(field) /\ m = (IF n < MaxField THEN n ELSE MaxField)
    BY FieldAssumption DEF Holds
<1>2. field \in Seq(STRING) /\ field \in Field /\ Kept(field, c) \in Field
    BY KeptField DEF Holds, Field
<1>3. \A j \in 1 .. m : field[j] = stream[u + 1 + j]
    BY <1>1 DEF Holds
<1>4. CASE m < MaxField
    <2>1. m = n
        BY <1>1, <1>4, FieldAssumption
    <2>2. PICK more : more = Append(field, c)
        OBVIOUS
    <2>3. /\ Len(Append(field, c)) = Len(field) + 1
          /\ \A i \in 1 .. Len(field) : Append(field, c)[i] = field[i]
          /\ Append(field, c)[Len(field) + 1] = c
        BY <1>2, AppendProperties
    <2>4. Len(more) = m + 1 /\ (\A i \in 1 .. m : more[i] = field[i]) /\ more[m + 1] = c
        BY <1>1, <2>2, <2>3
    <2>5. \A j \in 1 .. m + 1 : more[j] = stream[u + 1 + j]
        <3>1. ASSUME NEW j \in 1 .. m + 1 PROVE more[j] = stream[u + 1 + j]
            <4>1. CASE j = m + 1
                <5>1. u + 1 + j = u + n + 2
                    BY <2>1, <4>1
                <5> QED
                    BY <2>4, <4>1, <5>1
            <4>2. CASE j # m + 1
                <5>1. j \in 1 .. m
                    BY <4>2
                <5> QED
                    BY <1>3, <2>4, <5>1
            <4> QED
                BY <4>1, <4>2
        <3> QED
            BY <3>1
    <2>6. Kept(field, c) = more
        BY <1>1, <1>4, <2>2 DEF Kept
    <2>7. m + 1 = IF n + 1 < MaxField THEN n + 1 ELSE MaxField
        <3>1. MaxField \in Nat
            BY FieldAssumption
        <3> QED
            BY <1>4, <2>1, <3>1
    <2> QED
        BY <1>2, <2>4, <2>5, <2>6, <2>7 DEF Holds
<1>5. CASE ~ (m < MaxField)
    <2>1. Kept(field, c) = field
        BY <1>1, <1>5 DEF Kept
    <2>2. m = IF n + 1 < MaxField THEN n + 1 ELSE MaxField
        BY <1>1, <1>5, FieldAssumption
    <2> QED
        BY <1>1, <1>2, <1>3, <2>1, <2>2 DEF Holds
<1> QED
    BY <1>4, <1>5

LEMMA UserSame ==
    ASSUME NEW i, NEW p, NEW q, UserAt(p, i), q.user = p.user, SameUser(p, q)
    PROVE  UserAt(q, i)
BY DEF UserAt, HoldsUser, SameUser

LEMMA StartStep ==
    ASSUME stream \in Seq(STRING), NEW k \in Nat, k + 1 <= Len(stream), NEW p, NEW q,
           AtStart(p, k), FromCommand(p, stream[k + 1], q), SameUser(p, q)
    PROVE  PopAt(q, k + 1) /\ Spoken(k + 1) = Spoken(k)
<1>1. Len(stream) \in Nat /\ DOMAIN stream = 1 .. Len(stream)
    BY Positions
<1>2. LineAt(k + 1) /\ (k = 0 \/ stream[k] # CR)
    <2>0. k = 0 \/ k > Len(stream) \/ stream[k] = LF
        BY DEF AtStart
    <2>1. k = 0 \/ stream[k] = LF
        BY <1>1, <2>0
    <2>2. k + 1 \in DOMAIN stream /\ (k + 1) - 1 = k /\ (k = 0 => k + 1 = 1)
        BY <1>1
    <2>3. LineAt(k + 1)
        BY <2>1, <2>2 DEF LineAt
    <2> QED
        BY <2>1, <2>3 DEF CR, LF
<1>3. p.cmd = "" /\ UserAt(p, k + 1)
    BY DEF AtStart
<1>4. CASE stream[k + 1] # SP
    <2>1. q.state = "COMMAND" /\ q.cmd = Extended("", stream[k + 1]) /\ q.user = p.user
        BY <1>3, <1>4 DEF FromCommand, Becomes
    <2>3. UserAt(q, k + 1)
        BY <1>3, <2>1, UserSame
    <2>4. AtWord(q, k + 1)
        BY <1>2, <1>4, <2>1, <2>3 DEF AtWord
    <2> QED
        BY <1>2, <2>4, SpokenSame DEF PopAt
<1>5. CASE stream[k + 1] = SP
    <2>1. q.state = "CHECK" /\ q.user = p.user
        BY <1>3, <1>5 DEF FromCommand, Becomes, USER, PASS
    <2>3. UserAt(q, k + 1)
        BY <1>3, <2>1, UserSame
    <2>4. Line(k + 1, k + 1)
        <3>1. PICK j \in Nat : j = k + 1 /\ j <= Len(stream)
            OBVIOUS
        <3>2. stream[j] # CR /\ LineAt(j)
            BY <1>2, <1>5, <3>1 DEF SP, CR
        <3>3. \A n \in j .. j : stream[n] # CR
            BY <3>2
        <3>4. Line(j, j)
            BY <3>1, <3>2, <3>3 DEF Line
        <3> QED
            BY <3>1, <3>4
    <2>5. AtCheck(q, k + 1, k + 1)
        BY <1>5, <2>1, <2>3, <2>4 DEF AtCheck, SP, USER, PASS
    <2>6. k + 1 \in 1 .. k + 1
        OBVIOUS
    <2> QED
        BY <1>2, <2>5, <2>6, SpokenSame DEF PopAt
<1> QED
    BY <1>4, <1>5

LEMMA WordStep ==
    ASSUME stream \in Seq(STRING), Lines, Arguments,
           NEW k \in Nat, k + 1 <= Len(stream), NEW p, NEW q,
           AtWord(p, k), FromCommand(p, stream[k + 1], q), SameUser(p, q)
    PROVE  PopAt(q, k + 1) /\ Spoken(k + 1) = Spoken(k)
<1>1. Len(stream) \in Nat /\ DOMAIN stream = 1 .. Len(stream)
    BY Positions
<1>2. /\ p.state = "COMMAND" /\ LineAt(k) /\ UserAt(p, k)
      /\ stream[k] # SP /\ p.cmd = Extended("", stream[k])
    BY DEF AtWord
<1>3. k \in 1 .. Len(stream) - 1
    <2>1. k \in DOMAIN stream
        BY <1>2 DEF LineAt
    <2> QED
        BY <1>1, <2>1
<1>4. stream[k + 1] = SP
    BY <1>2, <1>3 DEF Arguments
<1>5. stream[k] # CR
    BY <1>3, <1>4 DEF Lines, SP, LF
<1>6. Spoken(k + 1) = Spoken(k)
    BY <1>5, SpokenSame
<1>7. Line(k, k + 1) /\ k \in 1 .. k + 1 /\ k < k + 1 /\ (k + 1) - k - 1 = 0
    <2>1. \A j \in k .. k + 1 : stream[j] # CR
        <3>1. ASSUME NEW j \in k .. k + 1 PROVE j = k \/ j = k + 1
            OBVIOUS
        <3> QED
            BY <1>4, <1>5, <3>1 DEF SP, CR
    <2>2. k <= k + 1 /\ k \in 1 .. k + 1 /\ k < k + 1 /\ (k + 1) - k - 1 = 0
        BY <1>3
    <2>3. Line(k, k + 1)
        BY <1>2, <2>1, <2>2 DEF Line
    <2> QED
        BY <2>2, <2>3
<1>9. CASE stream[k] = USER
    <2>1. p.cmd = USER
        BY <1>2, <1>9 DEF Extended
    <2>2. q.state = "USER" /\ q.user = <<>>
        BY <1>4, <2>1 DEF FromCommand, Becomes
    <2>3. AtUser(q, k, k + 1)
        BY <1>7, <1>9, <2>2, HoldsNone DEF AtUser
    <2> QED
        BY <1>6, <1>7, <2>3 DEF PopAt
<1>10. CASE stream[k] = PASS
    <2>1. p.cmd = PASS /\ p.cmd # USER
        BY <1>2, <1>10 DEF Extended, USER, PASS
    <2>2. q.state = "PASS" /\ q.pass = <<>> /\ q.user = p.user
        BY <1>4, <2>1 DEF FromCommand, Becomes
    <2>3. UserAt(q, k)
        BY <1>2, <2>2, UserSame
    <2>4. AtPass(q, k, k + 1)
        BY <1>7, <1>10, <2>2, <2>3, HoldsNone DEF AtPass
    <2> QED
        BY <1>6, <1>7, <2>4 DEF PopAt
<1>11. CASE stream[k] # USER /\ stream[k] # PASS
    <2>1. p.cmd = "other"
        BY <1>2, <1>11 DEF Extended
    <2>2. q.state = "CHECK" /\ q.user = p.user
        BY <1>4, <2>1 DEF FromCommand, Becomes, USER, PASS
    <2>3. UserAt(q, k)
        BY <1>2, <2>2, UserSame
    <2>4. AtCheck(q, k, k + 1)
        BY <1>7, <1>11, <2>2, <2>3 DEF AtCheck
    <2> QED
        BY <1>6, <1>7, <2>4 DEF PopAt
<1> QED
    BY <1>9, <1>10, <1>11

LEMMA LineGoesOn ==
    ASSUME stream \in Seq(STRING), NEW i \in Nat, NEW k \in Nat, Line(i, k),
           k + 1 <= Len(stream), stream[k + 1] # CR
    PROVE  Line(i, k + 1) /\ Spoken(k + 1) = Spoken(k)
<1>1. LineAt(i) /\ i <= k /\ \A j \in i .. k : stream[j] # CR
    BY DEF Line
<1>2. ASSUME NEW j \in i .. k + 1 PROVE stream[j] # CR
    <2>1. j = k + 1 \/ j \in i .. k
        OBVIOUS
    <2> QED
        BY <1>1, <2>1
<1>3. i <= k + 1 /\ k \in i .. k
    BY <1>1
<1>4. Line(i, k + 1)
    BY <1>1, <1>2, <1>3 DEF Line
<1>5. stream[k] # CR
    BY <1>1, <1>3
<1> QED
    BY <1>4, <1>5, SpokenSame

LEMMA LineEnds ==
    ASSUME stream \in Seq(STRING), NEW i \in Nat, NEW k \in Nat, Line(i, k), i < k,
           k + 1 <= Len(stream), stream[k + 1] = CR
    PROVE  Ends(i, k + 1)
<1>1. \A j \in i .. k : stream[j] # CR
    BY DEF Line
<1>2. k + 1 \in i + 2 .. Len(stream)
    BY Positions
<1>3. (k + 1) - 1 = k
    OBVIOUS
<1> QED
    BY <1>1, <1>2, <1>3 DEF Ends

LEMMA BehindCR ==
    ASSUME stream \in Seq(STRING), Lines, NEW m \in Nat, 1 <= m, m <= Len(stream)
    PROVE  stream[m] = CR => m + 1 > Len(stream) \/ stream[m + 1] = LF
<1>1. PICK len \in Nat : len = Len(stream)
    BY Positions
<1>2. CASE m <= len - 1
    <2>1. m \in 1 .. Len(stream) - 1
        BY <1>1, <1>2
    <2> QED
        BY <2>1 DEF Lines
<1>3. CASE ~ (m <= len - 1)
    BY <1>1, <1>3
<1> QED
    BY <1>2, <1>3

(* Behind a CR and its LF the parser is at the start of a line             *)
LEMMA StartAgain ==
    ASSUME stream \in Seq(STRING), Lines, NEW m \in Nat, 1 <= m, m <= Len(stream),
           stream[m] = CR, NEW n \in Nat, n = m + 1, NEW l \in Nat, l = n + 1,
           NEW q, q.state = "COMMAND", q.cmd = "", UserAt(q, l)
    PROVE  PopAt(q, n)
<1>2. n > Len(stream) \/ stream[n] = LF
    BY BehindCR
<1>3. UserAt(q, n + 1)
    OBVIOUS
<1>4. AtStart(q, n)
    BY <1>2, <1>3 DEF AtStart
<1> QED
    BY <1>4 DEF PopAt

LEMMA CheckStep ==
    ASSUME stream \in Seq(STRING), Lines, NEW i \in Nat, NEW k \in Nat, k + 1 <= Len(stream),
           NEW p, NEW q, AtCheck(p, i, k), FromCheck(p, stream[k + 1], q), SameUser(p, q)
    PROVE  IF stream[k + 1] = CR THEN PopAt(q, k + 2) /\ Spoken(k + 2) = Spoken(k)
           ELSE PopAt(q, k + 1) /\ Spoken(k + 1) = Spoken(k)
<1>1. /\ p.state = "CHECK" /\ Line(i, k) /\ UserAt(p, i)
      /\ stream[i] # USER /\ stream[i] # PASS
    BY DEF AtCheck
<1>2. i <= k /\ i >= 1
    BY <1>1, Positions DEF Line, LineAt
<1>3. CASE stream[k + 1] = CR
    <2>1. q.state = "COMMAND" /\ q.cmd = "" /\ q.user = p.user
        BY <1>3 DEF FromCheck, Becomes
    <2>2. NoUser(i, k + 2)
        BY <1>1, NoUserInLine
    <2>3. UserAt(q, k + 3)
        <3>1. PICK m \in Nat : m = k + 3 /\ i <= m /\ m - 1 = k + 2
            BY <1>2
        <3>2. UserAt(q, m)
            BY <1>1, <2>1, <2>2, <3>1, UserKept
        <3> QED
            BY <3>1, <3>2
    <2>4. PopAt(q, k + 2)
        <3>1. PICK m \in Nat, n \in Nat, l \in Nat :
                 m = k + 1 /\ n = k + 2 /\ l = k + 3 /\ n = m + 1 /\ l = n + 1
            OBVIOUS
        <3>2. 1 <= m /\ m <= Len(stream) /\ stream[m] = CR /\ UserAt(q, l)
            BY <1>3, <2>3, <3>1
        <3>3. PopAt(q, n)
            BY <2>1, <3>1, <3>2, StartAgain
        <3> QED
            BY <3>1, <3>3
    <2>5. i \notin Passwords
        BY <1>1 DEF Passwords, Command
    <2>6. Spoken(k + 2) = Spoken(k)
        BY <1>1, <1>3, <2>5, NewSpoken
    <2> QED
        BY <1>3, <2>4, <2>6
<1>4. CASE stream[k + 1] # CR
    <2>1. q.state = "CHECK" /\ q.user = p.user
        BY <1>4 DEF FromCheck, Becomes
    <2>2. Line(i, k + 1) /\ Spoken(k + 1) = Spoken(k)
        BY <1>1, <1>4, LineGoesOn
    <2>3. UserAt(q, i)
        BY <1>1, <2>1, UserSame
    <2>4. AtCheck(q, i, k + 1) /\ i \in 1 .. k + 1
        BY <1>1, <1>2, <2>1, <2>2, <2>3 DEF AtCheck
    <2> QED
        BY <1>4, <2>2, <2>4 DEF PopAt
<1> QED
    BY <1>3, <1>4

LEMMA UserStep ==
    ASSUME stream \in Seq(STRING), Lines, NEW i \in Nat, NEW k \in Nat, k + 1 <= Len(stream),
           NEW p, NEW q, AtUser(p, i, k), FromUser(p, stream[k + 1], q)
    PROVE  IF stream[k + 1] = CR THEN PopAt(q, k + 2) /\ Spoken(k + 2) = Spoken(k)
           ELSE PopAt(q, k + 1) /\ Spoken(k + 1) = Spoken(k)
<1>1. /\ p.state = "USER" /\ Line(i, k) /\ i < k
      /\ stream[i] = USER /\ Holds(p.user, i, k - i - 1)
    BY DEF AtUser
<1>2. i <= k /\ i >= 1 /\ LineAt(i)
    BY <1>1, Positions DEF Line, LineAt
<1>3. CASE stream[k + 1] = CR
    <2>1. /\ q.state = "COMMAND" /\ q.cmd = "" /\ q.user = p.user
          /\ Len(p.user) < MaxField => q.user_done
        BY <1>3 DEF FromUser, Becomes
    <2>2. NoUser(i + 1, k + 2)
        BY <1>1, NoUserInLine
    <2>3. Ends(i, k + 1)
        BY <1>1, <1>3, LineEnds
    <2>4. PICK n \in Nat : n = k - i - 1 /\ n = (k + 1) - i - 2
        BY <1>1
    <2>5. Holds(q.user, i, n) /\ (n < MaxField => q.user_done)
        BY <1>1, <2>1, <2>4 DEF Holds
    <2>6. HoldsUser(q, i, k + 1)
        BY <2>3, <2>4, <2>5 DEF HoldsUser
    <2>7. k + 1 \in DOMAIN stream /\ i \in 1 .. (k + 3) - 1 /\ (k + 3) - 1 = k + 2
        BY <1>2, Positions
    <2>8. UserAt(q, k + 3)
        BY <1>1, <1>2, <2>2, <2>6, <2>7 DEF UserAt, Command
    <2>9. PopAt(q, k + 2)
        <3>1. PICK m \in Nat, j \in Nat, l \in Nat :
                 m = k + 1 /\ j = k + 2 /\ l = k + 3 /\ j = m + 1 /\ l = j + 1
            OBVIOUS
        <3>2. 1 <= m /\ m <= Len(stream) /\ stream[m] = CR /\ UserAt(q, l)
            BY <1>3, <2>8, <3>1
        <3>3. PopAt(q, j)
            BY <2>1, <3>1, <3>2, StartAgain
        <3> QED
            BY <3>1, <3>3
    <2>10. i \notin Passwords
        BY <1>1 DEF Passwords, Command, USER, PASS
    <2>11. Spoken(k + 2) = Spoken(k)
        BY <1>1, <1>3, <2>10, NewSpoken
    <2> QED
        BY <1>3, <2>9, <2>11
<1>4. CASE stream[k + 1] # CR
    <2>1. q.state = "USER" /\ q.user = Kept(p.user, stream[k + 1])
        BY <1>4 DEF FromUser, Becomes
    <2>2. Line(i, k + 1) /\ Spoken(k + 1) = Spoken(k)
        BY <1>1, <1>4, LineGoesOn
    <2>3. PICK n \in Nat : n = k - i - 1 /\ i + n + 2 = k + 1 /\ n + 1 = (k + 1) - i - 1
        BY <1>1
    <2>4. PICK c \in STRING : c = stream[k + 1]
        <3>1. k + 1 \in 1 .. Len(stream)
            BY Positions
        <3> QED
            BY <3>1, ElementOfSeq
    <2>5. Holds(Kept(p.user, c), i, n + 1)
        BY <1>1, <2>3, <2>4, HoldsMore
    <2>6. AtUser(q, i, k + 1) /\ i \in 1 .. k + 1
        <3>1. Holds(q.user, i, (k + 1) - i - 1)
            BY <2>1, <2>3, <2>4, <2>5
        <3>2. i < k + 1 /\ i \in 1 .. k + 1
            BY <1>2
        <3> QED
            BY <1>1, <2>1, <2>2, <3>1, <3>2 DEF AtUser
    <2> QED
        BY <1>4, <2>2, <2>6 DEF PopAt
<1> QED
    BY <1>3, <1>4

LEMMA PassStep ==
    ASSUME stream \in Seq(STRING), NEW i \in Nat, NEW k \in Nat, k + 1 <= Len(stream),
           NEW p, NEW q, AtPass(p, i, k), FromPass(p, stream[k + 1], q), SameUser(p, q)
    PROVE  PopAt(q, k + 1) /\ Spoken(k + 1) = Spoken(k)
<1>1. /\ p.state = "PASS" /\ Line(i, k) /\ i < k /\ UserAt(p, i)
      /\ stream[i] = PASS /\ Holds(p.pass, i, k - i - 1)
    BY DEF AtPass
<1>2. i <= k /\ i >= 1 /\ LineAt(i)
    BY <1>1, Positions DEF Line, LineAt
<1>3. CASE stream[k + 1] = CR
    <2>1. /\ q.state = "DONE" /\ q.user = p.user /\ q.pass = p.pass
          /\ Len(p.pass) < MaxField => q.pass_done
        BY <1>3 DEF FromPass, Becomes
    <2>2. Ends(i, k + 1)
        BY <1>1, <1>3, LineEnds
    <2>3. PICK n \in Nat : n = k - i - 1 /\ n = (k + 1) - i - 2
        BY <1>1
    <2>4. Holds(q.pass, i, n) /\ (n < MaxField => q.pass_done)
        BY <1>1, <2>1, <2>3 DEF Holds
    <2>5. UserAt(q, i)
        BY <1>1, <2>1, UserSame
    <2>6. (k + 1) - 1 = k /\ i \in 1 .. k + 1
        BY <1>2
    <2>7. AtDone(q, i, k + 1)
        BY <1>1, <2>1, <2>2, <2>3, <2>4, <2>5, <2>6 DEF AtDone
    <2>8. stream[k] # CR
        <3>1. k \in i .. k
            BY <1>2
        <3> QED
            BY <1>1, <3>1 DEF Line
    <2> QED
        BY <2>6, <2>7, <2>8, SpokenSame DEF PopAt
<1>4. CASE stream[k + 1] # CR
    <2>1. q.state = "PASS" /\ q.user = p.user /\ q.pass = Kept(p.pass, stream[k + 1])
        BY <1>4 DEF FromPass, Becomes
    <2>2. Line(i, k + 1) /\ Spoken(k + 1) = Spoken(k)
        BY <1>1, <1>4, LineGoesOn
    <2>3. PICK n \in Nat : n = k - i - 1 /\ i + n + 2 = k + 1 /\ n + 1 = (k + 1) - i - 1
        BY <1>1
    <2>4. PICK c \in STRING : c = stream[k + 1]
        <3>1. k + 1 \in 1 .. Len(stream)
            BY Positions
        <3> QED
            BY <3>1, ElementOfSeq
    <2>5. Holds(Kept(p.pass, c), i, n + 1)
        BY <1>1, <2>3, <2>4, HoldsMore
    <2>6. UserAt(q, i)
        BY <1>1, <2>1, UserSame
    <2>7. AtPass(q, i, k + 1) /\ i \in 1 .. k + 1
        <3>1. Holds(q.pass, i, (k + 1) - i - 1)
            BY <2>1, <2>3, <2>4, <2>5
        <3>2. i < k + 1 /\ i \in 1 .. k + 1
            BY <1>2
        <3> QED
            BY <1>1, <2>1, <2>2, <2>6, <3>1, <3>2 DEF AtPass
    <2> QED
        BY <2>2, <2>7 DEF PopAt
<1> QED
    BY <1>3, <1>4

(* Where the parser is, with nothing new spoken since the first k; and     *)
(* what it has logged, the one password spoken since then                  *)
Onward(p, k, n) == PopAt(p, n) /\ (Blocked \/ Spoken(n) = Spoken(k))
Adds(login, i, k, n) ==
    /\ login = LoginAt(i) /\ Spoken(n) = Spoken(k) \cup {i}
    /\ \A s \in Spoken(k) : s < i
Login(p, k, n) ==
    \E i \in Nat : Agree(Logged(p), i) /\ (Blocked \/ Adds(Logged(p), i, k, n))

Follows(k, step) ==
    \/ step.logs = FALSE /\ step.takes = 1 /\ Onward(step.p, k, k + 1)
    \/ step.logs = FALSE /\ step.takes = 2 /\ Onward(step.p, k, k + 2)
    \/ step.logs = TRUE /\ step.takes = 1 /\ PopAt(step.p, k + 1) /\ Login(step.p, k, k + 1)

LEMMA DoneStep ==
    ASSUME stream \in Seq(STRING), Lines, NEW i \in Nat, NEW k \in Nat, k + 1 <= Len(stream),
           NEW p \in Pop, NEW step, AtDone(p, i, k), FromDone(p, step), step.takes = 1
    PROVE  Follows(k, step)
<1>1. /\ p.state = "DONE" /\ Line(i, k - 1) /\ UserAt(p, i) /\ stream[i] = PASS /\ Ends(i, k)
    BY DEF AtDone
<1>2. PICK h \in Nat : h = k - 1 /\ h + 1 = k /\ h + 2 = k + 1 /\ 1 <= k /\ i <= k + 1
    BY <1>1, Positions DEF Line, LineAt
<1>3. Line(i, h) /\ stream[h + 1] = CR /\ stream[k] = CR
    BY <1>1, <1>2 DEF Ends
<1>4. Command(i, PASS)
    BY <1>1 DEF Line, Command
<1>5. ~ Blocked => Fits(i)
    <2>1. i \in DOMAIN stream
        BY <1>4 DEF Command, LineAt
    <2> QED
        BY <1>4, <2>1 DEF Blocked
<1>6. /\ Fits(i) => Ready(p) /\ Logged(p) = LoginAt(i)
      /\ Ready(p) => Agree(Logged(p), i)
    BY LoginIs
<1>7. PICK q : q = step.p
    OBVIOUS
<1>8. CASE /\ Ready(p) /\ step.logs = TRUE /\ Becomes(q, "COMMAND", "", p.user, p.pass)
           /\ SameUser(p, q)
    <2>1. q.state = "COMMAND" /\ q.cmd = "" /\ q.user = p.user /\ q.pass = p.pass
        BY <1>8 DEF Becomes
    <2>2. PICK m \in Nat, l \in Nat : m = k + 1 /\ l = k + 2 /\ l = m + 1 /\ i <= l /\ l - 1 = h + 2
        BY <1>2
    <2>3. NoUser(i, h + 2)
        BY <1>1, <1>3, NoUserInLine DEF USER, PASS
    <2>4. NoUser(i, l - 1)
        BY <2>2, <2>3
    <2>5. UserAt(q, l)
        BY <1>1, <1>8, <2>1, <2>2, <2>4, UserKept
    <2>6. PopAt(q, m)
        <3>1. k <= Len(stream)
            BY Positions
        <3> QED
            BY <1>2, <1>3, <2>1, <2>2, <2>5, <3>1, StartAgain
    <2>7. Logged(q) = Logged(p)
        BY <2>1 DEF Logged
    <2>8. Agree(Logged(q), i)
        BY <1>6, <1>8, <2>7
    <2>9. ~ Blocked => Adds(Logged(q), i, k, k + 1)
        <3>1. i \in Passwords
            BY <2>8 DEF Agree
        <3>2. Spoken(h + 2) = Spoken(h + 1) \cup {i} /\ \A s \in Spoken(h + 1) : s < i
            BY <1>3, <3>1, NewSpoken
        <3>3. Spoken(k + 1) = Spoken(k) \cup {i} /\ \A s \in Spoken(k) : s < i
            BY <1>2, <3>2
        <3>4. ~ Blocked => Logged(q) = LoginAt(i)
            BY <1>5, <1>6, <2>7
        <3> QED
            BY <3>3, <3>4 DEF Adds
    <2>10. Login(q, k, k + 1)
        BY <2>8, <2>9 DEF Login
    <2>11. PopAt(q, k + 1)
        BY <2>2, <2>6
    <2> QED
        BY <1>7, <1>8, <2>10, <2>11, Zenon DEF Follows
<1>9. CASE Stuck(p) /\ step.logs = FALSE /\ q = p
    <2>1. ~ Ready(p)
        BY <1>9 DEF Ready, Stuck
    <2>2. Blocked
        BY <1>5, <1>6, <2>1
    <2>3. Onward(q, k, k + 1)
        BY <1>9, <2>2 DEF Onward, PopAt
    <2> QED
        BY <1>7, <1>9, <2>3, Zenon DEF Follows
<1> QED
    BY <1>7, <1>8, <1>9, Zenon DEF FromDone

LEMMA CharacterStep ==
    ASSUME stream \in Seq(STRING), Lines, Arguments, NEW k \in Nat, k + 1 <= Len(stream),
           NEW clears \in BOOLEAN, NEW p \in Pop, PopAt(p, k),
           NEW step, step = StepPop3(p, stream[k + 1], clears)
    PROVE  Follows(k, step)
<1>1. k + 1 \in 1 .. Len(stream)
    BY Positions
<1>2. PICK c \in STRING : c = stream[k + 1]
    BY <1>1, ElementOfSeq
<1>3. step = StepPop3(p, c, clears)
    BY <1>2
<1>4. PICK q : q = step.p
    OBVIOUS
<1>5. CASE AtStart(p, k) \/ AtWord(p, k)
    <2>1. p.state = "COMMAND"
        BY <1>5 DEF AtStart, AtWord
    <2>2. FromCommand(p, c, q) /\ SameUser(p, q) /\ step.takes = 1 /\ step.logs = FALSE
        BY <1>3, <1>4, <2>1, CommandSteps
    <2>3. FromCommand(p, stream[k + 1], q)
        BY <1>2, <2>2
    <2>4. PopAt(q, k + 1) /\ Spoken(k + 1) = Spoken(k)
        BY <1>5, <2>2, <2>3, StartStep, WordStep
    <2>5. Onward(q, k, k + 1)
        BY <2>4 DEF Onward
    <2> QED
        BY <1>4, <2>2, <2>5, Zenon DEF Follows
<1>6. CASE Stuck(p) /\ Blocked
    <2>1. p.state = "DONE"
        BY <1>6 DEF Stuck
    <2>2. step.takes = 1 /\ FromDone(p, step)
        BY <1>3, <2>1, DoneSteps
    <2>3. ~ Ready(p)
        BY <1>6 DEF Ready, Stuck
    <2>4. step.logs = FALSE /\ q = p
        BY <1>4, <2>2, <2>3, Zenon DEF FromDone
    <2>5. Onward(q, k, k + 1)
        BY <1>6, <2>4 DEF Onward, PopAt
    <2> QED
        BY <1>4, <2>2, <2>4, <2>5, Zenon DEF Follows
<1>7. ASSUME NEW i \in 1 .. k, AtCheck(p, i, k)
      PROVE  Follows(k, step)
    <2>1. p.state = "CHECK"
        BY <1>7 DEF AtCheck
    <2>2. /\ FromCheck(p, c, q) /\ SameUser(p, q)
          /\ step.takes = (IF c = CR THEN 2 ELSE 1) /\ step.logs = FALSE
        BY <1>3, <1>4, <2>1, CheckSteps
    <2>3. FromCheck(p, stream[k + 1], q)
        BY <1>2, <2>2
    <2>4. IF stream[k + 1] = CR THEN PopAt(q, k + 2) /\ Spoken(k + 2) = Spoken(k)
          ELSE PopAt(q, k + 1) /\ Spoken(k + 1) = Spoken(k)
        BY <1>7, <2>2, <2>3, CheckStep
    <2>5. CASE c = CR
        <3>1. Onward(q, k, k + 2) /\ step.takes = 2
            BY <1>2, <2>2, <2>4, <2>5 DEF Onward
        <3> QED
            BY <1>4, <2>2, <3>1, Zenon DEF Follows
    <2>6. CASE c # CR
        <3>1. Onward(q, k, k + 1) /\ step.takes = 1
            BY <1>2, <2>2, <2>4, <2>6 DEF Onward
        <3> QED
            BY <1>4, <2>2, <3>1, Zenon DEF Follows
    <2> QED
        BY <2>5, <2>6
<1>8. ASSUME NEW i \in 1 .. k, AtUser(p, i, k)
      PROVE  Follows(k, step)
    <2>1. p.state = "USER"
        BY <1>8 DEF AtUser
    <2>2. /\ FromUser(p, c, q)
          /\ step.takes = (IF c = CR THEN 2 ELSE 1) /\ step.logs = FALSE
        BY <1>3, <1>4, <2>1, UserSteps
    <2>3. FromUser(p, stream[k + 1], q)
        BY <1>2, <2>2
    <2>4. IF stream[k + 1] = CR THEN PopAt(q, k + 2) /\ Spoken(k + 2) = Spoken(k)
          ELSE PopAt(q, k + 1) /\ Spoken(k + 1) = Spoken(k)
        BY <1>8, <2>3, UserStep
    <2>5. CASE c = CR
        <3>1. Onward(q, k, k + 2) /\ step.takes = 2
            BY <1>2, <2>2, <2>4, <2>5 DEF Onward
        <3> QED
            BY <1>4, <2>2, <3>1, Zenon DEF Follows
    <2>6. CASE c # CR
        <3>1. Onward(q, k, k + 1) /\ step.takes = 1
            BY <1>2, <2>2, <2>4, <2>6 DEF Onward
        <3> QED
            BY <1>4, <2>2, <3>1, Zenon DEF Follows
    <2> QED
        BY <2>5, <2>6
<1>9. ASSUME NEW i \in 1 .. k, AtPass(p, i, k)
      PROVE  Follows(k, step)
    <2>1. p.state = "PASS"
        BY <1>9 DEF AtPass
    <2>2. FromPass(p, c, q) /\ SameUser(p, q) /\ step.takes = 1 /\ step.logs = FALSE
        BY <1>3, <1>4, <2>1, PassSteps
    <2>3. FromPass(p, stream[k + 1], q)
        BY <1>2, <2>2
    <2>4. PopAt(q, k + 1) /\ Spoken(k + 1) = Spoken(k)
        BY <1>9, <2>2, <2>3, PassStep
    <2>5. Onward(q, k, k + 1)
        BY <2>4 DEF Onward
    <2> QED
        BY <1>4, <2>2, <2>5, Zenon DEF Follows
<1>10. ASSUME NEW i \in 1 .. k, AtDone(p, i, k)
       PROVE  Follows(k, step)
    <2>1. p.state = "DONE"
        BY <1>10 DEF AtDone
    <2>2. step.takes = 1 /\ FromDone(p, step)
        BY <1>3, <2>1, DoneSteps
    <2> QED
        BY <1>10, <2>2, DoneStep
<1> QED
    BY <1>5, <1>6, <1>7, <1>8, <1>9, <1>10 DEF PopAt

-----------------------------------------------------------------------------
(* A chunk: where its parse leaves the parser and what it logs             *)

LEMMA ParseInStep ==
    ASSUME NEW first \in Nat, NEW last \in Nat, first <= last, NEW clears \in BOOLEAN,
           stream \in Seq(STRING), last <= Len(stream), Lines, Arguments,
           pop3 \in Pop, PopAt(pop3, first)
    PROVE  \E q \in Pop, n \in Nat :
              \/ /\ Parse(first, last, clears) = [p |-> q, at |-> n, logs |-> FALSE]
                 /\ Onward(q, first, n)
              \/ /\ Parse(first, last, clears) = [p |-> q, at |-> n, logs |-> TRUE]
                 /\ PopAt(q, n) /\ Login(q, first, n)
<1> DEFINE G == {g \in Pop \X Nat : Onward(g[1], first, g[2])}
           E == {g \in Pop \X Nat : PopAt(g[1], g[2]) /\ Login(g[1], first, g[2])}
<1>0. \A q \in Pop, n \in Nat :
         /\ <<q, n>> \in G <=> Onward(q, first, n)
         /\ <<q, n>> \in E <=> PopAt(q, n) /\ Login(q, first, n)
    OBVIOUS
<1>1. <<pop3, first>> \in G
    BY <1>0 DEF Onward
<1> HIDE DEF G, E
<1>2. ASSUME NEW n \in first .. last - 1, NEW q \in Pop, <<q, n>> \in G
      PROVE  Keeps(G, E, q, n, clears)
    <2>1. n \in Nat /\ n + 1 \in 1 .. Len(stream) /\ n + 1 <= Len(stream)
        BY Positions
    <2>2. PopAt(q, n) /\ (Blocked \/ Spoken(n) = Spoken(first))
        BY <1>0, <1>2, <2>1 DEF Onward
    <2>3. SUFFICES ASSUME NEW step, step = StepPop3(q, stream[n + 1], clears)
                   PROVE  /\ step.logs = FALSE => <<step.p, n + step.takes>> \in G
                          /\ step.logs = TRUE => <<step.p, n + 1>> \in E
        BY DEF Keeps
    <2>4. PICK c \in STRING : c = stream[n + 1]
        BY <2>1, ElementOfSeq
    <2>5. Outcome(q, c, step)
        BY <2>3, <2>4, StepTyped
    <2>6. step.p \in Pop
        BY <2>5, Zenon DEF Outcome
    <2>7. Follows(n, step)
        BY <2>1, <2>2, <2>3, CharacterStep
    <2>8. n + 1 \in Nat /\ n + 2 \in Nat
        BY <2>1
    <2>9. CASE step.logs = FALSE /\ step.takes = 1 /\ Onward(step.p, n, n + 1)
        <3>1. Onward(step.p, first, n + 1)
            BY <2>2, <2>9 DEF Onward
        <3>2. <<step.p, n + 1>> \in G
            BY <1>0, <2>6, <2>8, <3>1
        <3> QED
            BY <2>9, <3>2
    <2>10. CASE step.logs = FALSE /\ step.takes = 2 /\ Onward(step.p, n, n + 2)
        <3>1. Onward(step.p, first, n + 2)
            BY <2>2, <2>10 DEF Onward
        <3>2. <<step.p, n + 2>> \in G
            BY <1>0, <2>6, <2>8, <3>1
        <3> QED
            BY <2>10, <3>2
    <2>11. CASE step.logs = TRUE /\ step.takes = 1 /\ PopAt(step.p, n + 1) /\ Login(step.p, n, n + 1)
        <3>1. PICK i \in Nat :
                 Agree(Logged(step.p), i) /\ (Blocked \/ Adds(Logged(step.p), i, n, n + 1))
            BY <2>11 DEF Login
        <3>2. Blocked \/ Adds(Logged(step.p), i, first, n + 1)
            BY <2>2, <3>1 DEF Adds
        <3>3. Login(step.p, first, n + 1)
            BY <3>1, <3>2 DEF Login
        <3>4. <<step.p, n + 1>> \in E
            BY <1>0, <2>6, <2>8, <2>11, <3>3
        <3> QED
            BY <2>11, <3>4
    <2> QED
        BY <2>7, <2>9, <2>10, <2>11, Zenon DEF Follows
<1>3. PICK r : /\ r = Parse(first, last, clears)
               /\ Goes(G, r, last) \/ Ended(E, r, first, last)
    BY <1>1, <1>2, ParseReaches
<1>4. CASE Goes(G, r, last)
    <2>1. PICK q \in Pop, n \in {last, last + 1} :
             <<q, n>> \in G /\ r = [p |-> q, at |-> n, logs |-> FALSE]
        BY <1>4 DEF Goes
    <2>2. n \in Nat
        OBVIOUS
    <2>3. Onward(q, first, n)
        BY <1>0, <2>1, <2>2
    <2> QED
        BY <1>3, <2>1, <2>2, <2>3
<1>5. CASE Ended(E, r, first, last)
    <2>1. PICK q \in Pop, n \in first + 1 .. last :
             <<q, n>> \in E /\ r = [p |-> q, at |-> n, logs |-> TRUE]
        BY <1>5 DEF Ended
    <2>2. n \in Nat
        OBVIOUS
    <2>3. PopAt(q, n) /\ Login(q, first, n)
        BY <1>0, <2>1, <2>2
    <2> QED
        BY <1>3, <2>1, <2>2, <2>3
<1> QED
    BY <1>3, <1>4, <1>5

-----------------------------------------------------------------------------
(* The stream stays as it is, and so does all that is said of it.          *)

LEMMA LinesStay ==
    ASSUME stream' = stream
    PROVE  /\ Lines' <=> Lines
           /\ Arguments' <=> Arguments
           /\ \A i : LineAt(i)' <=> LineAt(i)
           /\ \A i, word : Command(i, word)' <=> Command(i, word)
           /\ \A i, k : Line(i, k)' <=> Line(i, k)
           /\ \A i, k : Ends(i, k)' <=> Ends(i, k)
           /\ \A i, k : NoUser(i, k)' <=> NoUser(i, k)
BY DEF Lines, Arguments, LineAt, Command, Line, Ends, NoUser

LEMMA LoginsStay ==
    ASSUME stream' = stream
    PROVE  /\ \A i : LoginAt(i)' = LoginAt(i)
           /\ Passwords' = Passwords
           /\ \A k : Spoken(k)' = Spoken(k)
<1>1. \A i : EndOf(i)' = EndOf(i)
    BY DEF EndOf
<1>2. \A i : LastUser(i)' = LastUser(i)
    BY DEF LastUser, Command, LineAt
<1>3. \A i : Argument(i)' = Argument(i)
    BY <1>1 DEF Argument
<1>4. \A i : LoginAt(i)' = LoginAt(i)
    BY <1>2, <1>3 DEF LoginAt
<1>5. Passwords' = Passwords
    BY DEF Passwords, Command, LineAt
<1>6. \A k : Spoken(k)' = Spoken(k)
    BY <1>5 DEF Spoken
<1> QED
    BY <1>4, <1>5, <1>6

LEMMA FitsStay ==
    ASSUME stream' = stream
    PROVE  /\ \A i : Fits(i)' <=> Fits(i)
           /\ Blocked' <=> Blocked
           /\ \A login, i : Agree(login, i)' <=> Agree(login, i)
           /\ \A logins, is : Lists(logins, is)' <=> Lists(logins, is)
<1>1. \A i : Fits(i)' <=> Fits(i)
    BY LoginsStay DEF Fits
<1>2. Blocked' <=> Blocked
    BY <1>1, LinesStay DEF Blocked
<1>3. \A login, i : Agree(login, i)' <=> Agree(login, i)
    BY LoginsStay DEF Agree
<1>4. \A logins, is : Lists(logins, is)' <=> Lists(logins, is)
    BY LoginsStay DEF Lists
<1> QED
    BY <1>1, <1>2, <1>3, <1>4

LEMMA PopStays ==
    ASSUME stream' = stream, NEW p, NEW k
    PROVE  PopAt(p, k)' <=> PopAt(p, k)
<1>1. \A field, u, n : Holds(field, u, n)' <=> Holds(field, u, n)
    BY DEF Holds
<1>2. \A u, e : HoldsUser(p, u, e)' <=> HoldsUser(p, u, e)
    BY <1>1, LinesStay DEF HoldsUser
<1>3. \A i : UserAt(p, i)' <=> UserAt(p, i)
    BY <1>2, LinesStay DEF UserAt
<1>4. AtStart(p, k)' <=> AtStart(p, k)
    BY <1>3 DEF AtStart
<1>5. AtWord(p, k)' <=> AtWord(p, k)
    BY <1>3, LinesStay DEF AtWord
<1>6. \A i : AtCheck(p, i, k)' <=> AtCheck(p, i, k)
    BY <1>3, LinesStay DEF AtCheck
<1>7. \A i : AtUser(p, i, k)' <=> AtUser(p, i, k)
    BY <1>1, LinesStay DEF AtUser
<1>8. \A i : AtPass(p, i, k)' <=> AtPass(p, i, k)
    BY <1>1, <1>3, LinesStay DEF AtPass
<1>9. \A i : AtDone(p, i, k)' <=> AtDone(p, i, k)
    BY <1>1, <1>3, LinesStay DEF AtDone
<1> QED
    BY <1>4, <1>5, <1>6, <1>7, <1>8, <1>9, FitsStay DEF PopAt

LEMMA InStepIs ==
    ASSUME stream' = stream, NEW q, NEW n, NEW logins, pop3' = q, at' = n, log' = logins,
           seamless' /\ Lines /\ Arguments
              => PopAt(q, n) /\ (Blocked \/ Lists(logins, Spoken(n)))
    PROVE  InStep'
<1>1. PopAt(pop3, at)' <=> PopAt(q, n)
    <2>1. PopAt(q, n)' <=> PopAt(q, n)
        BY PopStays
    <2> QED
        BY <2>1
<1>2. Spoken(at)' = Spoken(n)
    <2>1. Spoken(n)' = Spoken(n)
        BY LoginsStay
    <2> QED
        BY <2>1
<1>3. Lists(log, Spoken(at))' <=> Lists(logins, Spoken(n))
    <2>1. PICK is : is = Spoken(n)
        OBVIOUS
    <2>2. Lists(logins, is)' <=> Lists(logins, is)
        BY FitsStay
    <2> QED
        BY <1>2, <2>1, <2>2
<1> QED
    BY <1>1, <1>3, LinesStay, FitsStay DEF InStep

LEMMA LoggedIs ==
    ASSUME stream' = stream, NEW logins, log' = logins,
           seamless' /\ Lines /\ Arguments =>
              \A k \in DOMAIN logins : \E i \in Passwords : Agree(logins[k], i)
    PROVE  LogsOnlyWhatWasSent'
<1>1. Passwords' = Passwords /\ \A i : LoginAt(i)' = LoginAt(i)
    BY LoginsStay
<1>2. seamless' /\ Lines' /\ Arguments' =>
         \A k \in DOMAIN logins : \E i \in Passwords : \A field \in {1, 2} :
            Clipped(logins[k][field]) = Clipped(LoginAt(i)[field])
    BY LinesStay DEF Agree
<1> QED
    BY <1>1, <1>2 DEF LogsOnlyWhatWasSent

(* A list of logins with one more, spoken after the others                 *)
LEMMA ListsMore ==
    ASSUME NEW S, NEW logins \in Seq(S), NEW login \in S, NEW is, NEW i \in Nat,
           Lists(logins, is), \A s \in is : s < i, login = LoginAt(i)
    PROVE  Lists(Append(logins, login), is \cup {i})
<1>1. PICK order \in [DOMAIN logins -> is] :
        /\ \A k, l \in DOMAIN logins : k < l => order[k] < order[l]
        /\ \A s \in is : \E k \in DOMAIN logins : order[k] = s
        /\ \A k \in DOMAIN logins : logins[k] = LoginAt(order[k])
    BY DEF Lists
<1>2. PICK m \in Nat : m = Len(logins) /\ DOMAIN logins = 1 .. m
    BY LenProperties
<1>3. PICK more : more = Append(logins, login)
    OBVIOUS
<1>4. /\ Append(logins, login) \in Seq(S) /\ Len(Append(logins, login)) = Len(logins) + 1
      /\ \A k \in 1 .. Len(logins) : Append(logins, login)[k] = logins[k]
      /\ Append(logins, login)[Len(logins) + 1] = login
    BY AppendProperties
<1>5. /\ \A k \in 1 .. m : more[k] = logins[k]
      /\ more[m + 1] = login
    BY <1>2, <1>3, <1>4
<1>6. DOMAIN more = 1 .. m + 1
    BY <1>2, <1>3, <1>4, LenProperties
<1>7. PICK next : next = [k \in 1 .. m + 1 |-> IF k = m + 1 THEN i ELSE order[k]]
    OBVIOUS
<1>8. \A k \in 1 .. m : next[k] = order[k] /\ order[k] \in is
    BY <1>1, <1>2, <1>7
<1>9. next[m + 1] = i
    BY <1>7
<1>10. next \in [DOMAIN more -> is \cup {i}]
    BY <1>1, <1>2, <1>6, <1>7
<1>11. ASSUME NEW k \in DOMAIN more, NEW l \in DOMAIN more, k < l
       PROVE  next[k] < next[l]
    <2>1. k \in 1 .. m /\ l \in 1 .. m + 1
        BY <1>6, <1>11
    <2>2. CASE l = m + 1
        BY <1>8, <1>9, <2>1, <2>2
    <2>3. CASE l # m + 1
        <3>1. l \in 1 .. m
            BY <2>1, <2>3
        <3> QED
            BY <1>1, <1>2, <1>8, <1>11, <2>1, <3>1
    <2> QED
        BY <2>2, <2>3
<1>12. ASSUME NEW s \in is \cup {i}
       PROVE  \E k \in DOMAIN more : next[k] = s
    <2>1. CASE s = i
        BY <1>6, <1>9, <2>1
    <2>2. CASE s # i
        <3>1. PICK k \in 1 .. m : order[k] = s
            BY <1>1, <1>2, <2>2
        <3>2. k \in 1 .. m + 1 /\ next[k] = s
            BY <1>8, <3>1
        <3> QED
            BY <1>6, <3>2
    <2> QED
        BY <2>1, <2>2
<1>13. ASSUME NEW k \in DOMAIN more
       PROVE  more[k] = LoginAt(next[k])
    <2>1. CASE k = m + 1
        BY <1>5, <1>9, <2>1
    <2>2. CASE k # m + 1
        <3>1. k \in 1 .. m
            BY <1>6, <2>2
        <3> QED
            BY <1>1, <1>2, <1>5, <1>8, <3>1
    <2> QED
        BY <2>1, <2>2
<1> QED
    BY <1>3, <1>10, <1>11, <1>12, <1>13 DEF Lists

-----------------------------------------------------------------------------
(* The invariant.                                                          *)

LEMMA InvInit == Init => IInv
<1> SUFFICES ASSUME Init PROVE IInv
    OBVIOUS
<1>1. TypeOK
    BY InitTyped
<1>2. pop3 = Fresh /\ at = 0 /\ log = <<>> /\ seamless = TRUE /\ (polite => pos = 0)
    BY DEF Init
<1>3. pop3.state = "COMMAND" /\ pop3.cmd = "" /\ pop3.user_done = FALSE
    BY <1>2 DEF Fresh
<1>4. Polite
    <2>1. ~ Ready(pop3)
        BY <1>3 DEF Ready
    <2> QED
        BY <1>2, <2>1 DEF Polite
<1>5. PopAt(pop3, at)
    <2>1. NoUser(1, (at + 1) - 1)
        BY <1>2 DEF NoUser
    <2>2. UserAt(pop3, at + 1)
        BY <1>3, <2>1 DEF UserAt
    <2> QED
        BY <1>2, <1>3, <2>2 DEF PopAt, AtStart
<1>6. Lists(log, Spoken(at))
    <2>1. Spoken(at) = {}
        <3>1. stream \in Seq(STRING)
            BY StreamTyped DEF Init
        <3>2. \A i \in Passwords : i \in Nat /\ i >= 1
            BY <3>1, Positions DEF Passwords
        <3>3. \A i \in Passwords : i .. at - 1 = {}
            BY <1>2, <3>2
        <3> QED
            BY <3>3 DEF Spoken
    <2>2. DOMAIN log = {}
        BY <1>2
    <2>3. [k \in {} |-> 0] \in [DOMAIN log -> {}]
        BY <2>2
    <2> QED
        BY <2>1, <2>2, <2>3 DEF Lists
<1>7. LogsOnlyWhatWasSent
    <2>1. DOMAIN log = {}
        BY <1>2
    <2> QED
        BY <2>1 DEF LogsOnlyWhatWasSent
<1> QED
    BY <1>1, <1>4, <1>5, <1>6, <1>7 DEF IInv, InStep

LEMMA ReadPolite ==
    ASSUME TypeOK, Polite, CopyRead
    PROVE  Polite'
<1>1. stream \in Seq(STRING) /\ Len(stream) \in Nat /\ stream' = stream
    BY StreamTyped DEF TypeOK, CopyRead
<1>2. pos \in 0 .. Len(stream) /\ pop3 \in Pop
    BY DEF TypeOK
<1>3. SUFFICES ASSUME polite', Lines'
               PROVE  /\ seamless' /\ at' = pos' /\ ~ Ready(pop3')
                      /\ stream'[pos'] = LF
    BY <1>1 DEF Polite, Ready
<1>4. Lines
    BY <1>1, <1>3, LinesStay
<1>5. /\ polite /\ disector /\ drained = pos
      /\ \A i \in pos + 1 .. pos' : stream[i] = LF <=> i = pos'
    BY <1>3 DEF CopyRead
<1>6. seamless /\ at = pos /\ ~ Ready(pop3)
    BY <1>4, <1>5 DEF Polite
<1>7. seamless'
    BY <1>5, <1>6 DEF CopyRead
<1>8. PICK n, clears, r : Read(n, clears, r)
    BY CopyReads
<1>9. n \in 1 .. Len(stream) - pos /\ clears \in BOOLEAN /\ pos' = pos + n
    BY <1>8 DEF Read
<1>10. PICK first \in Nat, last \in Nat :
          first = pos /\ last = pos + n /\ first < last /\ last <= Len(stream)
    BY <1>1, <1>2, <1>9
<1>11. r = Parse(first, last, clears) /\ pop3' = r.p /\ at' = r.at
    BY <1>5, <1>8, <1>10 DEF Read
<1>12. \A i \in first + 1 .. last : stream[i] = LF <=> i = last
    BY <1>5, <1>9, <1>10
<1>13. \E q \in Pop :
          /\ ~ Ready(q)
          /\ \/ Parse(first, last, clears) = [p |-> q, at |-> last, logs |-> FALSE]
             \/ Parse(first, last, clears) = [p |-> q, at |-> last, logs |-> TRUE]
    BY <1>1, <1>2, <1>4, <1>6, <1>9, <1>10, <1>12, ParseLine
<1>14. PICK q \in Pop : ~ Ready(q) /\ pop3' = q /\ at' = last
    BY <1>11, <1>13
<1>15. stream[last] = LF
    BY <1>10, <1>12
<1> QED
    BY <1>1, <1>7, <1>9, <1>10, <1>14, <1>15

LEMMA ReadInStep ==
    ASSUME IInv, CopyRead
    PROVE  InStep' /\ LogsOnlyWhatWasSent'
<1>1. stream \in Seq(STRING) /\ Len(stream) \in Nat /\ stream' = stream
    BY StreamTyped DEF IInv, TypeOK, CopyRead
<1>2. /\ pos \in 0 .. Len(stream) /\ drained \in 0 .. pos /\ pop3 \in Pop
      /\ log \in Seq(Shown \X Shown)
    BY DEF IInv, TypeOK
<1>3. PICK q, n, logins : pop3' = q /\ at' = n /\ log' = logins
    OBVIOUS
<1>4. CASE ~ (seamless' /\ Lines /\ Arguments)
    BY <1>1, <1>3, <1>4, InStepIs, LoggedIs
<1>5. CASE seamless' /\ Lines /\ Arguments
    <2>1. seamless /\ disector /\ drained = at
        BY <1>5 DEF CopyRead
    <2>2. PopAt(pop3, at) /\ (Blocked \/ Lists(log, Spoken(at)))
        BY <1>5, <2>1 DEF IInv, InStep
    <2>3. \A k \in DOMAIN log : \E i \in Passwords : Agree(log[k], i)
        BY <1>5, <2>1 DEF IInv, LogsOnlyWhatWasSent, Agree
    <2>4. PICK m, clears, r : Read(m, clears, r)
        BY CopyReads
    <2>5. m \in 1 .. Len(stream) - pos /\ clears \in BOOLEAN
        BY <2>4 DEF Read
    <2>6. PICK first \in Nat, last \in Nat :
             first = drained /\ last = pos + m /\ first <= last /\ last <= Len(stream)
        BY <1>1, <1>2, <2>5
    <2>7. /\ r = Parse(first, last, clears) /\ q = r.p /\ n = r.at
          /\ logins = IF r.logs THEN Append(log, Logged(r.p)) ELSE log
        BY <1>3, <2>1, <2>4, <2>6 DEF Read
    <2>8. PopAt(pop3, first) /\ (Blocked \/ Lists(log, Spoken(first)))
        BY <2>1, <2>2, <2>6
    <2>9. \E s \in Pop, l \in Nat :
             \/ /\ Parse(first, last, clears) = [p |-> s, at |-> l, logs |-> FALSE]
                /\ Onward(s, first, l)
             \/ /\ Parse(first, last, clears) = [p |-> s, at |-> l, logs |-> TRUE]
                /\ PopAt(s, l) /\ Login(s, first, l)
        BY <1>1, <1>2, <1>5, <2>5, <2>6, <2>8, ParseInStep
    <2>10. PICK s \in Pop, l \in Nat :
             \/ r = [p |-> s, at |-> l, logs |-> FALSE] /\ Onward(s, first, l)
             \/ /\ r = [p |-> s, at |-> l, logs |-> TRUE]
                /\ PopAt(s, l) /\ Login(s, first, l)
        BY <2>7, <2>9
    <2>11. CASE r = [p |-> s, at |-> l, logs |-> FALSE] /\ Onward(s, first, l)
        <3>1. q = s /\ n = l /\ logins = log
            BY <2>7, <2>11
        <3>2. PopAt(q, n) /\ (Blocked \/ Lists(logins, Spoken(n)))
            BY <2>8, <2>11, <3>1 DEF Onward
        <3>3. \A k \in DOMAIN logins : \E i \in Passwords : Agree(logins[k], i)
            BY <2>3, <3>1
        <3> QED
            BY <1>1, <1>3, <3>2, <3>3, InStepIs, LoggedIs
    <2>12. CASE r = [p |-> s, at |-> l, logs |-> TRUE] /\ PopAt(s, l) /\ Login(s, first, l)
        <3>1. q = s /\ n = l /\ logins = Append(log, Logged(s))
            BY <2>7, <2>12
        <3>2. PICK login : login = Logged(s) /\ login \in Shown \X Shown
            BY LoggedTyped
        <3>3. PICK i \in Nat : Agree(login, i) /\ (Blocked \/ Adds(login, i, first, l))
            BY <2>12, <3>2 DEF Login
        <3>4. Blocked \/ Lists(logins, Spoken(n))
            <4>1. SUFFICES ASSUME ~ Blocked PROVE Lists(logins, Spoken(n))
                OBVIOUS
            <4>2. /\ login = LoginAt(i) /\ Spoken(l) = Spoken(first) \cup {i}
                  /\ \A j \in Spoken(first) : j < i
                BY <3>3, <4>1 DEF Adds
            <4>3. PICK is : is = Spoken(first)
                OBVIOUS
            <4>4. Lists(log, is) /\ \A j \in is : j < i
                BY <2>8, <4>1, <4>2, <4>3
            <4>5. Lists(Append(log, login), is \cup {i})
                BY <1>2, <3>2, <4>2, <4>4, ListsMore
            <4> QED
                BY <3>1, <3>2, <4>2, <4>3, <4>5
        <3>5. PopAt(q, n)
            BY <2>12, <3>1
        <3>6. \A k \in DOMAIN logins : \E j \in Passwords : Agree(logins[k], j)
            <4>1. PICK d \in Nat : d = Len(log) /\ DOMAIN log = 1 .. d
                BY <1>2, LenProperties
            <4>2. /\ Append(log, login) \in Seq(Shown \X Shown)
                  /\ Len(Append(log, login)) = Len(log) + 1
                  /\ \A k \in 1 .. Len(log) : Append(log, login)[k] = log[k]
                  /\ Append(log, login)[Len(log) + 1] = login
                BY <1>2, <3>2, AppendProperties
            <4>3. DOMAIN logins = 1 .. d + 1
                BY <3>1, <3>2, <4>1, <4>2, LenProperties
            <4>4. logins[d + 1] = login /\ \A k \in 1 .. d : logins[k] = log[k]
                BY <3>1, <3>2, <4>1, <4>2
            <4>5. ASSUME NEW k \in DOMAIN logins
                  PROVE  \E j \in Passwords : Agree(logins[k], j)
                <5>1. CASE k = d + 1
                    <6>1. i \in Passwords
                        BY <3>3 DEF Agree
                    <6> QED
                        BY <3>3, <4>4, <5>1, <6>1
                <5>2. CASE k # d + 1
                    <6>1. k \in 1 .. d
                        BY <4>3, <5>2
                    <6> QED
                        BY <2>3, <4>1, <4>4, <6>1
                <5> QED
                    BY <5>1, <5>2
            <4> QED
                BY <4>5
        <3> QED
            BY <1>1, <1>3, <3>4, <3>5, <3>6, InStepIs, LoggedIs
    <2> QED
        BY <2>10, <2>11, <2>12
<1> QED
    BY <1>4, <1>5

LEMMA StillKeeps ==
    ASSUME IInv, Still
    PROVE  Polite' /\ InStep' /\ LogsOnlyWhatWasSent'
<1>1. /\ stream' = stream /\ pos' = pos /\ pop3' = pop3 /\ log' = log /\ at' = at
      /\ seamless' = seamless /\ polite' = polite
    BY DEF Still
<1>2. Polite'
    <2>1. Lines' <=> Lines
        BY <1>1, LinesStay
    <2>2. Ready(pop3)' <=> Ready(pop3)
        BY <1>1 DEF Ready
    <2> QED
        BY <1>1, <2>1, <2>2 DEF IInv, Polite
<1>3. InStep'
    <2>1. PICK q, n, logins : pop3 = q /\ at = n /\ log = logins
        OBVIOUS
    <2>2. seamless' /\ Lines /\ Arguments
              => PopAt(q, n) /\ (Blocked \/ Lists(logins, Spoken(n)))
        BY <1>1, <2>1 DEF IInv, InStep
    <2> QED
        BY <1>1, <2>1, <2>2, InStepIs
<1>4. LogsOnlyWhatWasSent'
    <2>1. PICK logins : log = logins
        OBVIOUS
    <2>2. seamless' /\ Lines /\ Arguments =>
             \A k \in DOMAIN logins : \E i \in Passwords : Agree(logins[k], i)
        BY <1>1, <2>1 DEF IInv, LogsOnlyWhatWasSent, Agree
    <2> QED
        BY <1>1, <2>1, <2>2, LoggedIs
<1> QED
    BY <1>2, <1>3, <1>4

LEMMA InvNext == IInv /\ [Next]_vars => IInv'
<1> SUFFICES ASSUME IInv, [Next]_vars PROVE IInv'
    OBVIOUS
<1>1. TypeOK' /\ (CopyRead \/ Still)
    BY NextTyped DEF IInv
<1>2. CASE CopyRead
    BY <1>1, <1>2, ReadPolite, ReadInStep DEF IInv
<1>3. CASE Still
    BY <1>1, <1>3, StillKeeps DEF IInv
<1> QED
    BY <1>1, <1>2, <1>3

LEMMA Invariant == Spec => []IInv
BY InvInit, InvNext, PTL DEF Spec

(* What parse_pop3 logs was said (copy_st.c:126): for every stream of lines *)
(* with arguments, however recv() cuts it, as long as no byte is gone over  *)
(* twice or left out, each name that is logged is that of the last USER     *)
(* before the password next to it, both as far as 255 characters hold them. *)
THEOREM DissectorLogsWhatWasSent == Spec => []LogsOnlyWhatWasSent
<1>1. IInv => LogsOnlyWhatWasSent
    BY DEF IInv
<1> QED
    BY <1>1, Invariant, PTL

(* A client that speaks line by line is logged every time it logs in, at   *)
(* the end of the line of its password, in the order it does, and never    *)
(* else (copy_st.c:115), when it says USER first and its names fit.        *)
THEOREM DissectorLoginLogged == Spec => []LoginLogged
<1>1. IInv => LoginLogged
    <2>1. SUFFICES ASSUME IInv, polite, Lines
                   PROVE  /\ seamless
                          /\ (Arguments /\ \A i \in DOMAIN stream : Command(i, PASS) => Fits(i))
                                => Lists(log, Spoken(pos))
        BY DEF LoginLogged
    <2>2. seamless /\ at = pos
        BY <2>1 DEF IInv, Polite
    <2>3. (\A i \in DOMAIN stream : Command(i, PASS) => Fits(i)) => ~ Blocked
        BY DEF Blocked
    <2>4. Arguments => Blocked \/ Lists(log, Spoken(at))
        BY <2>1, <2>2 DEF IInv, InStep
    <2> QED
        BY <2>2, <2>3, <2>4
<1> QED
    BY <1>1, Invariant, PTL
=============================================================================
