----------------------------- MODULE Dissector -----------------------------
(***************************************************************************)
(* The POP3 dissector of copy_st.c: after each recv() from the client of a *)
(* connection to port 110, parse_pop3 goes over all that is in read_buffer *)
(* and looks for a user and a password to log.  What is not written to the *)
(* origin yet is gone over again after the next recv().                    *)
(*                                                                         *)
(* A word of the protocol is one symbol of the stream, and so are the rest *)
(* of its alphabet: the space, CR, LF and the characters of an argument.   *)
(* read_buffer is the part of the stream between `drained` and `pos`, its  *)
(* contents the business of Copy.tla.                                      *)
(***************************************************************************)
EXTENDS Integers, Sequences

CONSTANTS
    Streams,    \* what clients send to the origin
    MaxField,   \* length of the fields user and pass: 255
    MaxEarly,   \* bound: bytes already in read_buffer when COPY is entered
    MaxChunks   \* bound: how often recv() returns some

ASSUME FieldAssumption == {MaxField, MaxEarly, MaxChunks} \subseteq Nat
ASSUME StreamsAssumption == Streams \subseteq Seq(STRING)

USER == "USER"
PASS == "PASS"
SP == " "
CR == "CR"
LF == "LF"

VARIABLES
    stream,     \* what this client sends
    pos,        \* how much of it recv() has returned
    drained,    \* how much of that copy_write has sent to the origin
    disector,   \* get_disector(): the flag monitoring sets
    pop3,       \* struct pop3_st
    chunks,     \* how often recv() has returned bytes
    log,        \* the users and passwords logged
    at,         \* history: where the last parse stopped
    seamless,   \* history: each parse began where the one before had stopped
    polite      \* history: recv() returned one line at a time, the one before
                \* it written already, with the flag on

vars == <<stream, pos, drained, disector, pop3, chunks, log, at, seamless, polite>>

-----------------------------------------------------------------------------
(* init_pop3_parsers *)
Fresh == [state |-> "COMMAND", cmd |-> "", user |-> <<>>, pass |-> <<>>,
          user_done |-> FALSE, pass_done |-> FALSE]

(* cmd with one more word: only USER and PASS by themselves matter *)
Extended(cmd, c) == IF cmd = "" /\ c \in {USER, PASS} THEN c ELSE "other"

(* user_index = 0 and pass_index = 0 when a command begins; mutant: they   *)
(* are not reset                                                           *)
EmptiedNot(field) == field
Emptied(field) == <<>>

(* A field with one more character; what exceeds it is dropped; mutant: it *)
(* is not                                                                  *)
KeptWhole(field, c) == Append(field, c)
Kept(field, c) == IF Len(field) < MaxField THEN Append(field, c) ELSE field

(* The end of a full field is stored behind it, on its own `done` flag,    *)
(* after or before (`clears`) the flag is set                              *)
Done(field, clears) == Len(field) < MaxField \/ ~ clears

(* What plog prints: a full field without an end reads on into its flag    *)
(* and what lies behind that, the password behind the user, an empty       *)
(* command behind the password                                             *)
Printed(field, behind) ==
    IF Len(field) < MaxField THEN field ELSE field \o <<"TRUE">> \o behind
Logged(p) ==
    LET pass == Printed(p.pass, <<>>)
    IN  <<Printed(p.user, pass), pass>>

(* One character of parse_pop3: the parser after it, how many characters   *)
(* it takes and whether it completes a login.  POP3_CHECK_COMMAND looks at *)
(* the space that ended the command, and stays for the arguments of any    *)
(* command but USER and PASS; the CR of an argument is taken with its LF.  *)
Take(p, n) == [p |-> p, takes |-> n, logs |-> FALSE]
Restart(p) == [p EXCEPT !.state = "COMMAND", !.cmd = ""]
StepPop3(p, c, clears) ==
    CASE p.state = "COMMAND" /\ c # SP ->
            Take([p EXCEPT !.cmd = Extended(@, c)], 1)
      [] p.state = "COMMAND" /\ c = SP ->
            CASE p.cmd = USER -> Take([p EXCEPT !.state = "USER", !.user = Emptied(@), !.cmd = ""], 1)
              [] p.cmd = PASS -> Take([p EXCEPT !.state = "PASS", !.pass = Emptied(@), !.cmd = ""], 1)
              [] OTHER -> Take([p EXCEPT !.state = "CHECK", !.cmd = ""], 1)
      [] p.state = "CHECK" ->
            IF c = CR THEN Take(Restart(p), 2) ELSE Take(p, 1)
      [] p.state = "USER" ->
            IF c = CR THEN Take([Restart(p) EXCEPT !.user_done = Done(p.user, clears)], 2)
            ELSE Take([p EXCEPT !.user = Kept(@, c)], 1)
      [] p.state = "PASS" ->
            IF c = CR THEN Take([p EXCEPT !.state = "DONE",
                                          !.pass_done = Done(p.pass, clears)], 1)
            ELSE Take([p EXCEPT !.pass = Kept(@, c)], 1)
      [] p.state = "DONE" ->
            IF p.user_done /\ p.pass_done
            THEN [p |-> Restart(p), takes |-> 1, logs |-> TRUE]
            ELSE Take(p, 1)

(* The parser is made for the first chunk and kept for the next ones;      *)
(* mutant: it is made for every chunk                                      *)
ResumedFresh == Fresh
Resumed == pop3

(* parse_pop3: from the read pointer to the end of the buffer, or to the   *)
(* first login                                                             *)
Parse(first, last, clears) ==
    LET after[i \in first .. last] ==
            IF i = first THEN [p |-> Resumed, at |-> first, logs |-> FALSE]
            ELSE LET before == after[i - 1]
                     step == StepPop3(before.p, stream[i], clears)
                 IN  IF before.logs \/ before.at >= i THEN before
                     ELSE [p |-> step.p, at |-> i - 1 + step.takes, logs |-> step.logs]
    IN  after[last]

-----------------------------------------------------------------------------
Init ==
    /\ stream \in Streams
    /\ pos \in 0 .. MaxEarly /\ pos <= Len(stream)
    /\ drained = 0 /\ at = 0
    /\ disector \in BOOLEAN
    /\ pop3 = Fresh
    /\ chunks = 0
    /\ log = <<>>
    /\ seamless = TRUE /\ polite = (pos = 0)

(* copy_read of the client's side *)
CopyRead ==
    /\ chunks < MaxChunks
    /\ chunks' = chunks + 1
    /\ \E n \in 1 .. Len(stream) - pos, clears \in BOOLEAN :
          /\ pos' = pos + n
          /\ LET read == Parse(drained, pos', clears)
             IN  IF disector
                 THEN /\ pop3' = read.p
                      /\ at' = read.at
                      /\ log' = IF read.logs THEN Append(log, Logged(read.p))
                                ELSE log
                 ELSE UNCHANGED <<pop3, at, log>>
    /\ seamless' = (seamless /\ disector /\ drained = at)
    /\ polite' = (polite /\ disector /\ drained = pos
                  /\ \A i \in pos + 1 .. pos' : stream[i] = LF <=> i = pos')
    /\ UNCHANGED <<stream, drained, disector>>

(* copy_write of the origin's side, partial or not *)
CopyWrite ==
    /\ \E m \in 1 .. pos - drained : drained' = drained + m
    /\ UNCHANGED <<stream, pos, disector, pop3, chunks, log, at, seamless, polite>>

(* DISECTOR_ACTIVATION of a monitoring session *)
SetDisector ==
    /\ disector' = ~ disector
    /\ UNCHANGED <<stream, pos, drained, pop3, chunks, log, at, seamless, polite>>

Next == CopyRead \/ CopyWrite \/ SetDisector

Spec == Init /\ [][Next]_vars

-----------------------------------------------------------------------------
(* Types: the fields stay within their arrays *)
Field == {field \in Seq(STRING) : Len(field) <= MaxField}
Pop == [state : {"COMMAND", "CHECK", "USER", "PASS", "DONE"},
        cmd : {"", USER, PASS, "other"}, user : Field, pass : Field,
        user_done : BOOLEAN, pass_done : BOOLEAN]
Shown == Seq(STRING \cup {"TRUE"})     \* what was sent, and the flag

TypeOK ==
    /\ stream \in Streams
    /\ pos \in 0 .. Len(stream) /\ drained \in 0 .. pos /\ at \in 0 .. pos + 1
    /\ disector \in BOOLEAN /\ seamless \in BOOLEAN /\ polite \in BOOLEAN
    /\ pop3 \in Pop
    /\ chunks \in 0 .. MaxChunks
    /\ log \in Seq(Shown \X Shown)

(* The lines of the stream, the arguments of USER and PASS, and what there *)
(* is to log: the password of a PASS with the name of the last USER        *)
LineAt(i) == i \in DOMAIN stream /\ (i = 1 \/ stream[i - 1] = LF)
Command(i, word) == LineAt(i) /\ stream[i] = word
EndOf(i) == CHOOSE e \in i .. Len(stream) :
                stream[e] = CR /\ \A j \in i .. e - 1 : stream[j] # CR
Argument(i) == SubSeq(stream, i + 2, EndOf(i) - 1)
LastUser(i) == CHOOSE u \in 1 .. i :
                Command(u, USER) /\ \A j \in u + 1 .. i : ~ Command(j, USER)

LoginAt(i) == <<Argument(LastUser(i)), Argument(i)>>
Passwords == {i \in DOMAIN stream : Command(i, PASS) /\ \E u \in 1 .. i : Command(u, USER)}

(* The passwords whose line has ended, but for its LF, before `last`, and  *)
(* whether a list is that of their logins, in the order they are spoken in *)
Spoken(last) == {i \in Passwords : \E e \in i .. last - 1 : stream[e] = CR}
Lists(logins, is) ==
    \E order \in [DOMAIN logins -> is] :
        /\ \A k, l \in DOMAIN logins : k < l => order[k] < order[l]
        /\ \A i \in is : \E k \in DOMAIN logins : order[k] = i
        /\ \A k \in DOMAIN logins : logins[k] = LoginAt(order[k])

(* CR and LF come together (parse_pop3 takes what is behind a CR for LF)   *)
Lines ==
    /\ \A i \in DOMAIN stream : stream[i] = LF => i > 1 /\ stream[i - 1] = CR
    /\ \A i \in 1 .. Len(stream) - 1 : stream[i] = CR => stream[i + 1] = LF

(* No command comes without an argument (which parse_pop3 reads together   *)
(* with the line that follows)                                             *)
Arguments == \A i \in 1 .. Len(stream) - 1 : LineAt(i) => stream[i + 1] = SP

Clipped(field) == SubSeq(field, 1, IF Len(field) < MaxField THEN Len(field) ELSE MaxField)

(* What is logged was said, as far as its fields hold it, a name together  *)
(* with its own password, unless bytes were gone over twice or not at all. *)
LogsOnlyWhatWasSent ==
    seamless /\ Lines /\ Arguments =>
        \A k \in DOMAIN log : \E i \in Passwords : \A field \in {1, 2} :
            Clipped(log[k][field]) = Clipped(LoginAt(i)[field])

(* A password with a USER before it, and both fields hold their ends *)
Fits(i) == i \in Passwords /\ \A k \in {1, 2} : Len(LoginAt(i)[k]) < MaxField

(* A client that speaks line by line, which the origin's socket takes at   *)
(* once, is logged every time it logs in, at the end of the line of its    *)
(* password, provided that it says USER before PASS and that the fields    *)
(* hold their ends                                                         *)
LoginLogged ==
    polite /\ Lines =>
        /\ seamless
        /\ (Arguments /\ \A i \in DOMAIN stream : Command(i, PASS) => Fits(i))
              => Lists(log, Spoken(pos))
=============================================================================
