---------------------------- MODULE MCDissector ----------------------------
(* Instances of Dissector for TLC: logins one after the other, other        *)
(* commands with and without an argument, a password alone, fields that are *)
(* full or too long, arguments that look like commands, and a CR and a LF   *)
(* that stand alone                                                         *)
EXTENDS Dissector

Line(word, argument) == <<word, SP>> \o argument \o <<CR, LF>>
LoginOf(user, pass) == Line(USER, user) \o Line(PASS, pass)

MCStreams ==
    {LoginOf(<<"a">>, <<"x">>) \o Line(PASS, <<"y">>),
     Line(USER, <<"a">>) \o LoginOf(<<"b">>, <<"x">>),
     Line("STAT", <<"a">>) \o LoginOf(<<"a">>, <<"x">>),
     Line(USER, <<"a">>) \o <<"NOOP", CR, LF>> \o LoginOf(<<"b">>, <<"x">>),
     Line(PASS, <<"y">>) \o LoginOf(<<"a">>, <<"x">>),
     LoginOf(<<"a", "b", "c">>, <<"x">>), LoginOf(<<"a">>, <<"x", "y", "z", "x">>),
     LoginOf(<<USER>>, <<SP, PASS>>),
     <<USER, SP, "a", CR, "z">> \o Line(PASS, <<"x">>),
     <<USER, SP, "a", LF>> \o LoginOf(<<"b">>, <<"x">>)}
=============================================================================
