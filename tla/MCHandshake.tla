---------------------------- MODULE MCHandshake ----------------------------
(***************************************************************************)
(* Instances of Handshake for TLC.  A byte has 32 values instead of 256, so*)
(* that recv() may cut the stream anywhere: the greatest length is 31, the *)
(* arrays of a login have 31 bytes and the block of a name wraps at 32,    *)
(* like 255, 255 and 256 of the code.  One message of each kind and length *)
(* that matters is put among others that are ordinary, with what a client  *)
(* may send behind it.                                                     *)
(***************************************************************************)
EXTENDS Handshake

Many(n, c) == [i \in 1 .. n |-> c]

Name1 == Many(2, 7)
Pass1 == <<8>>
NameMax == Many(Longest - 1, 7)
PassMax == Many(Longest, 8)
MCAccounts == {<<Name1, Pass1>>, <<NameMax, PassMax>>}

LoginOf(name, pass) == <<1, Len(name)>> \o name \o <<Len(pass)>> \o pass
NameOf(name) == <<5, 1, 0, FQDN, Len(name)>> \o name \o <<1, 25>>

NoAuthHello == <<5, 1, NOAUTH>>
AuthHello == <<5, 2, NOAUTH, AUTH>>
Ip4 == <<5, 1, 0, IPV4, 10, 0, 0, 1, 1, 11>>
Ip6 == <<5, 1, 0, IPV6>> \o Many(16, 30) \o <<0, 22>>

Hellos == {<<4, 1, NOAUTH>>, <<5, 0, 5>>, <<5, 3, 7, NOAUTH, 9>>, <<5, 1, 9, 5>>,
           <<5, Longest>> \o Many(Longest - 1, 9) \o <<NOAUTH>>}
Logins == {LoginOf(Name1, Pass1), LoginOf(Name1, Name1), LoginOf(NameMax, PassMax),
           LoginOf(Many(Longest, 7), PassMax), LoginOf(Many(Longest, 7), <<7, 0, 8>>),
           LoginOf(<<7, 7, 0, 9>>, Pass1),
           <<2, 1>>, <<1, 0, 5>>, <<1, 1, 7, 0>>}
Requests == {Ip4, Ip4 \o <<1, 2, 3>>, Ip6, NameOf(<<9, 6>>), NameOf(<<9, 0, 6>>),
             NameOf(Many(Longest - 1, 9)), NameOf(Many(Longest, 9)),
             <<4, 1>>, <<5, 2, 0, IPV4, 10, 0, 0, 1>>, <<5, 1, 1, IPV4>>,
             <<5, 1, 0, 2, 1, 1>>, <<5, 1, 0, FQDN, 0, 1>>}

MCStreams ==
    {h \o Ip4 : h \in Hellos} \cup {AuthHello \o a \o Ip4 : a \in Logins}
    \cup {NoAuthHello \o r : r \in Requests}
MCChunks == 1 .. 80
=============================================================================
