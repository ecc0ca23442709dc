----------------------------- MODULE MCAddrScreen -----------------------------
(* AddrScreen on addresses of up to three components: every class of host and *)
(* port, a host with a protocol's name, values the code cannot read or must   *)
(* not read as ports, flags, a last component without its value, and the      *)
(* literals of the hosts spelled in every way that elides or pads zeros.      *)
EXTENDS AddrScreen

Part(proto, value, says) == [segs |-> <<Word(proto), value>>, says |-> says]
Flag(proto) == [segs |-> <<Word(proto)>>, says |-> "other"]

\* Literals, by what they stand for.
Dec(n) == <<"digits", <<IF n > 99 THEN 3 ELSE IF n > 9 THEN 2 ELSE 1, n>>>>
Dotted(v4, pad) ==
    <<"dotted", [k \in 1 .. Len(v4) |-> IF pad THEN <<3, v4[k]>> ELSE Dec(v4[k])[2]]>>

Saying4(v4) == IF v4 = <<0, 0, 0, 0>> THEN "wildcard" ELSE IF v4[1] = 127 THEN "loopback" ELSE "other"
Quads == {<<0, 0, 0, 0>>, <<127, 0, 0, 1>>, <<127, 255, 0, 0>>, <<0, 0, 0, 1>>, <<128, 0, 0, 1>>,
          <<192, 0, 2, 1>>}
Hosts4 == {Part("ip4", Dotted(q, pad), Saying4(q)) : q \in Quads, pad \in BOOLEAN}

Hex(n, width) == <<"hex", <<width, n>>>>
Joined(tokens) == FlattenSeq([k \in 1 .. Len(tokens) |->
                                IF k = 1 THEN <<tokens[k]>> ELSE <<Sep, tokens[k]>>])

\* The groups g with those of the range from .. to elided, which are zero, and the
\* last two written as a dotted quad.
Spell(g, width, from, to, quad) ==
    LET Text(k) == IF quad /\ k = 7
                   THEN Dotted(<<g[7] \div 256, g[7] % 256, g[8] \div 256, g[8] % 256>>, FALSE)
                   ELSE Hex(g[k], width)
        last == IF quad THEN 7 ELSE 8
    IN IF from > to
       THEN Joined([k \in 1 .. last |-> Text(k)])
       ELSE Joined([k \in 1 .. from - 1 |-> Text(k)]) \o <<Sep, Sep>>
            \o Joined([k \in 1 .. IF to >= last THEN 0 ELSE last - to |-> Text(to + k)])

One(k, n) == [i \in 1 .. 8 |-> IF i = k THEN n ELSE 0]
Groups == {One(k, 1) : k \in 0 .. 8} \cup {One(7, 32512), One(6, 65535)}
Saying6(g) == IF g = One(0, 1) THEN "wildcard" ELSE IF g = One(8, 1) THEN "loopback" ELSE "other"

Hosts6 ==
    {Part("ip6", <<"colons", Spell(c[1], c[2], c[3], c[4], c[5])>>, Saying6(c[1])) :
       c \in {c \in Groups \X {1, 4} \X (1 .. 8) \X (0 .. 8) \X BOOLEAN :
                /\ \A k \in c[3] .. c[4] : c[1][k] = 0
                /\ c[4] < c[3] => c[3] = 1 /\ c[4] = 0
                /\ c[5] => c[4] < 7
                /\ c[2] = 4 => c[1][7] # 32512}}

\* Literals that stand for nothing, which are left to libp2p.
Zero == Hex(0, 1)
Malformed == {Part(v[1], v[2], "other") : v \in {
    <<"ip4", <<"dotted", <<<<1, 0>>, <<1, 0>>, <<1, 0>>>>>>>>,
    <<"ip4", Dotted(<<0, 0, 0, 0, 0>>, FALSE)>>,
    <<"ip4", <<"dotted", <<<<4, 0>>, <<1, 0>>, <<1, 0>>, <<1, 0>>>>>>>>,
    <<"ip4", Dotted(<<127, 0, 0, 256>>, FALSE)>>,
    <<"ip4", <<"dotted", <<<<3, 127>>, <<0, 0>>, <<1, 0>>, <<1, 1>>>>>>>>,
    <<"ip4", Dec(0)>>, <<"ip6", Dec(0)>>, <<"ip6", Dotted(<<0, 0, 0, 0>>, FALSE)>>,
    <<"ip4", <<"colons", <<Sep, Sep>>>>>>, <<"ip6", <<"colons", <<Scope>>>>>>,
    <<"ip6", <<"colons", <<Sep, Hex(1, 1)>>>>>>,
    <<"ip6", <<"colons", <<Sep, Sep, Zero, Sep, Sep>>>>>>,
    <<"ip6", <<"colons", <<Sep, Sep, Hex(0, 5)>>>>>>,
    <<"ip6", <<"colons", <<Sep, Sep, Dotted(<<0, 0, 0, 256>>, FALSE)>>>>>>,
    <<"ip6", <<"colons", Joined([k \in 1 .. 7 |-> Zero])>>>>,
    <<"ip6", <<"colons", Joined([k \in 1 .. 9 |-> Zero])>>>>,
    <<"ip6", <<"colons", <<Sep, Sep>> \o Joined([k \in 1 .. 8 |-> Zero])>>>>}}

Scoped == {Part("ip6", <<"colons", <<Sep, Sep, Hex(1, 1), Scope>>>>, "loopback"),
           Part("ip6", <<"colons", <<Sep, Sep, Scope>>>>, "wildcard")}

Whole == {
    Part("ip4", Dotted(<<0, 0, 0, 0>>, FALSE), "wildcard"),
    Part("ip4", Dotted(<<127, 0, 0, 1>>, FALSE), "loopback"),
    Part("ip4", Dotted(<<192, 0, 2, 1>>, FALSE), "other"),
    Part("ip6", <<"colons", <<Sep, Sep>>>>, "wildcard"),
    Part("dns4", Word("tcp"), "other"), Part("tcp", Dec(0), "zeroPort"),
    Part("tcp", <<"prefixed", <<2, 0>>>>, "other"), Part("udp", <<"digits", <<2, 0>>>>, "zeroPort"),
    Part("udp", Dec(4001), "other"), Part("memory", Dec(0), "other"),
    Flag("quic-v1"), Flag("p2p-circuit")}

MCAddresses ==
    BoundedSeq(Whole, 3) \cup {Append(a, Flag("tcp")) : a \in BoundedSeq(Whole, 2)}
    \cup {<<host, Part("tcp", Dec(4001), "other")>> :
            host \in Hosts4 \cup Hosts6 \cup Malformed \cup Scoped}

\* What the switch may be bound to: a wildcard, loopback, a host, an unbound port, and
\* the hop by a relay on this host.
Socket(v4, says) == <<Part("ip4", Dotted(v4, FALSE), says), Part("tcp", Dec(4001), "other")>>
MCListed == {
    Socket(<<0, 0, 0, 0>>, "wildcard"), Socket(<<127, 0, 0, 1>>, "loopback"),
    Socket(<<192, 0, 2, 1>>, "other"),
    Socket(<<127, 0, 0, 1>>, "loopback") \o <<Flag("p2p-circuit")>>,
    <<Part("ip4", Dotted(<<192, 0, 2, 1>>, FALSE), "other"), Part("udp", Dec(0), "zeroPort"),
      Flag("quic-v1")>>}
===============================================================================
