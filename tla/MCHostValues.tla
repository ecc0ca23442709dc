---------------------------- MODULE MCHostValues ----------------------------
EXTENDS HostValues

Samples == {<<"bool", TRUE>>, <<"unsigned", 0>>, <<"unsigned", 7>>, <<"unsigned", 8>>,
    <<"unsigned", 9>>,
    <<"unsigned", 31>>, <<"unsigned", 32>>, <<"unsigned", 63>>, <<"negative", -1>>,
    <<"negative", -32>>, <<"float", 2>>, <<"null", 0>>}
A(v) == <<"string", v>>
Node(peer) == <<"object", ("peerId" :> peer)>>
Lists == {<<"array", <<>>>>, <<"array", <<A("p"), A("q")>>>>, <<"array", <<A("p"), <<"null", 0>>>>>>,
    <<"array", <<Node(A("p"))>>>>, <<"array", <<Node(A("p")), Node(<<"null", 0>>)>>>>}
Values(key) ==
    Samples \cup
    CASE key \in {"addrs", "bootstrapNodes"} -> Lists
      [] key = "transport" -> {A("tcp"), A("quic-v1"), A("udp")}
      [] key = "announcedAddressPolicy" -> {A("routable"), A("any")}
      [] key = "natExplicitIp" -> {A(<<"ip">>), A(<<"ip", Nul>>)}
      [] key = "privKey" -> {A(<<>>)}
      [] OTHER -> {}
Single(key) == {<<"object", (key :> v)>> : v \in Values(key)}
Good(key) ==
    CASE key \in {"addrs", "bootstrapNodes"} -> <<"array", <<>>>>
      [] key \in {"transport", "announcedAddressPolicy"} -> A("any")
      [] key \in {"privKey", "natExplicitIp"} -> A(<<>>)
      [] key \in Durations \cup Counts \cup Bounds \cup Limits -> <<"unsigned", 3>>
      [] key = "natHolePunchingMaxNumRelays" -> <<"negative", -2>>
      [] OTHER -> <<"bool", FALSE>>
Full == [key \in Range(Order) |-> Good(key)]
\* Every key, and all of them with a last one that is bad.
MCObjects ==
    {<<"object", Defaults>>, <<"object", Full>>,
     <<"object", [Full EXCEPT !["gossipsubDisconnectPeerAboveRateLimit"] = <<"null", 0>>]>>}
        \cup UNION {Single(key) : key \in Range(Order)}
\* No other key, every other key, and one that is bad and read after privKey.
MCCompanions ==
    {<<"object", Defaults>>, <<"object", Restrict(Full, DOMAIN Full \ {"privKey"})>>,
     <<"object", ("autonat" :> <<"null", 0>>)>>}

MCKeys == {<<b, c>> : b \in {0, 15}, c \in {1, 14}}
MCRecords == SeqOf({0, 1, 6, 15}, 4)
Characters == {<<"symbol", n>> : n \in 0 .. 7} \cup {Pad, Alien}
MCTexts == SeqOf({<<"symbol", 0>>, <<"symbol", 2>>, Pad, Alien}, 5)
               \cup [1 .. 4 -> Characters] \cup {Base64Encode(r) : r \in MCRecords}
===============================================================================
