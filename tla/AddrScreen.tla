------------------------------ MODULE AddrScreen ------------------------------
(***************************************************************************)
(* The multiaddresses that cross the module: those a caller passes and the *)
(* node will dial, store or sign (addr_filter.cpp, the screens of          *)
(* plugin.h), and those a reply brings back (callbacks.cpp, utils.h).      *)
(*                                                                         *)
(* An address is a sequence of components.  The code sees their segments   *)
(* only, and walks them; what a component says (a "wildcard" or "loopback" *)
(* host, a "zeroPort", or nothing against it) is known to its author.      *)
(***************************************************************************)
EXTENDS IpLiterals, FiniteSets

CONSTANTS Addresses, \* what a caller may pass as an address
          Listed,    \* those of them that lists of several are made of
          MaxList    \* length of such a list (bounds the instance)

VARIABLES
    device,   \* the build is a device's: loopback is nobody else's
    policy,   \* announcedAddressPolicy
    op,       \* the call that is running, or "none"
    pc,       \* "idle" | "resolve" | "screen" | "submitted" | "answered" | "refused"
              \*   | "failed"
    bound,    \* createXpr without addresses: the sockets the node is bound to
    given,    \* the addresses to screen
    seen,     \* how many of them have been screened
    kept,     \* those that were kept
    told,     \* the address lists of the reply
    handed    \* what the caller gets of them

callvars == <<bound, given, seen, kept, told, handed>>
vars == <<device, policy, op, pc, bound, given, seen, kept, told, handed>>

Lists == BoundedSeq(Listed, MaxList)
Argument == {<<a>> : a \in Addresses} \cup Lists
Policies == {"unfiltered", "dialable", "routable"}

\* The elements that are so, in their order: SelectSeq, as a function of the places.
Those(list, IsSo(_)) ==
    LET upTo[n \in 0 .. Len(list)] ==
          IF n = 0 THEN <<>>
          ELSE IF IsSo(list[n]) THEN Append(upTo[n - 1], list[n]) ELSE upTo[n - 1]
    IN upTo[Len(list)]

Init ==
    /\ device \in BOOLEAN /\ policy \in Policies
    /\ op = "none" /\ pc = "idle" /\ bound = <<>>
    /\ given = <<>> /\ seen = 0 /\ kept = <<>> /\ told = <<>> /\ handed = <<>>

-----------------------------------------------------------------------------
(* classify.                                                               *)

Segments(a) == FlattenSeq([i \in 1 .. Len(a) |-> a[i].segs])

\* Mutant: the list of protocols with a value has only the wire ones.
WireTakesValue(seg) == seg[1] = "word" /\ seg[2] \in {"ip4", "ip6", "tcp", "udp", "sctp"}

TakesValue(seg) ==
    seg[1] = "word" /\ seg[2] \in {"ip4", "ip6", "tcp", "udp", "sctp", "dns", "dns4", "dns6",
                                   "dnsaddr", "p2p", "ipfs", "unix", "onion", "onion3", "memory"}

\* What a host's value is, by the bytes it stands for.
WildcardHost(proto, value) ==
    \/ proto = Word("ip4") /\ Ip4(value) = <<0, 0, 0, 0>>
    \/ proto = Word("ip6") /\ Ip6(value) = <<0, 0, 0, 0, 0, 0, 0, 0>>

LoopbackHost(proto, value) ==
    \/ proto = Word("ip4") /\ Ip4(value) # Unreadable /\ Ip4(value)[1] = 127
    \/ proto = Word("ip6") /\ Ip6(value) = <<0, 0, 0, 0, 0, 0, 0, 1>>

ZeroPort(proto, value) ==
    proto \in {Word("tcp"), Word("udp"), Word("sctp")} /\ IsZeroPort(value)

\* The walk reads a segment as a protocol unless it is the value of the one before.
Protocols(parts) ==
    LET isProtocol[i \in 1 .. Len(parts)] ==
          i = 1 \/ ~(isProtocol[i - 1] /\ TakesValue(parts[i - 1]))
    IN {i \in 1 .. Len(parts) - 1 : isProtocol[i] /\ TakesValue(parts[i])}

\* The first wildcard host or zero port decides; loopback only without them.
Classify(a, allowLoopback) ==
    LET parts == Segments(a)
        At(Is(_, _)) == {i \in Protocols(parts) : Is(parts[i], parts[i + 1])}
        faults == At(WildcardHost) \cup At(ZeroPort)
    IN IF faults # {}
       THEN IF Min(faults) \in At(WildcardHost) THEN "wildcard" ELSE "zeroPort"
       ELSE IF At(LoopbackHost) # {} /\ ~allowLoopback THEN "loopback" ELSE "ok"

Dialable(a) == Classify(a, TRUE) = "ok"
PublishLoopback == ~device

-----------------------------------------------------------------------------
(* The calls.  A call that has addresses for the node screens them first.  *)

Start(call, list, at) ==
    /\ pc = "idle"
    /\ op' = call /\ pc' = at /\ given' = list
    /\ UNCHANGED <<device, policy, bound, seen, kept, told, handed>>

\* connectPeer, peerstoreAddPeer, peerstoreSetPeerAddresses.
CallDial == \E list \in Argument : Start("dial", list, "screen")

CallReserve == \E list \in Lists : Start("circuitRelayReserve", list, "screen")

\* dialCircuitRelay: one address, which is refused as a list of one is.
CallRelay == \E a \in Listed : Start("dialCircuitRelay", <<a>>, "screen")

CallCreateXpr == \E list \in Argument :
    Start("createXpr", list, IF list = <<>> THEN "resolve" ELSE "screen")

Own == {"peerInfo", "Multiaddrs", "MyBoundPorts"}
Peers == {"kadGetProviders", "kadGetRandomRecords", "discoLookup", "discoRandomLookup"}
CallAsk == \E call \in Own \cup Peers \cup {"peerstoreGetPeerInfo", "decodeXpr"} :
    Start(call, <<>>, "submitted")

\* The rules of the binding, which are not classify's: they are about wire addresses, a
\* host and a port of it, and condemn no relay hop and no name.
WireAddress(a) ==
    /\ Len(a) > 1
    /\ a[1].segs[1] \in {Word("ip4"), Word("ip6")} /\ a[2].segs[1] \in {Word("tcp"), Word("udp")}
    /\ \A i \in 3 .. Len(a) : a[i].segs[1] # Word("p2p-circuit")

IsLoopbackMA(a) == WireAddress(a) /\ a[1].says = "loopback"
IsUnspecifiedMA(a) == WireAddress(a) /\ a[1].says = "wildcard"
HasZeroPortMA(a) == WireAddress(a) /\ a[2].says = "zeroPort"

IsDialableMA(a) == ~(IsUnspecifiedMA(a) \/ HasZeroPortMA(a))
IsRoutableMA(a) == IsDialableMA(a) /\ ~IsLoopbackMA(a)

\* What peerInfo says of a node that is bound to these sockets: the binding
\* announces those its policy admits.
Announced(sockets) ==
    Those(sockets, LAMBDA a : CASE policy = "unfiltered" -> TRUE
                                [] policy = "dialable" -> IsDialableMA(a)
                                [] policy = "routable" -> IsRoutableMA(a))

Resolve ==
    /\ pc = "resolve"
    /\ \E sockets \in Lists : bound' = sockets /\ given' = Announced(sockets)
    /\ pc' = "screen"
    /\ UNCHANGED <<device, policy, op, seen, kept, told, handed>>

\* Loopback is a fault only of what other nodes will read.
AllowLoopback == op # "createXpr" \/ PublishLoopback

\* One round of filter's loop.
Screen ==
    /\ pc = "screen" /\ seen < Len(given)
    /\ LET a == given[seen + 1]
       IN kept' = IF Classify(a, AllowLoopback) = "ok" THEN Append(kept, a) ELSE kept
    /\ seen' = seen + 1
    /\ UNCHANGED <<device, policy, op, pc, bound, given, told, handed>>

Screened == pc = "screen" /\ seen = Len(given)

\* A list that had addresses and has none left is refused: to libp2p an empty
\* list means the peerstore, or every socket.
NothingLeft == given # <<>> /\ kept = <<>>

Refuse ==
    /\ Screened /\ NothingLeft
    /\ pc' = "refused"
    /\ UNCHANGED <<device, policy, op, callvars>>

Submit ==
    /\ Screened /\ ~NothingLeft
    /\ pc' = "submitted"
    /\ UNCHANGED <<device, policy, op, callvars>>

-----------------------------------------------------------------------------
(* The replies: each brings lists of addresses, one for every peer it is of. *)

Replies ==
    CASE op \in Own -> {<<Announced(sockets)>> : sockets \in Lists}
      [] op \in Peers -> BoundedSeq(BoundedSeq(Listed, 2), 2)
      [] op \in {"peerstoreGetPeerInfo", "circuitRelayReserve", "decodeXpr"} ->
           {<<list>> : list \in Lists}
      [] OTHER -> {<<>>}

SeqDialable(list) == Those(list, Dialable)

\* Mutant: the records of a lookup are handed over as decodeXpr hands over its own.
RecordEntryWhole(list, screenAddrs) == list

\* recordEntryToJson.
RecordEntry(list, screenAddrs) == IF screenAddrs THEN SeqDialable(list) ELSE list

\* The port that follows the first tcp or udp, whatever those two are there, if it
\* begins with a number: that is all of a segment that std::stoi reads.
ExtractPort(a) ==
    LET parts == Segments(a)
        after == {i \in 2 .. Len(parts) : parts[i - 1] \in {Word("tcp"), Word("udp")}}
    IN IF after # {} /\ parts[Min(after)][1] \in {"digits", "prefixed"}
       THEN <<parts[Min(after)][2][2]>> ELSE <<>>

\* The callback and the transform of each call; what has no address to show is <<>>.
Handed(reply) ==
    CASE op \in {"peerInfo", "Multiaddrs"} -> reply
      [] op = "MyBoundPorts" ->
           <<FlattenSeq([i \in 1 .. Len(reply[1]) |-> ExtractPort(reply[1][i])])>>
      [] op = "decodeXpr" -> <<RecordEntry(reply[1], FALSE)>>
      [] op = "kadGetProviders" -> [i \in 1 .. Len(reply) |-> SeqDialable(reply[i])]
      [] op \in Peers \ {"kadGetProviders"} ->
           [i \in 1 .. Len(reply) |-> RecordEntry(reply[i], TRUE)]
      [] op \in {"peerstoreGetPeerInfo", "circuitRelayReserve"} -> <<SeqDialable(reply[1])>>
      [] OTHER -> <<>>

Answer ==
    /\ pc = "submitted" /\ pc' = "answered"
    /\ \E reply \in Replies : told' = reply /\ handed' = Handed(reply)
    /\ UNCHANGED <<device, policy, op, bound, given, seen, kept>>

\* The node refuses, or does not answer in time; the resolution fails as the call does.
Fail ==
    /\ pc \in {"resolve", "submitted"} /\ pc' = "failed"
    /\ UNCHANGED <<device, policy, op, callvars>>

Return ==
    /\ pc \in {"answered", "refused", "failed"}
    /\ pc' = "idle" /\ op' = "none" /\ bound' = <<>>
    /\ given' = <<>> /\ seen' = 0 /\ kept' = <<>> /\ told' = <<>> /\ handed' = <<>>
    /\ UNCHANGED <<device, policy>>

Next ==
    \/ CallDial \/ CallReserve \/ CallRelay \/ CallCreateXpr \/ CallAsk
    \/ Resolve \/ Screen \/ Refuse \/ Submit \/ Answer \/ Fail \/ Return

Spec == Init /\ [][Next]_vars

-----------------------------------------------------------------------------
(* Properties.                                                             *)

\* What an address says, read by its components rather than by its segments.
Admissible(a, allowLoopback) ==
    \A i \in 1 .. Len(a) : /\ a[i].says \notin {"wildcard", "zeroPort"}
                           /\ allowLoopback \/ a[i].says # "loopback"

\* The screening keeps the addresses that name a host and a port, in their order,
\* and no other: every spelling of the unspecified and of the loopback host is known
\* for what it is and no other literal is taken for them, no value is read as a
\* protocol, no flag hides what follows it, and loopback goes only from what a device
\* publishes (addr_filter.cpp:170).
KeepsAdmissible ==
    kept = Those(SubSeq(given, 1, seen), LAMBDA a : Admissible(a, AllowLoopback))

\* The ports an address is bound to.
PortsOf(a) ==
    LET ports == Those(a, LAMBDA c : c.segs[1] \in {Word("tcp"), Word("udp")})
    IN [i \in 1 .. Len(ports) |-> ports[i].segs[2][2][2]]

\* Whoever asks for the addresses of another node gets those that can be dialled and
\* all of those, peer by peer, so that what one call hands out the next accepts whole
\* (README.md:118-122); a record that is decoded, and the node's own addresses, come
\* as they are, and its ports are those it is bound to.
HandsOutDialable ==
    pc = "answered" =>
      CASE op \in {"peerInfo", "Multiaddrs", "decodeXpr"} -> handed = told
        [] op = "MyBoundPorts" ->
             handed = <<FlattenSeq([i \in 1 .. Len(told[1]) |-> PortsOf(told[1][i])])>>
        [] OTHER -> handed = [i \in 1 .. Len(told) |->
                                Those(told[i], LAMBDA a : Admissible(a, TRUE))]

\* createXpr of a node that is bound to sockets does not hand libp2p an empty list, to
\* publish every one of them (integration_service_discovery.cpp:341-343).
NeverLeftToSigner ==
    pc = "submitted" /\ op = "createXpr" /\ bound # <<>> => kept # <<>>
=============================================================================
