---------------------------- MODULE ModuleConfig ----------------------------
(***************************************************************************)
(* The config loader (config.h): a JSON document becomes the options of a  *)
(* node.                                                                   *)
(*                                                                         *)
(* A JSON value is <<kind, payload>>: bool, unsigned and negative (what    *)
(* nlohmann calls the integers from zero and below it), float (its         *)
(* integer part), string, array, object (a function from its keys), null.  *)
(* A document that is no JSON is Malformed.  Of strings, the choices are   *)
(* TLA+ strings, keys are hex texts (Codecs), and any other has the        *)
(* characters that matter, of which Nul is one.                            *)
(*                                                                         *)
(* Options are what differs from Libp2pModuleOptions{}: a function from    *)
(* the keys that were put.  Integers keep their widths, as parameters.     *)
(***************************************************************************)
EXTENDS Codecs

CONSTANTS Words,       \* values of uint64_t and size_t: 2^64
          Ints,        \* values of int: 2^32
          MaxDuration  \* int64 max / 1000000: milliseconds, in nanoseconds

ASSUME RangeAssumption ==
    /\ {Words, Ints} \subseteq Nat /\ Words % 2 = 0 /\ Ints % 2 = 0 /\ Ints <= Words
    /\ MaxDuration \in 0 .. Words \div 2 - 1

Int64Max == Words \div 2 - 1
IntMax == Ints \div 2 - 1
Nul == "\\0"
Malformed == <<"malformed", 0>>
Defaults == <<>>  \* no key put

Put(x) == <<"put", x>>
Keep == <<"keep", 0>>
Throw == <<"throw", 0>>

-----------------------------------------------------------------------------
(* A parser per type of field.  nlohmann's get<T> throws on another type.  *)

Flag(v) == IF v[1] = "bool" THEN Put(v[2]) ELSE Throw

IsStrings(v) == v[1] = "array" /\ \A i \in DOMAIN v[2] : v[2][i][1] = "string"

Strings(v) == IF IsStrings(v) THEN Put([i \in DOMAIN v[2] |-> v[2][i][2]]) ELSE Throw

\* n.value(...), for a peer id and its addresses.
BadNode(n) ==
    \/ n[1] # "object"
    \/ "peerId" \in DOMAIN n[2] /\ n[2].peerId[1] # "string"
    \/ "addrs" \in DOMAIN n[2] /\ ~IsStrings(n[2].addrs)

BootstrapNodes(v) ==
    CASE v[1] # "array" -> Keep
      [] v[1] = "array" /\ \E i \in DOMAIN v[2] : BadNode(v[2][i]) -> Throw
      [] OTHER -> Put([i \in DOMAIN v[2] |-> v[2][i][2]])

ParseTransport(v) ==
    CASE v[1] = "string" /\ v[2] = "tcp" -> Put("tcp")
      [] v[1] = "string" /\ v[2] \in {"quic", "quic-v1"} -> Put("quic")
      [] OTHER -> Keep

ParseAnnouncedAddressPolicy(v) ==
    IF v[1] = "string" /\ v[2] \in {"unfiltered", "dialable", "routable"} THEN Put(v[2]) ELSE Keep

PrivKey(v) ==
    LET bytes == IF v[1] = "string" THEN DecodeHex(v[2]) ELSE {}
    IN IF bytes = {} THEN Throw ELSE Put(CHOOSE b \in bytes : TRUE)

NatExplicitIp(v) ==
    IF v[1] = "string" /\ \A i \in DOMAIN v[2] : v[2][i] # Nul THEN Put(v[2]) ELSE Throw

\* Mutant: the range is not checked, and the value is cut to the type.
ParseNonNegativeCut(v, max) ==
    IF v[1] = "unsigned" THEN Put(v[2] % (max + 1)) ELSE Throw

ParseNonNegative(v, max) ==
    IF v[1] = "unsigned" /\ v[2] <= max THEN Put(v[2]) ELSE Throw

ParseInt64(v) ==
    IF v[1] = "negative" \/ (v[1] = "unsigned" /\ v[2] <= Int64Max) THEN Put(v[2]) ELSE Throw

ParseDurationMs(v) ==
    IF v[1] \in {"negative", "unsigned"} /\ v[2] > MaxDuration THEN Throw ELSE ParseInt64(v)

\* Mutant: a count is taken to an unsigned int.
CountUnsigned(v) ==
    CASE v[1] = "bool" -> Put(IF v[2] THEN 1 ELSE 0)
      [] v[1] \in {"unsigned", "negative", "float"} -> Put(v[2] % Ints)
      [] OTHER -> Throw

\* get<int>: a bool or a float is a number too, and a wide one is cut.
Count(v) ==
    CASE v[1] = "bool" -> Put(IF v[2] THEN 1 ELSE 0)
      [] v[1] \in {"unsigned", "negative", "float"} ->
             Put(((v[2] + Ints \div 2) % Ints) - Ints \div 2)
      [] OTHER -> Throw

-----------------------------------------------------------------------------
Durations == {"natDiscoveryTimeoutMs", "natMappingTimeoutMs",
    "natReachabilityScheduleIntervalMs", "natHolePunchingScheduleIntervalMs"}
Counts == {"maxConnections", "maxInConnections", "maxOutConnections", "maxConnsPerPeer"}
Bounds == {"gossipsubQueueMaxMessages", "gossipsubQueueMaxBytes"}
Limits == {"gossipsubMaxMessageSize", "gossipsubOverheadRateLimitBytes",
    "gossipsubOverheadRateLimitIntervalMs"}

\* The keys apply looks at, in the order it does.
Order == <<"addrs", "bootstrapNodes", "transport", "announcedAddressPolicy", "privKey",
    "autonat", "autonatV2", "autonatV2Server", "natPortMappingAuto", "natPortMappingUpnp",
    "natPortMappingNatPmp", "natExplicitIp", "natDiscoveryTimeoutMs", "natMappingTimeoutMs",
    "natReachabilityV1", "natReachabilityV2", "natReachabilityScheduleIntervalMs",
    "natHolePunching", "natHolePunchingMaxNumRelays", "natHolePunchingScheduleIntervalMs",
    "circuitRelay", "circuitRelayClient", "maxConnections", "maxInConnections",
    "maxOutConnections", "maxConnsPerPeer", "gossipsubTriggerSelf", "mountGossipsub",
    "mountKad", "mountServiceDiscovery", "gossipsubQueueMaxMessages",
    "gossipsubQueueMaxBytes", "gossipsubMaxMessageSize", "gossipsubOverheadRateLimitBytes",
    "gossipsubOverheadRateLimitIntervalMs", "gossipsubDisconnectPeerAboveRateLimit">>

Parse(key, v) ==
    CASE key = "addrs" -> Strings(v)
      [] key = "bootstrapNodes" -> BootstrapNodes(v)
      [] key = "transport" -> ParseTransport(v)
      [] key = "announcedAddressPolicy" -> ParseAnnouncedAddressPolicy(v)
      [] key = "privKey" -> PrivKey(v)
      [] key = "natExplicitIp" -> NatExplicitIp(v)
      [] key \in Durations -> ParseDurationMs(v)
      [] key = "natHolePunchingMaxNumRelays" -> ParseInt64(v)
      [] key \in Counts -> Count(v)
      [] key \in Bounds -> ParseNonNegative(v, Words - 1)
      [] key \in Limits -> ParseNonNegative(v, Int64Max)
      [] OTHER -> Flag(v)

\* The places of Order whose statement throws, and those whose statement puts a value.
Throwing(object) ==
    {n \in DOMAIN Order : Order[n] \in DOMAIN object /\ Parse(Order[n], object[Order[n]]) = Throw}

Putting(object) ==
    {n \in DOMAIN Order : /\ Order[n] \in DOMAIN object
                          /\ Parse(Order[n], object[Order[n]]) \notin {Throw, Keep}}

\* The options apply left, whether or not it threw at a key: those put before it.
Apply(j) ==
    LET object == IF j[1] = "object" THEN j[2] ELSE <<>>
        reached == {n \in Putting(object) : \A k \in Throwing(object) : n < k}
    IN [options |-> [key \in {Order[n] : n \in reached} |-> Parse(key, object[key])[2]],
        thrown |-> Throwing(object) # {}]

\* Mutant: a throw leaves the options it came across.
FromJsonPartial(raw) ==
    LET o == Apply(raw)
    IN [ok |-> raw # Malformed, options |-> o.options]

FromJson(raw) ==
    LET o == Apply(raw)
    IN IF raw = Malformed \/ o.thrown THEN [ok |-> FALSE, options |-> Defaults]
       ELSE [ok |-> TRUE, options |-> o.options]

\* What LIBP2P_MODULE_CONFIG gives: <<"unset", _>>, <<"missing", _>> for a file
\* that cannot be read, <<"inline", document>> or <<"file", document>>.
Load(env) ==
    IF env[1] \in {"inline", "file"} THEN FromJson(env[2]).options ELSE Defaults
===============================================================================
