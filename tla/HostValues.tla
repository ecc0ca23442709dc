----------------------------- MODULE HostValues -----------------------------
(***************************************************************************)
(* The values that cross the boundary of the host, across restarts: the    *)
(* configuration and its key (plugin.cpp, config.h), the bytes of records  *)
(* and of messages as base64 texts, the numbers of the stream and connect  *)
(* operations.                                                             *)
(*                                                                         *)
(* Each call is one step: how calls interleave is ContextLifecycle's and   *)
(* ProtocolBridge's.  node.identity is the key a node was built with,      *)
(* empty for one the Nim side generates.                                   *)
(***************************************************************************)
EXTENDS ModuleConfig

CONSTANTS Objects,       \* configurations without an issued key
          Companions,    \* what a configuration has beside an issued key
          Keys,          \* private keys the Nim side generates, byte sequences
          Records,       \* signed records and messages, byte sequences
          Texts,         \* texts handed as base64 ones
          ReadCap,       \* MAX_READ_BYTES
          DefaultRead,   \* kDefaultReadMax
          DefaultAwait,  \* kDefaultOpTimeoutMs
          Slack          \* kAwaitSlackMs

ASSUME SizeAssumption ==
    /\ Slack \in 0 .. IntMax /\ DefaultAwait \in 1 .. IntMax /\ DefaultAwait + Slack <= IntMax
    /\ DefaultRead \in 1 .. ReadCap /\ ReadCap \in 1 .. Int64Max

ASSUME BytesAssumption ==
    /\ Keys \cup Records \subseteq Seq(Byte) /\ <<>> \notin Keys
    /\ Texts \subseteq Seq(Base64Chars)

\* The text of a key, where a document has one.
KeyText(document) ==
    IF /\ document[1] = "object" /\ "privKey" \in DOMAIN document[2]
       /\ document[2].privKey[1] = "string"
    THEN {document[2].privKey[2]} ELSE {}

ASSUME DocumentAssumption == \A o \in Objects : KeyText(o) \subseteq Seq(HexChars)

VARIABLES loaded,   \* the module object exists
          written,  \* history: the document the members' options come from
          options,  \* those options
          node,     \* the node, or NoNode
          issued,   \* keys handed to the host by newPrivateKey: [bytes, text]
          request   \* the last request on values, or NoRequest

vars == <<loaded, written, options, node, issued, request>>

NoNode == [up |-> FALSE, runs |-> Defaults, identity |-> <<>>]
NoRequest == [call |-> "none", given |-> <<>>, handed |-> {}, signed |-> {}]
Empty == <<"object", Defaults>>

UInt64 == 0 .. Words - 1
Int64 == -(Words \div 2) .. Int64Max
\* static_cast<int64_t> of a uint64_t.
Signed(v) == IF v > Int64Max THEN v - Words ELSE v

-----------------------------------------------------------------------------
(* Configurations the host writes: any of Objects, or one with the key it  *)
(* was issued, of which it may have changed the letters' case or lost or   *)
(* damaged a character.                                                    *)

Upper(c) == IF c[1] = "lower" THEN <<"upper", c[2]>> ELSE c
Lower(c) == IF c[1] = "upper" THEN <<"lower", c[2]>> ELSE c
Lowered(text) == [i \in 1 .. Len(text) |-> Lower(text[i])]

Spellings(text) ==
    {[i \in 1 .. Len(text) |-> IF i \in S THEN Upper(text[i]) ELSE text[i]] :
         S \in SUBSET (1 .. Len(text))}
        \cup {Tail(text), [text EXCEPT ![1] = Alien]}

Texted == UNION {Spellings(key.text) : key \in issued}

WithKey(object, text) ==
    [key \in DOMAIN object \cup {"privKey"} |->
        IF key = "privKey" THEN <<"string", text>> ELSE object[key]]

Documents ==
    Objects \cup {Malformed, <<"array", <<>>>>}
        \cup {<<"object", WithKey(o[2], t)>> : o \in Companions, t \in Texted}

Init ==
    /\ loaded = FALSE /\ written = Empty /\ options = Defaults /\ node = NoNode
    /\ issued = {} /\ request = NoRequest

\* The document, when the options it was read from are its own.
Origin(document) == IF FromJson(document).ok THEN document ELSE Empty

\* LIBP2P_MODULE_CONFIG is read when the host builds the module.
LoadModule ==
    \E env \in {<<"unset", Empty>>, <<"missing", Empty>>}
                   \cup ({"inline", "file"} \X {d \in Documents : d[1] # "array"})
                   \cup {<<"file", <<"array", <<>>>>>>} :
        /\ ~loaded /\ loaded' = TRUE
        /\ options' = Load(env)
        /\ written' = Origin(env[2])
        /\ UNCHANGED <<node, issued, request>>

\* createContext: the node comes up, or the call fails.
Created(runs) ==
    node' \in {NoNode, [up |-> TRUE, runs |-> runs,
                 identity |-> IF "privKey" \in DOMAIN runs THEN runs.privKey ELSE <<>>]}

\* createNode: a valid document's options are kept even if no node comes up.
\* An invalid one, and any while there is a node, are refused: no step.
CreateNode ==
    \E document \in Documents :
        LET read == FromJson(document)
        IN /\ loaded /\ read.ok /\ ~node.up
           /\ written' = document /\ options' = read.options
           /\ Created(read.options)
           /\ UNCHANGED <<loaded, issued, request>>

\* start and the other calls that create the node they lack.
EnsureContext ==
    /\ loaded /\ ~node.up
    /\ Created(options)
    /\ UNCHANGED <<loaded, written, options, issued, request>>

\* newPrivateKey; the host keeps one key.
NewPrivateKey ==
    /\ loaded /\ node.up /\ issued = {}
    /\ \E bytes \in Keys : issued' = {[bytes |-> bytes, text |-> HexEncode(bytes)]}
    /\ UNCHANGED <<loaded, written, options, node, request>>

Unload ==
    /\ loaded /\ loaded' = FALSE
    /\ node' = NoNode /\ options' = Defaults /\ written' = Empty
    /\ UNCHANGED <<issued, request>>

-----------------------------------------------------------------------------
(* Requests on values: what the host gave, and what libp2p was handed; no  *)
(* value if the call was refused.                                          *)

Ask(call, given, handed, signed) ==
    /\ request' = [call |-> call, given |-> given, handed |-> handed, signed |-> signed]
    /\ UNCHANGED <<loaded, written, options, node, issued>>

\* discoStartAdvertising, streamWriteLpJson, decodeXpr: one that decodes.
HandText(call) ==
    \E text \in Texts :
        Ask(call, text, IF call = "decodeXpr" /\ text = <<>> THEN {} ELSE Base64Decode(text), {})

\* createXpr, and decodeXpr of the text it returned.
RoundTrip ==
    \E record \in Records :
        Ask("roundTrip", Base64Encode(record), Base64Decode(Base64Encode(record)), {record})

\* Mutant: the slack is added in the narrow type.
AwaitTimeoutForNarrow(ms) ==
    IF ms <= 0 THEN {DefaultAwait} ELSE {((ms + Slack + Ints \div 2) % Ints) - Ints \div 2}

\* Past the top of an int64 the sum is undefined.
AwaitTimeoutFor(ms) ==
    IF ms <= 0 THEN {DefaultAwait}
    ELSE IF ms + Slack > Int64Max THEN -(Ints \div 2) .. IntMax
    ELSE {IF ms + Slack > IntMax THEN IntMax ELSE ms + Slack}

\* connectPeer.
AwaitFor ==
    \E ms \in Int64 : \E await \in AwaitTimeoutFor(ms) : Ask("await", ms, {await}, {})

\* Mutant: the cap is compared after the cast.
WithinReadCapSigned(v) == Signed(v) <= ReadCap

WithinReadCap(v) == v <= ReadCap

\* streamReadExactly and streamReadLp.
StreamRead ==
    \E len \in UInt64 : Ask("read", len, IF WithinReadCap(len) THEN {Signed(len)} ELSE {}, {})

\* A number, or what stands in for one, in the JSON argument of the bridge.  Its floats
\* fit an int64; the payload of a string is its numeral's value, or -1 for what is no
\* numeral.  A key left out is as one that says zero.
BridgeNumbers ==
    ({"unsigned", "string"} \X UInt64) \cup ({"negative"} \X {-(Words \div 2), -1})
        \cup ({"string"} \X {-1, Words}) \cup ({"float", "bool"} \X {0, 1}) \cup {<<"null", 0>>}

\* value() of an int64: an unsigned above it wraps, a float is cut, no other kind is
\* taken (the call is refused).
AsInt64(v) ==
    CASE v[1] = "unsigned" -> {Signed(v[2])}
      [] v[1] \in {"negative", "float"} -> {v[2]}
      [] OTHER -> {}

\* timeoutMs of protocolRequest and streamReadLpJson: the await of their read, or, of the
\* connect before it, for which the bridge fills in the default itself.
BridgeAwait ==
    \E v \in BridgeNumbers :
        \/ \E ms \in AsInt64(v) :
               \E op \in {ms, IF ms > 0 THEN ms ELSE DefaultAwait} :
                   \E await \in AwaitTimeoutFor(op) : Ask("bridgeAwait", v, {await}, {})
        \/ AsInt64(v) = {} /\ Ask("bridgeAwait", v, {}, {})

AsStreamId(v) ==
    IF \/ v[1] = "unsigned"
       \/ v[1] = "string" /\ v[2] \in UInt64
    THEN v[2] ELSE 0

\* Mutant: a size of zero is taken as it is.
AsReadMaxZero(v) == IF v[1] = "unsigned" THEN v[2] ELSE DefaultRead

AsReadMax(v) == IF v[1] = "unsigned" /\ v[2] # 0 THEN v[2] ELSE DefaultRead

\* The bridge's reads have no cap: a maxSize over int64 arrives negative.
BridgeRead ==
    \E v \in BridgeNumbers : Ask("bridgeRead", v, {Signed(AsReadMax(v))}, {})

\* streamReadLpJson, streamWriteLpJson, streamCloseJson, streamReleaseJson.
BridgeStream ==
    \E v \in BridgeNumbers : Ask("streamId", v, {AsStreamId(v)}, {})

\* Named bound: values are asked about on a module with no configuration.
Request ==
    /\ loaded /\ node = NoNode /\ written = Empty /\ issued = {}
    /\ \/ \E call \in {"discoStartAdvertising", "streamWriteLpJson", "decodeXpr"} : HandText(call)
       \/ RoundTrip
       \/ AwaitFor
       \/ BridgeAwait
       \/ StreamRead
       \/ BridgeRead
       \/ BridgeStream

Return ==
    /\ request # NoRequest /\ request' = NoRequest
    /\ UNCHANGED <<loaded, written, options, node, issued>>

Next ==
    \/ /\ request = NoRequest
       /\ LoadModule \/ CreateNode \/ EnsureContext \/ NewPrivateKey \/ Unload \/ Request
    \/ Return

Spec == Init /\ [][Next]_vars

-----------------------------------------------------------------------------
KeysOf(document) == IF document[1] = "object" THEN DOMAIN document[2] ELSE {}

\* A value of the type the README documents for the key, in its range.
Meaning(key, v) ==
    CASE key = "privKey" -> options.privKey
      [] key = "transport" /\ v[2] = "quic-v1" -> "quic"
      [] key = "addrs" -> [i \in DOMAIN v[2] |-> v[2][i][2]]
      [] key = "bootstrapNodes" -> [i \in DOMAIN v[2] |-> v[2][i][2]]
      [] OTHER -> v[2]

\* An integer that an int holds.
FitsInt(v) == v[1] \in {"unsigned", "negative"} /\ v[2] \in -(Ints \div 2) .. IntMax

\* The options of the module, and of its node, are one document's, as it
\* wrote them: no key of a document that was rejected half-way, none of an
\* earlier one, no number cut or turned negative to fit, and no value passed
\* over.  Out of it: a connection count that is no integer of an int, which is
\* taken as another one, and the two choices and the bootstrap list, which a
\* value they do not know leaves at the default (config.h:199-304).
OptionsAsWritten ==
    /\ node.up => node.runs = options
    /\ DOMAIN options \subseteq KeysOf(written)
    /\ \A key \in DOMAIN options \ Counts : options[key] = Meaning(key, written[2][key])
    /\ \A key \in DOMAIN options \cap Counts :
           FitsInt(written[2][key]) => options[key] = written[2][key][2]
    /\ (KeysOf(written) \cap Range(Order))
           \ {"transport", "announcedAddressPolicy", "bootstrapNodes"} \subseteq DOMAIN options

\* A stable identity across restarts (createContext's comment, plugin.cpp:202):
\* a node whose configuration holds the hex text the host was issued, in
\* either case of letters, has the key that text stands for, and no node
\* comes up under that key from another text, one the host damaged or
\* anybody's (newPrivateKey, config.h:217-222, utils.cpp:79-107).
IdentityKept ==
    LET text == Lowered(written[2].privKey[2])
    IN node.up /\ "privKey" \in KeysOf(written) =>
           /\ HexEncode(node.identity) = text
           /\ \A key \in issued : node.identity = key.bytes <=> text = key.text

\* A record or a message handed to libp2p has one text: the one base64Encode
\* makes of it, so that no two texts pass for one signed record, and the
\* record createXpr signed is the one its text is read back to
\* (utils.cpp:6-77; service_discovery.cpp:21-44, 136-157).
RecordTextFaithful ==
    LET texts == {"discoStartAdvertising", "streamWriteLpJson", "decodeXpr", "roundTrip"}
    IN request.call \in texts =>
           /\ \A bytes \in request.handed : Base64Encode(bytes) = request.given
           /\ request.signed \subseteq request.handed

\* An await, in milliseconds, for an operation given so many: never shorter, slack
\* included, unless an int ends before; the default where the host gave none.
Outlasts(ms, given) ==
    /\ ms > 0
    /\ given > 0 => ms >= given + Slack \/ ms = IntMax

\* The numbers of a request reach libp2p whole, or the call is refused, or the default
\* stands in for what is no number of its kind.  An await outlasts its operation, slack
\* included; a timeout over int64 counts as none.  A direct read asks for what the host
\* gave, up to the cap; the bridge's for any size of an int64.  A stream id that is not
\* the host's is 0, which no stream has.  Two numbers are not kept, and the property
\* says so: the await whose sum leaves an int64 is any (plugin.h:157), and the bridge's
\* size over int64 arrives negative, though never as another size
\* (protocol_bridge.cpp:113, 145).
NumbersReachWhole ==
    /\ request.call = "await" /\ request.given + Slack <= Int64Max =>
           \A ms \in request.handed : Outlasts(ms, request.given)
    /\ request.call = "bridgeAwait" =>
           /\ request.handed = {} <=> request.given[1] \in {"string", "bool", "null"}
           /\ \A ms \in request.handed :
                  /\ request.given[2] + Slack <= Int64Max => Outlasts(ms, request.given[2])
                  /\ request.given[2] <= 0 \/ request.given[2] > Int64Max =>
                         ms \in {DefaultAwait, DefaultAwait + Slack}
    /\ request.call = "read" =>
           /\ request.handed \subseteq {request.given} \cap (0 .. ReadCap)
           /\ request.handed = {} => request.given > ReadCap
    /\ request.call = "bridgeRead" =>
           IF request.given[1] # "unsigned" \/ request.given[2] = 0
           THEN request.handed = {DefaultRead}
           ELSE \A size \in request.handed :
                    IF request.given[2] <= Int64Max THEN size = request.given[2] ELSE size < 0
    /\ request.call = "streamId" =>
           request.handed \subseteq {0, request.given[2]} \cap UInt64
===============================================================================
