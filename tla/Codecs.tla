-------------------------------- MODULE Codecs --------------------------------
(***************************************************************************)
(* base64 and hex (utils.cpp), for two bits of any number of values: a hex *)
(* digit has two such units, a base64 symbol three, a byte four.  A text   *)
(* is a sequence of characters, <<class, value>>:                          *)
(*   base64  <<"symbol", place in the alphabet>>, Pad                      *)
(*   hex     <<"digit", n>>, <<"lower", n>>, <<"upper", n>>: the nth       *)
(*           decimal digit, the nth letter of either case                  *)
(*   either  Alien, what the alphabet does not have                        *)
(* A decoder returns the set of what it read: one value, or none when it   *)
(* throws.                                                                 *)
(***************************************************************************)
EXTENDS Integers, Sequences, SequencesExt

CONSTANTS Radix,    \* values of a unit, two bits: 4
          Decimals  \* digits of a hex digit's range that are no letters: 10

Digits == Radix * Radix     \* values of a hex digit: 16
Symbols == Radix * Digits   \* of a symbol: 64
Bytes == Digits * Digits    \* of a byte: 256
Byte == 0 .. Bytes - 1

ASSUME WidthAssumption == Radix \in Nat \ {0} /\ Decimals \in 0 .. Digits

Pad == <<"pad", 0>>
Alien == <<"alien", 0>>

\* What a text may have in it.
Base64Chars == {<<"symbol", n>> : n \in 0 .. Symbols - 1} \cup {Pad, Alien}
HexChars == {<<"digit", n>> : n \in 0 .. Decimals - 1}
                \cup ({"lower", "upper"} \X (0 .. Digits - Decimals - 1)) \cup {Alien}

\* What so many units count: a shift by them divides by it.
Scale(units) ==
    CASE units = 0 -> 1 [] units = 1 -> Radix [] units = 2 -> Digits [] units = 3 -> Symbols

\* The four characters for the bytes from place i on, three or what is left.
Group(data, i) ==
    LET At(k) == IF k <= Len(data) THEN data[k] ELSE 0
        n == (At(i) * Bytes + At(i + 1)) * Bytes + At(i + 2)
        tops == <<Symbols * Symbols * Symbols, Symbols * Symbols, Symbols, 1>>
        full == 2 + Len(data) - i  \* one byte makes two symbols, two make three
    IN [k \in 1 .. 4 |-> IF k <= full THEN <<"symbol", (n \div tops[k]) % Symbols>> ELSE Pad]

Base64Encode(data) ==
    [k \in 1 .. 4 * ((Len(data) + 2) \div 3) |->
        Group(data, 3 * ((k - 1) \div 4) + 1)[((k - 1) % 4) + 1]]

\* Mutant: the bits of the last symbol that make no byte are not looked at.
TailAny(walk) == TRUE

\* They are zero in a text that base64Encode made.
TailCanonical(walk) == walk.buf % Scale(walk.bits) = 0

\* One round of base64Decode's loop; buf has as many bits as four bytes, and bits is
\* in units.
Base64Round(text, walk, i) ==
    LET c == text[i]
        buf == (walk.buf * Symbols + c[2]) % (Bytes * Bytes * Bytes * Bytes)
        bits == walk.bits + 3
    IN CASE c = Pad -> [walk EXCEPT !.ok = @ /\ i > Len(text) - 2, !.pad = TRUE]
         [] c[1] # "pad" /\ (walk.pad \/ c[1] # "symbol") -> [walk EXCEPT !.ok = FALSE]
         [] OTHER -> IF bits < 4
                     THEN [walk EXCEPT !.buf = buf, !.bits = bits]
                     ELSE [walk EXCEPT !.buf = buf, !.bits = bits - 4,
                             !.out = Append(@, (buf \div Scale(bits - 4)) % Bytes)]

Base64Decode(text) ==
    LET start == [buf |-> 0, bits |-> 0, pad |-> FALSE, out |-> <<>>, ok |-> TRUE]
        walk == FoldLeftDomain(LAMBDA w, i : Base64Round(text, w, i), start, text)
    IN IF Len(text) % 4 = 0 /\ walk.ok /\ TailCanonical(walk) THEN {walk.out} ELSE {}

-----------------------------------------------------------------------------
HexDigit(n) == IF n < Decimals THEN <<"digit", n>> ELSE <<"lower", n - Decimals>>

HexEncode(data) ==
    [k \in 1 .. 2 * Len(data) |->
        LET b == data[(k + 1) \div 2]
        IN HexDigit(IF k % 2 = 1 THEN b \div Digits ELSE b % Digits)]

\* Mutant: the upper-case letters start at zero.
HexNibbleUpperFromZero(c) == IF c[1] = "lower" THEN c[2] + Decimals ELSE c[2]

HexNibble(c) == IF c[1] = "digit" THEN c[2] ELSE c[2] + Decimals

DecodeHex(text) ==
    IF Len(text) % 2 = 1 \/ \E i \in 1 .. Len(text) : text[i] = Alien THEN {}
    ELSE {[i \in 1 .. Len(text) \div 2 |->
             HexNibble(text[2 * i - 1]) * Digits + HexNibble(text[2 * i])]}
===============================================================================
