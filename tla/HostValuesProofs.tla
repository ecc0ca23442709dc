--------------------------- MODULE HostValuesProofs ---------------------------
(***************************************************************************)
(* The values that cross the boundary of the host, for any documents,      *)
(* keys, records, texts and widths of the integers.                        *)
(***************************************************************************)
EXTENDS HostValues, FiniteSetTheorems, TLAPS

\* What an issued key is.
Issuable == {[bytes |-> b, text |-> HexEncode(b)] : b \in Keys}

\* The options are those of the document they came from, whose key is a text.
OptionsInv ==
    /\ FromJson(written).ok /\ options = FromJson(written).options
    /\ KeyText(written) \subseteq Seq(HexChars)

\* A node is up in a module that is loaded, and runs on them, under the key that is one
\* of them.
NodeInv ==
    /\ node.up => /\ loaded
                  /\ node.runs = options
                  /\ "privKey" \in DOMAIN options => node.identity = options.privKey
    /\ ~node.up => node = NoNode

IssuedInv == issued \subseteq Issuable

\* The inductive invariant.
IInv == OptionsInv /\ NodeInv /\ IssuedInv /\ NumbersReachWhole /\ RecordTextFaithful

-----------------------------------------------------------------------------
(* Quotients and remainders.                                               *)

\* The quotient and the remainder are what a number is made of.
LEMMA DivMod ==
  ASSUME NEW D \in Nat \ {0}, NEW q \in Int, NEW r \in 0 .. D - 1
  PROVE  (q * D + r) \div D = q /\ (q * D + r) % D = r
  OBVIOUS

\* A number is made of its quotient and its remainder.
LEMMA Division ==
  ASSUME NEW D \in Nat \ {0}, NEW n \in Nat
  PROVE  /\ n = (n \div D) * D + (n % D)
         /\ n \div D \in Nat /\ n % D \in 0 .. D - 1
<1>1. n = (n \div D) * D + (n % D)
  OBVIOUS
<1>2. n \div D \in Nat
  OBVIOUS
<1>3. n % D \in 0 .. D - 1
  OBVIOUS
<1> QED
  BY <1>1, <1>2, <1>3

\* The quotient of a number under a product is under the other factor.
LEMMA QuotientBound ==
  ASSUME NEW D \in Nat \ {0}, NEW A \in Nat, NEW n \in 0 .. A * D - 1
  PROVE  n \div D \in 0 .. A - 1
<1>a. n \in Nat
  OBVIOUS
<1>1. n = (n \div D) * D + (n % D) /\ n \div D \in Nat /\ n % D \in 0 .. D - 1
  BY <1>a, Division
<1> DEFINE q == n \div D
<1> HIDE DEF q
<1>2. q * D < A * D
  BY <1>1 DEF q
<1>3. q \in Nat
  BY <1>1 DEF q
<1>4. q < A
  <2> SUFFICES ASSUME q >= A PROVE FALSE
    BY <1>3
  <2>1. q * D >= A * D
    BY <1>3
  <2> QED
    BY <1>2, <1>3, <2>1
<1> QED
  BY <1>3, <1>4 DEF q

\* A number of so many digits is under the product of their ranges.
LEMMA PairBound ==
  ASSUME NEW D \in Nat \ {0}, NEW A \in Nat, NEW q \in 0 .. A - 1, NEW r \in 0 .. D - 1
  PROVE  q * D + r \in 0 .. A * D - 1
<1>1. (q + 1) * D <= A * D
  OBVIOUS
<1>2. (q + 1) * D = q * D + D
  OBVIOUS
<1> QED
  BY <1>1, <1>2

-----------------------------------------------------------------------------
(* The configuration.                                                      *)

\* A document with no key leaves the options at their defaults.
LEMMA EmptyDocument ==
  FromJson(Empty).ok /\ FromJson(Empty).options = Defaults /\ KeyText(Empty) = {}
<1>1. DOMAIN Defaults = {}
  BY DEF Defaults
<1>2. Throwing(Defaults) = {} /\ Putting(Defaults) = {}
  BY <1>1 DEF Throwing, Putting
<1>3. Empty # Malformed /\ Empty[1] = "object" /\ Empty[2] = Defaults
  BY DEF Empty, Malformed
<1>4. Apply(Empty).thrown = FALSE
  BY <1>2, <1>3 DEF Apply
<1>5. Apply(Empty).options = Defaults
  <2>1. \A n \in Putting(Defaults) : FALSE
    BY <1>2
  <2>2. Apply(Empty).options = [key \in {} |-> Parse(key, Defaults[key])[2]]
    BY <1>2, <1>3 DEF Apply
  <2> QED
    BY <2>2 DEF Defaults
<1> QED
  BY <1>1, <1>3, <1>4, <1>5 DEF FromJson, KeyText

\* The options of a document that is valid: a value for every key it has that the loader
\* knows and does not pass over, and for no other.
LEMMA ValidDocument ==
  ASSUME NEW d, FromJson(d).ok
  PROVE  LET o == FromJson(d).options
         IN /\ \A key \in DOMAIN o : /\ key \in KeysOf(d)
                                     /\ Parse(key, d[2][key]) \notin {Throw, Keep}
                                     /\ o[key] = Parse(key, d[2][key])[2]
            /\ \A n \in DOMAIN Order :
                 Order[n] \in KeysOf(d) =>
                   /\ Parse(Order[n], d[2][Order[n]]) # Throw
                   /\ Parse(Order[n], d[2][Order[n]]) # Keep => Order[n] \in DOMAIN o
<1> DEFINE o == FromJson(d).options
           object == IF d[1] = "object" THEN d[2] ELSE <<>>
<1>1. ~Apply(d).thrown /\ o = Apply(d).options
  BY DEF FromJson
<1>2. Throwing(object) = {}
  BY <1>1 DEF Apply
<1>3. o = [key \in {Order[n] : n \in Putting(object)} |-> Parse(key, object[key])[2]]
  BY <1>1, <1>2 DEF Apply
<1>4. KeysOf(d) = DOMAIN object /\ (d[1] = "object" => object = d[2])
  BY DEF KeysOf
<1>5. \A key \in KeysOf(d) : object[key] = d[2][key]
  BY <1>4 DEF KeysOf
<1> HIDE DEF o, object
<1>6. \A key \in DOMAIN o : /\ key \in KeysOf(d)
                            /\ Parse(key, object[key]) \notin {Throw, Keep}
                            /\ o[key] = Parse(key, object[key])[2]
  BY <1>3, <1>4 DEF Putting
<1>7. \A n \in DOMAIN Order :
        Order[n] \in KeysOf(d) =>
          /\ Parse(Order[n], object[Order[n]]) # Throw
          /\ Parse(Order[n], object[Order[n]]) # Keep => Order[n] \in DOMAIN o
  BY <1>2, <1>3, <1>4 DEF Putting, Throwing
<1> QED
  BY <1>5, <1>6, <1>7 DEF o

\* Only the two choices and the bootstrap list pass a value over.
LEMMA KeptKeys ==
  ASSUME NEW key, NEW v, Parse(key, v) = Keep
  PROVE  key \in {"transport", "announcedAddressPolicy", "bootstrapNodes"}
<1>1. Throw # Keep /\ \A x : Put(x) # Keep
  BY DEF Throw, Keep, Put
<1>2. ParseInt64(v) # Keep /\ Count(v) # Keep /\ Flag(v) # Keep /\ PrivKey(v) # Keep
  BY <1>1 DEF ParseInt64, Count, Flag, PrivKey
<1>3. ParseDurationMs(v) # Keep /\ \A m : ParseNonNegative(v, m) # Keep
  BY <1>1, <1>2 DEF ParseDurationMs, ParseNonNegative
<1>4. Strings(v) # Keep /\ NatExplicitIp(v) # Keep
  BY <1>1 DEF Strings, NatExplicitIp
<1> QED
  BY <1>2, <1>3, <1>4 DEF Parse

\* A value that is put is what the document wrote: whole, and of its key's type.
LEMMA PutAsMeant ==
  ASSUME NEW key, NEW v, Parse(key, v) \notin {Throw, Keep},
         key \notin Counts, key # "privKey"
  PROVE  Parse(key, v)[2] = Meaning(key, v)
<1>1. \A x : Put(x)[2] = x
  BY DEF Put
<1>2. Flag(v) # Throw => Flag(v)[2] = v[2]
  BY <1>1 DEF Flag
<1>3. ParseInt64(v) # Throw => ParseInt64(v)[2] = v[2]
  BY <1>1 DEF ParseInt64
<1>4. ParseDurationMs(v) # Throw => ParseDurationMs(v)[2] = v[2]
  BY <1>3 DEF ParseDurationMs
<1>5. \A m : ParseNonNegative(v, m) # Throw => ParseNonNegative(v, m)[2] = v[2]
  BY <1>1 DEF ParseNonNegative
<1>6. NatExplicitIp(v) # Throw => NatExplicitIp(v)[2] = v[2]
  BY <1>1 DEF NatExplicitIp
<1>7. Strings(v) # Throw => Strings(v)[2] = [i \in DOMAIN v[2] |-> v[2][i][2]]
  BY <1>1 DEF Strings
<1>8. BootstrapNodes(v) \notin {Throw, Keep} =>
        BootstrapNodes(v)[2] = [i \in DOMAIN v[2] |-> v[2][i][2]]
  BY <1>1 DEF BootstrapNodes
<1>9. ParseAnnouncedAddressPolicy(v) # Keep => ParseAnnouncedAddressPolicy(v)[2] = v[2]
  BY <1>1 DEF ParseAnnouncedAddressPolicy
<1>10. ParseTransport(v) # Keep =>
         ParseTransport(v)[2] = IF v[2] = "quic-v1" THEN "quic" ELSE v[2]
  BY <1>1 DEF ParseTransport
<1>11. CASE key = "transport"
  BY <1>10, <1>11 DEF Parse, Meaning, Durations, Counts, Bounds, Limits
<1>12. CASE key \in {"addrs", "bootstrapNodes"}
  BY <1>7, <1>8, <1>12 DEF Parse, Meaning, Durations, Counts, Bounds, Limits
<1>13. CASE key \notin {"transport", "addrs", "bootstrapNodes"}
  <2>1. Meaning(key, v) = v[2]
    BY <1>13 DEF Meaning
  <2>2. CASE key \in {"announcedAddressPolicy", "natExplicitIp"}
    BY <1>6, <1>9, <2>1, <2>2 DEF Parse, Durations, Counts, Bounds, Limits
  <2>3. CASE key \notin {"announcedAddressPolicy", "natExplicitIp"}
    BY <1>2, <1>3, <1>4, <1>5, <1>13, <2>1, <2>3 DEF Parse
  <2> QED
    BY <2>2, <2>3
<1> QED
  BY <1>11, <1>12, <1>13

\* A count that an int holds is put as it is.
LEMMA CountAsMeant ==
  ASSUME NEW v, FitsInt(v)
  PROVE  Count(v)[2] = v[2]
<1>1. PICK H \in Nat : H = Ints \div 2
  BY RangeAssumption
<1>2. Ints = 2 * H /\ IntMax = H - 1
  BY <1>1, RangeAssumption DEF IntMax
<1>3. PICK n \in Int : n = v[2] /\ n \in -H .. H - 1
  BY <1>1, <1>2 DEF FitsInt
<1>4. Ints \in Nat \ {0} /\ n + H \in 0 .. Ints - 1
  BY <1>2, <1>3
<1>5. (n + H) % Ints = n + H
  <2>1. 0 \in Int /\ (0 * Ints + (n + H)) % Ints = n + H
    BY <1>4, DivMod
  <2>2. 0 * Ints + (n + H) = n + H
    BY <1>3, <1>4
  <2> QED
    BY <2>1, <2>2
<1>6. Count(v) = Put(((n + H) % Ints) - H)
  <2>1. v[1] \in {"unsigned", "negative"}
    BY DEF FitsInt
  <2> QED
    BY <1>1, <1>3, <2>1 DEF Count
<1>7. (n + H) - H = n
  BY <1>3
<1> QED
  BY <1>3, <1>5, <1>6, <1>7 DEF Put

\* What OptionsInv and NodeInv say of the options is that they are as written.
LEMMA OptionsFollow == OptionsInv /\ NodeInv => OptionsAsWritten
<1> SUFFICES ASSUME OptionsInv, NodeInv PROVE OptionsAsWritten
  OBVIOUS
<1>1. /\ \A key \in DOMAIN options :
           /\ key \in KeysOf(written)
           /\ Parse(key, written[2][key]) \notin {Throw, Keep}
           /\ options[key] = Parse(key, written[2][key])[2]
      /\ \A n \in DOMAIN Order :
           Order[n] \in KeysOf(written) =>
             /\ Parse(Order[n], written[2][Order[n]]) # Throw
             /\ Parse(Order[n], written[2][Order[n]]) # Keep => Order[n] \in DOMAIN options
  BY ValidDocument DEF OptionsInv
<1>2. node.up => node.runs = options
  BY DEF NodeInv
<1>3. DOMAIN options \subseteq KeysOf(written)
  BY <1>1
<1>4. ASSUME NEW key \in DOMAIN options \ Counts
      PROVE  options[key] = Meaning(key, written[2][key])
  <2>1. CASE key = "privKey"
    BY <2>1 DEF Meaning
  <2>2. CASE key # "privKey"
    BY <1>1, <1>4, <2>2, PutAsMeant
  <2> QED
    BY <2>1, <2>2
<1>5. (KeysOf(written) \cap Range(Order))
        \ {"transport", "announcedAddressPolicy", "bootstrapNodes"} \subseteq DOMAIN options
  BY <1>1, KeptKeys DEF Range
<1>6. ASSUME NEW key \in DOMAIN options \cap Counts, FitsInt(written[2][key])
      PROVE  options[key] = written[2][key][2]
  <2>1. Parse(key, written[2][key]) = Count(written[2][key])
    BY DEF Parse, Durations, Counts, Bounds, Limits
  <2> QED
    BY <1>1, <1>6, <2>1, CountAsMeant
<1> QED
  BY <1>2, <1>3, <1>4, <1>5, <1>6 DEF OptionsAsWritten

-----------------------------------------------------------------------------
(* hex.                                                                    *)

\* A hex digit has at least one value, a byte the square of it.
LEMMA DigitRange == Digits \in Nat \ {0} /\ Bytes = Digits * Digits /\ Decimals \in 0 .. Digits
<1>1. Radix \in Nat \ {0}
  BY WidthAssumption
<1>2. Radix * Radix \in Nat \ {0}
  BY <1>1
<1> QED
  BY <1>2, WidthAssumption DEF Digits, Bytes

\* The digit of a value is a character that stands for it.
LEMMA HexDigitFacts ==
  ASSUME NEW n \in 0 .. Digits - 1
  PROVE  /\ HexDigit(n) \in HexChars /\ HexDigit(n) # Alien
         /\ HexNibble(HexDigit(n)) = n
         /\ Lower(HexDigit(n)) = HexDigit(n)
  BY DigitRange DEF HexDigit, HexNibble, HexChars, Alien, Lower

\* A character stands for one value, whose digit it is in lower case.
LEMMA HexNibbleFacts ==
  ASSUME NEW c \in HexChars, c # Alien
  PROVE  HexNibble(c) \in 0 .. Digits - 1 /\ HexDigit(HexNibble(c)) = Lower(c)
  BY DigitRange DEF HexDigit, HexNibble, HexChars, Alien, Lower

\* A text that decodes is, in lower case, the one that its bytes encode to.
THEOREM HexReads ==
  ASSUME NEW text \in Seq(HexChars), NEW b \in DecodeHex(text)
  PROVE  b \in Seq(Byte) /\ HexEncode(b) = Lowered(text)
<1> DEFINE m == Len(text) \div 2
<1>1. /\ Len(text) % 2 # 1 /\ \A i \in 1 .. Len(text) : text[i] # Alien
      /\ b = [i \in 1 .. m |-> HexNibble(text[2 * i - 1]) * Digits + HexNibble(text[2 * i])]
  BY DEF DecodeHex
<1>2. Len(text) \in Nat /\ m \in Nat /\ Len(text) = 2 * m
  BY <1>1
<1> HIDE DEF m
<1>3. \A k \in 1 .. Len(text) : /\ HexNibble(text[k]) \in 0 .. Digits - 1
                                /\ HexDigit(HexNibble(text[k])) = Lower(text[k])
  <2> TAKE k \in 1 .. Len(text)
  <2>1. text[k] \in HexChars /\ text[k] # Alien
    BY <1>1
  <2> QED
    BY <2>1, HexNibbleFacts
<1>4. ASSUME NEW i \in 1 .. m
      PROVE  /\ b[i] \in Byte
             /\ HexDigit(b[i] \div Digits) = Lower(text[2 * i - 1])
             /\ HexDigit(b[i] % Digits) = Lower(text[2 * i])
  <2> DEFINE q == HexNibble(text[2 * i - 1])
             r == HexNibble(text[2 * i])
  <2>1. 2 * i - 1 \in 1 .. Len(text) /\ 2 * i \in 1 .. Len(text)
    BY <1>2
  <2>2. b[i] = q * Digits + r
    BY <1>1
  <2>3. /\ q \in 0 .. Digits - 1 /\ r \in 0 .. Digits - 1
        /\ HexDigit(q) = Lower(text[2 * i - 1]) /\ HexDigit(r) = Lower(text[2 * i])
    BY <1>3, <2>1
  <2> HIDE DEF q, r
  <2>4. b[i] \div Digits = q /\ b[i] % Digits = r
    <3>1. q \in Int
      BY <2>3, DigitRange
    <3>2. (q * Digits + r) \div Digits = q /\ (q * Digits + r) % Digits = r
      BY <3>1, <2>3, DigitRange, DivMod
    <3> QED
      BY <3>2, <2>2
  <2>5. b[i] \in Byte
    BY <2>2, <2>3, DigitRange, PairBound DEF Byte
  <2> QED
    BY <2>3, <2>4, <2>5
<1>5. b \in Seq(Byte) /\ Len(b) = m
  BY <1>1, <1>2, <1>4
<1>6. ASSUME NEW k \in 1 .. 2 * m
      PROVE  HexEncode(b)[k] = Lower(text[k])
  <2> DEFINE i == (k + 1) \div 2
  <2>1. HexEncode(b)[k] = HexDigit(IF k % 2 = 1 THEN b[i] \div Digits ELSE b[i] % Digits)
    BY <1>5 DEF HexEncode
  <2>2. i \in 1 .. m /\ k = IF k % 2 = 1 THEN 2 * i - 1 ELSE 2 * i
    BY <1>2
  <2> HIDE DEF i
  <2>3. CASE k % 2 = 1
    BY <1>4, <2>1, <2>2, <2>3
  <2>4. CASE k % 2 # 1
    BY <1>4, <2>1, <2>2, <2>4
  <2> QED
    BY <2>3, <2>4
<1>7. HexEncode(b) = [k \in 1 .. 2 * m |-> HexEncode(b)[k]]
  BY <1>5 DEF HexEncode
<1> QED
  BY <1>2, <1>5, <1>6, <1>7 DEF Lowered

\* The text of a key decodes to it, and to nothing else.
THEOREM HexReturns ==
  ASSUME NEW b \in Seq(Byte)
  PROVE  DecodeHex(HexEncode(b)) = {b} /\ HexEncode(b) \in Seq(HexChars)
<1> DEFINE t == HexEncode(b)
           m == Len(b)
<1>1. m \in Nat
  OBVIOUS
<1>2. t = [k \in 1 .. 2 * m |->
             HexDigit(IF k % 2 = 1 THEN b[(k + 1) \div 2] \div Digits
                                   ELSE b[(k + 1) \div 2] % Digits)]
  BY DEF HexEncode
<1> HIDE DEF t, m
<1>3. ASSUME NEW i \in 1 .. m
      PROVE  /\ b[i] \div Digits \in 0 .. Digits - 1 /\ b[i] % Digits \in 0 .. Digits - 1
             /\ b[i] = (b[i] \div Digits) * Digits + (b[i] % Digits)
  <2>1. b[i] \in 0 .. Digits * Digits - 1 /\ Digits \in Nat \ {0} /\ Digits \in Nat
    BY DigitRange DEF Byte, m
  <2>2. b[i] \in Nat
    BY <2>1
  <2>3. b[i] \div Digits \in 0 .. Digits - 1
    BY <2>1, QuotientBound
  <2>4. /\ b[i] = (b[i] \div Digits) * Digits + (b[i] % Digits)
        /\ b[i] % Digits \in 0 .. Digits - 1
    BY <2>1, <2>2, Division
  <2> QED
    BY <2>3, <2>4
<1>4. ASSUME NEW k \in 1 .. 2 * m
      PROVE  t[k] \in HexChars /\ t[k] # Alien
  <2>1. (k + 1) \div 2 \in 1 .. m
    BY <1>1
  <2> QED
    BY <1>2, <1>3, <2>1, HexDigitFacts
<1>5. t \in Seq(HexChars) /\ Len(t) = 2 * m
  BY <1>1, <1>2, <1>4
<1>6. ASSUME NEW i \in 1 .. m
      PROVE  HexNibble(t[2 * i - 1]) * Digits + HexNibble(t[2 * i]) = b[i]
  <2>1. /\ 2 * i - 1 \in 1 .. 2 * m /\ 2 * i \in 1 .. 2 * m
        /\ (2 * i - 1) % 2 = 1 /\ (2 * i) % 2 = 0
        /\ ((2 * i - 1) + 1) \div 2 = i /\ (2 * i + 1) \div 2 = i
    BY <1>1
  <2>2. t[2 * i - 1] = HexDigit(b[i] \div Digits) /\ t[2 * i] = HexDigit(b[i] % Digits)
    BY <1>2, <2>1
  <2>3. HexNibble(t[2 * i - 1]) = b[i] \div Digits /\ HexNibble(t[2 * i]) = b[i] % Digits
    BY <1>3, <2>2, HexDigitFacts
  <2> QED
    BY <1>3, <2>3
<1>7. Len(t) % 2 # 1 /\ Len(t) \div 2 = m
  BY <1>1, <1>5
<1>8. DecodeHex(t) = {[i \in 1 .. m |-> HexNibble(t[2 * i - 1]) * Digits + HexNibble(t[2 * i])]}
  BY <1>4, <1>5, <1>7 DEF DecodeHex
<1>9. b = [i \in 1 .. m |-> b[i]]
  BY DEF m
<1> QED
  BY <1>5, <1>6, <1>8, <1>9 DEF t
-----------------------------------------------------------------------------
(* Folds.  FoldLeft is a recursion over the finite sets of places, which   *)
(* strict inclusion makes well-founded.                                    *)

\* The values a fold goes through, of which the last one is its result.
RunOf(f, op(_, _), base, seq) ==
  /\ f = [n \in 0 .. Len(seq) |-> IF n = 0 THEN base ELSE op(f[n - 1], seq[n])]
  /\ FoldLeft(op, base, seq) = f[Len(seq)]

\* The last of the first n places.
LEMMA MaxUpTo == ASSUME NEW n \in Nat \ {0} PROVE Max(1 .. n) = n
<1>1. n \in 1 .. n /\ \A y \in 1 .. n : n >= y
  OBVIOUS
<1>2. \A x \in 1 .. n : (\A y \in 1 .. n : x >= y) => x = n
  BY <1>1
<1> QED
  BY <1>1, <1>2 DEF Max

\* A set of naturals has a least one.
LEMMA Least ==
  ASSUME NEW T \in SUBSET Nat, T # {}
  PROVE  \E m \in T : \A k \in T : m <= k
<1> DEFINE R == {ss \in Nat \X Nat : ss[1] < ss[2]}
<1>1. IsWellFoundedOn(R, Nat)
  BY NatLessThanWellFounded DEF OpToRel
<1> HIDE DEF R
<1>2. PICK m \in T : \A k \in T : ~(<<k, m>> \in R)
  BY <1>1, WFMin
<1>3. \A k \in T : ~(k < m)
  BY <1>2 DEF R
<1> QED
  BY <1>3

\* One of an interval has a greatest.
LEMMA Greatest ==
  ASSUME NEW n \in Nat, NEW T \in SUBSET (1 .. n), T # {}
  PROVE  \E m \in T : \A k \in T : m >= k
<1> DEFINE U == {n - k : k \in T}
<1>1. U \in SUBSET Nat /\ U # {}
  <2>1. \A k \in T : k \in Int /\ k <= n /\ n - k \in Nat
    OBVIOUS
  <2> QED
    BY <2>1
<1>2. PICK m \in U : \A k \in U : m <= k
  BY <1>1, Least
<1>3. PICK l \in T : m = n - l
  OBVIOUS
<1>4. \A k \in T : n - k \in U /\ k \in Int
  OBVIOUS
<1>5. \A k \in T : n - l <= n - k
  BY <1>2, <1>3, <1>4
<1> QED
  BY <1>3, <1>4, <1>5

\* A fold over a sequence goes through values, each made of the one before.
LEMMA FoldRuns ==
  ASSUME NEW op(_, _), NEW base, NEW S, NEW seq \in Seq(S)
  PROVE  \E f : RunOf(f, op, base, seq)
<1> DEFINE D == 1 .. Len(seq)
           Def(g, s) == IF s = {} THEN base ELSE op(g[s \ {Max(s)}], seq[Max(s)])
           R == StrictSubsetOrdering(D)
           iter == CHOOSE g : g = [s \in SUBSET D |-> Def(g, s)]
           f == [n \in 0 .. Len(seq) |-> iter[1 .. n]]
<1>1. DOMAIN seq = D /\ Len(seq) \in Nat
  OBVIOUS
<1>2. IsFiniteSet(D)
  BY <1>1, FS_Interval
<1>3. IsWellFoundedOn(R, SUBSET D)
  BY <1>2, FS_StrictSubsetOrderingWellFounded, FS_FiniteSubsetsOfFinite
<1>4. \A s \in SUBSET D : s # {} => Max(s) \in s
  <2> SUFFICES ASSUME NEW s \in SUBSET D, s # {} PROVE Max(s) \in s
    OBVIOUS
  <2>1. PICK m \in s : \A k \in s : m >= k
    BY <1>1, Greatest
  <2> QED
    BY <2>1 DEF Max
<1>5. WFDefOn(R, SUBSET D, Def)
  BY <1>4 DEF WFDefOn, SetLessThan, StrictSubsetOrdering
<1>6. OpDefinesFcn(iter, SUBSET D, Def)
  BY DEF OpDefinesFcn
<1> HIDE DEF iter, R
<1>7. WFInductiveDefines(iter, SUBSET D, Def)
  BY <1>3, <1>5, <1>6, WFInductiveDef
<1>8. iter = [s \in SUBSET D |-> Def(iter, s)]
  BY <1>7 DEF WFInductiveDefines
<1>9. FoldLeft(op, base, seq) = iter[D]
  BY <1>1 DEF FoldLeft, MapThenFoldSet, iter
<1>10. \A n \in 0 .. Len(seq) : f[n] = IF n = 0 THEN base ELSE op(f[n - 1], seq[n])
  <2> SUFFICES ASSUME NEW n \in 0 .. Len(seq)
               PROVE  iter[1 .. n] = IF n = 0 THEN base ELSE op(iter[1 .. (n - 1)], seq[n])
    <3>1. \A k \in 1 .. Len(seq) : k - 1 \in 0 .. Len(seq)
      BY <1>1
    <3> QED
      BY <1>1, <3>1
  <2>1. 1 .. n \in SUBSET D
    BY <1>1
  <2>2. n = 0 => 1 .. n = {}
    OBVIOUS
  <2>3. ASSUME n # 0
        PROVE  1 .. n # {} /\ (1 .. n) \ {n} = 1 .. (n - 1) /\ Max(1 .. n) = n
    <3>1. n \in Nat \ {0}
      BY <1>1, <2>3
    <3>2. 1 .. n # {} /\ (1 .. n) \ {n} = 1 .. (n - 1)
      BY <3>1
    <3> QED
      BY <3>1, <3>2, MaxUpTo
  <2>4. iter[1 .. n] = Def(iter, 1 .. n)
    BY <2>1, <1>8
  <2> QED
    BY <2>2, <2>3, <2>4
<1>11. FoldLeft(op, base, seq) = f[Len(seq)]
  BY <1>1, <1>9
<1>12. f = [n \in 0 .. Len(seq) |-> IF n = 0 THEN base ELSE op(f[n - 1], seq[n])]
  <2>1. f = [n \in 0 .. Len(seq) |-> f[n]]
    OBVIOUS
  <2> HIDE DEF f
  <2> QED
    BY <1>10, <2>1
<1> HIDE DEF f
<1> QED
  BY <1>11, <1>12 DEF RunOf

-----------------------------------------------------------------------------
(* base64: the numbers that three bytes and four symbols make.             *)

\* The widths are products of one another.
LEMMA Widths ==
  /\ Radix \in Nat \ {0} /\ Digits \in Nat \ {0} /\ Symbols \in Nat \ {0} /\ Bytes \in Nat \ {0}
  /\ Digits = Radix * Radix /\ Symbols = Radix * Digits /\ Bytes = Digits * Digits
  /\ Symbols = Digits * Radix /\ Bytes = Radix * Symbols /\ Bytes = Symbols * Radix
<1>1. Radix \in Nat \ {0}
  BY WidthAssumption
<1>2. Digits \in Nat \ {0} /\ Digits = Radix * Radix
  BY <1>1 DEF Digits
<1>3. Symbols \in Nat \ {0} /\ Symbols = Radix * Digits /\ Symbols = Digits * Radix
  BY <1>1, <1>2 DEF Symbols
<1>4. Bytes \in Nat \ {0} /\ Bytes = Digits * Digits
  BY <1>2 DEF Bytes
<1>5. Bytes = Radix * Symbols /\ Bytes = Symbols * Radix
  BY <1>1, <1>2, <1>3, <1>4
<1> QED
  BY <1>1, <1>2, <1>3, <1>4, <1>5

\* The byte that a symbol completes, the rth of its group of four, with what the symbol
\* before it left.
Completed(p, c, r) ==
    CASE r = 2 -> p * Radix + (c \div Digits)
      [] r = 3 -> (p % Digits) * Digits + (c \div Radix)
      [] r = 0 -> (p % Radix) * Symbols + c

\* The units of a symbol that make no byte yet, after the rth of a group.
Left(r) == CASE r = 0 -> 0 [] r = 1 -> 3 [] r = 2 -> 2 [] r = 3 -> 1

\* Symbols and bytes split into a part above and a part below.
LEMMA Splits ==
  ASSUME NEW c \in 0 .. Symbols - 1
  PROVE  /\ c \in Nat
         /\ c = (c \div Digits) * Digits + (c % Digits)
         /\ c \div Digits \in 0 .. Radix - 1 /\ c % Digits \in 0 .. Digits - 1
         /\ c = (c \div Radix) * Radix + (c % Radix)
         /\ c \div Radix \in 0 .. Digits - 1 /\ c % Radix \in 0 .. Radix - 1
<1>1. c \in Nat
  BY Widths
<1>2. c \div Digits \in 0 .. Radix - 1
  BY Widths, QuotientBound
<1>3. c \div Radix \in 0 .. Digits - 1
  BY Widths, QuotientBound
<1>4. c = (c \div Digits) * Digits + (c % Digits) /\ c % Digits \in 0 .. Digits - 1
  BY <1>1, Widths, Division
<1>5. c = (c \div Radix) * Radix + (c % Radix) /\ c % Radix \in 0 .. Radix - 1
  BY <1>1, Widths, Division
<1> QED
  BY <1>1, <1>2, <1>3, <1>4, <1>5

\* What two symbols complete is a byte.
LEMMA CompletedByte ==
  ASSUME NEW p \in 0 .. Symbols - 1, NEW c \in 0 .. Symbols - 1, NEW r \in {0, 2, 3}
  PROVE  Completed(p, c, r) \in 0 .. Bytes - 1
<1>1. p * Radix + (c \div Digits) \in 0 .. Bytes - 1
  BY Splits, Widths, PairBound
<1>2. (p % Digits) * Digits + (c \div Radix) \in 0 .. Bytes - 1
  BY Splits, Widths, PairBound
<1>3. (p % Radix) * Symbols + c \in 0 .. Bytes - 1
  BY Splits, Widths, PairBound
<1> QED
  BY <1>1, <1>2, <1>3 DEF Completed

\* A byte is read out of the middle of a number.
LEMMA Extract ==
  ASSUME NEW s \in Nat \ {0}, NEW A \in Int, NEW v \in 0 .. Bytes - 1, NEW t \in 0 .. s - 1
  PROVE  (((A * Bytes + v) * s + t) \div s) % Bytes = v
<1> DEFINE q == A * Bytes + v
<1>1. q \in Int /\ Bytes \in Nat \ {0}
  BY Widths
<1>2. q % Bytes = v
  BY Widths, DivMod
<1> HIDE DEF q
<1>3. (q * s + t) \div s = q
  BY <1>1, DivMod
<1> QED
  BY <1>2, <1>3 DEF q

\* What the loop's shift register gives: the byte the symbol c completes after p.
LEMMA RegisterByte ==
  ASSUME NEW h \in Int, NEW m \in Int, NEW p \in 0 .. Symbols - 1, NEW c \in 0 .. Symbols - 1,
         NEW r \in {0, 2, 3}
  PROVE  (((h * Symbols + p) * Symbols + c - m * (Bytes * Bytes * Bytes * Bytes))
             \div Scale(Left(r))) % Bytes = Completed(p, c, r)
<1> DEFINE buf == (h * Symbols + p) * Symbols + c - m * (Bytes * Bytes * Bytes * Bytes)
           v == Completed(p, c, r)
<1>1. CASE r = 2
  <2> DEFINE A == h - m * (Bytes * Bytes * Digits)
             a == c \div Digits
             b == c % Digits
  <2>1. c = a * Digits + b /\ b \in 0 .. Digits - 1 /\ a \in Int
    BY Splits
  <2>2. v = p * Radix + a
    BY <1>1 DEF Completed
  <2>3. v \in 0 .. Bytes - 1
    BY CompletedByte
  <2> HIDE DEF a, b, v
  <2>4. A \in Int
    BY Widths
  <2>5. buf = (A * Bytes + v) * Digits + b
    <3>1. Radix \in Int /\ p \in Int /\ b \in Int /\ h \in Int /\ m \in Int
      BY <2>1, Widths
    <3> QED
      BY <2>1, <2>2, <3>1 DEF Symbols, Bytes, Digits
  <2> HIDE DEF A, buf
  <2>6. (buf \div Digits) % Bytes = v
    <3>1. Digits \in Nat \ {0}
      BY Widths
    <3>2. (((A * Bytes + v) * Digits + b) \div Digits) % Bytes = v
      BY <2>1, <2>3, <2>4, <3>1, Extract
    <3> QED
      BY <2>5, <3>2
  <2>7. Scale(Left(r)) = Digits
    BY <1>1 DEF Scale, Left
  <2> QED
    BY <2>6, <2>7 DEF buf, v
<1>2. CASE r = 3
  <2> DEFINE e == p \div Digits
             d == p % Digits
             A == h * Radix + e - m * (Bytes * Bytes * Symbols)
             a == c \div Radix
             b == c % Radix
  <2>1. /\ c = a * Radix + b /\ b \in 0 .. Radix - 1 /\ a \in Int
        /\ p = e * Digits + d /\ d \in Int /\ e \in Int
    BY Splits
  <2>2. v = d * Digits + a
    BY <1>2 DEF Completed
  <2>3. v \in 0 .. Bytes - 1
    BY CompletedByte
  <2> HIDE DEF a, b, v, d, e
  <2>4. A \in Int
    BY <2>1, Widths
  <2>5. buf = (A * Bytes + v) * Radix + b
    <3>1. Radix \in Int /\ b \in Int /\ h \in Int /\ m \in Int
      BY <2>1, Widths
    <3> QED
      BY <2>1, <2>2, <3>1 DEF Symbols, Bytes, Digits
  <2> HIDE DEF A, buf
  <2>6. (buf \div Radix) % Bytes = v
    <3>1. Radix \in Nat \ {0}
      BY Widths
    <3>2. (((A * Bytes + v) * Radix + b) \div Radix) % Bytes = v
      BY <2>1, <2>3, <2>4, <3>1, Extract
    <3> QED
      BY <2>5, <3>2
  <2>7. Scale(Left(r)) = Radix
    BY <1>2 DEF Scale, Left
  <2> QED
    BY <2>6, <2>7 DEF buf, v
<1>3. CASE r = 0
  <2> DEFINE e == p \div Radix
             d == p % Radix
             A == h * Digits + e - m * (Bytes * Bytes * Bytes)
  <2>1. p = e * Radix + d /\ d \in Int /\ e \in Int
    BY Splits
  <2>2. v = d * Symbols + c
    BY <1>3 DEF Completed
  <2>3. v \in 0 .. Bytes - 1
    BY CompletedByte
  <2> HIDE DEF v, d, e
  <2>4. A \in Int
    BY <2>1, Widths
  <2>5. buf = (A * Bytes + v) * 1 + 0
    <3>1. Radix \in Int /\ c \in Int /\ h \in Int /\ m \in Int
      BY <2>1, Widths
    <3> QED
      BY <2>1, <2>2, <3>1 DEF Symbols, Bytes, Digits
  <2> HIDE DEF A, buf
  <2>6. (buf \div 1) % Bytes = v
    <3>1. 1 \in Nat \ {0} /\ 0 \in 0 .. 1 - 1
      BY Widths
    <3>2. (((A * Bytes + v) * 1 + 0) \div 1) % Bytes = v
      BY <2>3, <2>4, <3>1, Extract
    <3> QED
      BY <2>5, <3>2
  <2>7. Scale(Left(r)) = 1
    BY <1>3 DEF Scale, Left
  <2> QED
    BY <2>6, <2>7 DEF buf, v
<1> QED
  BY <1>1, <1>2, <1>3

\* The register keeps the last symbol.
LEMMA RegisterSymbol ==
  ASSUME NEW h \in Int, NEW m \in Int, NEW c \in 0 .. Symbols - 1
  PROVE  (h * Symbols + c - m * (Bytes * Bytes * Bytes * Bytes)) % Symbols = c
<1> DEFINE q == h - m * (Bytes * Bytes * Bytes * Radix)
<1>1. Radix \in Int /\ c \in Int /\ q \in Int /\ Symbols \in Nat \ {0}
  BY Widths
<1>2. h * Symbols + c - m * (Bytes * Bytes * Bytes * Bytes) = q * Symbols + c
  BY <1>1 DEF Symbols, Bytes, Digits
<1> HIDE DEF q
<1>3. (q * Symbols + c) % Symbols = c
  BY <1>1, DivMod
<1> QED
  BY <1>2, <1>3

\* The bits that make no byte are the last symbol's.
LEMMA RegisterTail ==
  ASSUME NEW buf \in Nat, NEW r \in 0 .. 3
  PROVE  buf % Scale(Left(r)) = (buf % Symbols) % Scale(Left(r))
<1> DEFINE q == buf \div Symbols
           c == buf % Symbols
<1>1. buf = q * Symbols + c /\ q \in Nat /\ c \in 0 .. Symbols - 1
  BY Widths, Division
<1> HIDE DEF q
<1>2. ASSUME NEW s \in Nat \ {0}, NEW k \in Nat, Symbols = k * s
      PROVE  buf % s = c % s
  <2> DEFINE a == c \div s
             b == c % s
  <2>1. c \in Nat
    BY <1>1, Widths
  <2>2. c = a * s + b /\ a \in Nat /\ b \in 0 .. s - 1
    BY <2>1, Division
  <2> HIDE DEF a, b, c
  <2>3. buf = (q * k + a) * s + b /\ q * k + a \in Int
    BY <1>1, <1>2, <2>2
  <2>4. buf % s = b
    <3> DEFINE qq == q * k + a
    <3>1. qq \in Int /\ buf = qq * s + b
      BY <2>3
    <3> HIDE DEF qq
    <3> QED
      BY <2>2, <3>1, DivMod
  <2> QED
    BY <2>4 DEF b, c
<1> HIDE DEF c
<1>3. Scale(0) = 1 /\ Scale(1) = Radix /\ Scale(2) = Digits /\ Scale(3) = Symbols
  BY DEF Scale
<1>4. Left(r) \in 0 .. 3
  BY DEF Left
<1>5. \E k \in Nat : Symbols = k * Scale(Left(r)) /\ Scale(Left(r)) \in Nat \ {0}
  <2>1. Symbols = Symbols * 1 /\ Symbols = 1 * Symbols
    BY Widths
  <2> QED
    BY <1>3, <1>4, <2>1, Widths
<1>6. buf % Scale(Left(r)) = c % Scale(Left(r))
  BY <1>2, <1>5
<1> QED
  BY <1>6 DEF c

\* Three bytes are four symbols.
LEMMA Packing ==
  ASSUME NEW s1 \in 0 .. Symbols - 1, NEW s2 \in 0 .. Symbols - 1,
         NEW s3 \in 0 .. Symbols - 1, NEW s4 \in 0 .. Symbols - 1
  PROVE  (Completed(s1, s2, 2) * Bytes + Completed(s2, s3, 3)) * Bytes + Completed(s3, s4, 0)
             = ((s1 * Symbols + s2) * Symbols + s3) * Symbols + s4
<1> DEFINE a2 == s2 \div Digits
           b2 == s2 % Digits
           a3 == s3 \div Radix
           b3 == s3 % Radix
<1>1. /\ s2 = a2 * Digits + b2 /\ s3 = a3 * Radix + b3
      /\ a2 \in Int /\ b2 \in Int /\ a3 \in Int /\ b3 \in Int
      /\ Radix \in Int /\ s1 \in Int /\ s4 \in Int
  BY Splits, Widths
<1>2. /\ Completed(s1, s2, 2) = s1 * Radix + a2
      /\ Completed(s2, s3, 3) = b2 * Digits + a3
      /\ Completed(s3, s4, 0) = b3 * Symbols + s4
  BY DEF Completed
<1> HIDE DEF a2, b2, a3, b3
<1> QED
  BY <1>1, <1>2 DEF Symbols, Bytes, Digits

\* The four places of a number of four symbols.
LEMMA Places ==
  ASSUME NEW s1 \in 0 .. Symbols - 1, NEW s2 \in 0 .. Symbols - 1,
         NEW s3 \in 0 .. Symbols - 1, NEW s4 \in 0 .. Symbols - 1
  PROVE  LET n == ((s1 * Symbols + s2) * Symbols + s3) * Symbols + s4
         IN /\ (n \div (Symbols * Symbols * Symbols)) % Symbols = s1
            /\ (n \div (Symbols * Symbols)) % Symbols = s2
            /\ (n \div Symbols) % Symbols = s3
            /\ (n \div 1) % Symbols = s4
<1> DEFINE S == Symbols
           n == ((s1 * S + s2) * S + s3) * S + s4
<1>1. S \in Nat \ {0} /\ S * S \in Nat \ {0} /\ S * S * S \in Nat \ {0}
  BY Widths
<1>2. /\ s1 \in 0 .. S - 1 /\ s2 \in 0 .. S - 1 /\ s3 \in 0 .. S - 1 /\ s4 \in 0 .. S - 1
      /\ s1 \in Nat /\ s2 \in Nat /\ s3 \in Nat /\ s4 \in Nat
  BY Widths
<1> SUFFICES /\ (n \div (S * S * S)) % S = s1 /\ (n \div (S * S)) % S = s2
             /\ (n \div S) % S = s3 /\ (n \div 1) % S = s4
  OBVIOUS
<1> HIDE DEF S
<1>3. ASSUME NEW D \in Nat \ {0}, NEW q \in Nat, NEW r \in 0 .. D - 1, n = q * D + r
      PROVE  n \div D = q
  <2>1. (q * D + r) \div D = q
    BY DivMod
  <2> HIDE DEF n
  <2> QED
    BY <1>3, <2>1
<1>4. ASSUME NEW q \in Nat, NEW r \in 0 .. S - 1
      PROVE  (q * S + r) % S = r
  BY <1>1, DivMod
<1>5. (n \div 1) % S = s4
  <2> DEFINE q == (s1 * S + s2) * S + s3
  <2>1. q \in Nat /\ n \in Nat /\ n = n * 1 + 0 /\ 0 \in 0 .. 1 - 1
    BY <1>1, <1>2
  <2>2. n \div 1 = n
    <3> HIDE DEF n
    <3> QED
      BY <2>1, <1>3
  <2>3. n = q * S + s4
    OBVIOUS
  <2> HIDE DEF q, n
  <2> QED
    BY <1>2, <1>4, <2>1, <2>2, <2>3
<1>6. (n \div S) % S = s3
  <2> DEFINE p == s1 * S + s2
             q == p * S + s3
  <2>1. n = q * S + s4
    OBVIOUS
  <2>2. p \in Nat /\ q \in Nat
    BY <1>1, <1>2
  <2> HIDE DEF n, q
  <2>3. n \div S = q
    BY <1>1, <1>2, <1>3, <2>1, <2>2
  <2>4. q = p * S + s3
    BY DEF q
  <2> HIDE DEF p
  <2> QED
    BY <1>2, <1>4, <2>2, <2>3, <2>4
<1>7. (n \div (S * S)) % S = s2
  <2> DEFINE p == s1 * S + s2
             t == s3 * S + s4
             D == S * S
  <2>1. t \in 0 .. D - 1
    BY <1>1, <1>2, PairBound
  <2>2. n = p * D + t
    BY <1>1, <1>2
  <2>3. p \in Nat
    BY <1>1, <1>2
  <2> HIDE DEF n, t, p, D
  <2>4. n \div D = p
    BY <1>1, <1>3, <2>1, <2>2, <2>3 DEF D
  <2>5. p % S = s2
    BY <1>2, <1>4 DEF p
  <2> QED
    BY <2>4, <2>5 DEF D
<1>8. (n \div (S * S * S)) % S = s1
  <2> DEFINE E == S * S
             D == S * S * S
             u == s3 * S + s4
             t == s2 * E + u
  <2>1. u \in 0 .. E - 1
    BY <1>1, <1>2, PairBound
  <2> HIDE DEF u
  <2>2. t \in 0 .. S * E - 1
    BY <1>1, <1>2, <2>1, PairBound
  <2>3. S * E = D
    BY <1>1
  <2>4. n = s1 * D + t
    BY <1>1, <1>2 DEF u
  <2> HIDE DEF n, t, D
  <2>5. n \div D = s1
    BY <1>1, <1>2, <1>3, <2>2, <2>3, <2>4 DEF D
  <2>6. s1 = 0 * S + s1
    BY <1>1, <1>2
  <2>7. s1 % S = s1
    BY <1>2, <1>4, <2>6
  <2> QED
    BY <2>5, <2>7 DEF D
<1> QED
  BY <1>5, <1>6, <1>7, <1>8

\* What the places of a number of three bytes complete is those bytes.
LEMMA Unpacking ==
  ASSUME NEW b1 \in 0 .. Bytes - 1, NEW b2 \in 0 .. Bytes - 1, NEW b3 \in 0 .. Bytes - 1
  PROVE  \E s1, s2, s3, s4 \in 0 .. Symbols - 1 :
           /\ (b1 * Bytes + b2) * Bytes + b3
                = ((s1 * Symbols + s2) * Symbols + s3) * Symbols + s4
           /\ b1 = Completed(s1, s2, 2) /\ b2 = Completed(s2, s3, 3) /\ b3 = Completed(s3, s4, 0)
<1> DEFINE u == b1 \div Radix
           x == b1 % Radix
           v == b2 \div Digits
           y == b2 % Digits
           w == b3 \div Symbols
           z == b3 % Symbols
<1>0. b1 \in Nat /\ b2 \in Nat /\ b3 \in Nat
  BY Widths
<1>1. /\ b1 = u * Radix + x /\ u \in 0 .. Symbols - 1 /\ x \in 0 .. Radix - 1
      /\ b2 = v * Digits + y /\ v \in 0 .. Digits - 1 /\ y \in 0 .. Digits - 1
      /\ b3 = w * Symbols + z /\ w \in 0 .. Radix - 1 /\ z \in 0 .. Symbols - 1
  <2>1. u \in 0 .. Symbols - 1 /\ v \in 0 .. Digits - 1 /\ w \in 0 .. Radix - 1
    BY Widths, QuotientBound
  <2>2. /\ b1 = u * Radix + x /\ x \in 0 .. Radix - 1
        /\ b2 = v * Digits + y /\ y \in 0 .. Digits - 1
        /\ b3 = w * Symbols + z /\ z \in 0 .. Symbols - 1
    BY <1>0, Widths, Division
  <2> QED
    BY <2>1, <2>2
<1> HIDE DEF u, x, v, y, w, z
<1> DEFINE s2 == x * Digits + v
           s3 == y * Radix + w
<1>2. s2 \in 0 .. Symbols - 1 /\ s3 \in 0 .. Symbols - 1
  BY <1>1, Widths, PairBound
<1>3. s2 \div Digits = x /\ s2 % Digits = v /\ s3 \div Radix = y /\ s3 % Radix = w
  <2>1. x \in Int /\ y \in Int /\ Radix \in Nat \ {0} /\ Digits \in Nat \ {0}
    BY <1>1, Widths
  <2> QED
    BY <1>1, <2>1, DivMod
<1>4. b1 = Completed(u, s2, 2) /\ b2 = Completed(s2, s3, 3) /\ b3 = Completed(s3, z, 0)
  <2> HIDE DEF s2, s3
  <2> QED
    BY <1>1, <1>3 DEF Completed
<1> HIDE DEF s2, s3
<1>5. (b1 * Bytes + b2) * Bytes + b3 = ((u * Symbols + s2) * Symbols + s3) * Symbols + z
  BY <1>1, <1>2, <1>4, Packing
<1> QED
  BY <1>1, <1>2, <1>4, <1>5

-----------------------------------------------------------------------------
(* The loop of base64Decode.                                               *)

\* The loop's state before the first character.
Start == [buf |-> 0, bits |-> 0, pad |-> FALSE, out |-> <<>>, ok |-> TRUE]

\* The states of the loop, of which the last one gives the result.
Run(text, f) ==
  /\ f = [n \in 0 .. Len(text) |-> IF n = 0 THEN Start ELSE Base64Round(text, f[n - 1], n)]
  /\ Base64Decode(text) =
       IF /\ Len(text) % 4 = 0 /\ f[Len(text)].ok /\ TailCanonical(f[Len(text)])
       THEN {f[Len(text)].out} ELSE {}

\* The bytes that the first n characters complete.
Decoded(text, n) ==
  [j \in 1 .. (3 * n) \div 4 |->
     LET k == (4 * j + 2) \div 3 IN Completed(text[k - 1][2], text[k][2], k % 4)]

\* The loop's state when n symbols, and nothing else, have been read.
Read(text, n, buf) ==
  [buf |-> buf, bits |-> Left(n % 4), pad |-> FALSE, out |-> Decoded(text, n), ok |-> TRUE]

SymbolsRead(text, w, n) ==
  \E buf \in Nat : /\ w = Read(text, n, buf)
                   /\ n > 0 => buf % Symbols = text[n][2]

\* base64Decode is a run of its loop.
LEMMA DecodeRuns ==
  ASSUME NEW text \in Seq(Base64Chars)
  PROVE  \E f : Run(text, f)
<1> DEFINE places == [i \in DOMAIN text |-> i]
           Round(w, i) == Base64Round(text, w, i)
<1>1. places \in Seq(Nat) /\ Len(places) = Len(text) /\ DOMAIN text = 1 .. Len(text)
  OBVIOUS
<1>2. PICK f : RunOf(f, Round, Start, places)
  <2> HIDE DEF places, Round
  <2> QED
    BY <1>1, FoldRuns
<1>3. f = [n \in 0 .. Len(text) |-> IF n = 0 THEN Start ELSE Base64Round(text, f[n - 1], n)]
  <2>1. f = [n \in 0 .. Len(text) |-> IF n = 0 THEN Start
                                        ELSE Base64Round(text, f[n - 1], places[n])]
    BY <1>1, <1>2 DEF RunOf
  <2>2. \A n \in 0 .. Len(text) : n # 0 => places[n] = n
    BY <1>1
  <2> HIDE DEF places
  <2> QED
    BY <2>1, <2>2
<1>4. FoldLeftDomain(LAMBDA w, i : Base64Round(text, w, i), Start, text) = f[Len(text)]
  BY <1>1, <1>2 DEF RunOf, FoldLeftDomain
<1>5. Run(text, f)
  BY <1>3, <1>4 DEF Run, Base64Decode, Start
<1> QED
  BY <1>5

\* A symbol has a value.
LEMMA SymbolValue ==
  ASSUME NEW c \in Base64Chars, c[1] = "symbol"
  PROVE  c[2] \in 0 .. Symbols - 1 /\ c = <<"symbol", c[2]>> /\ c # Pad
  BY DEF Base64Chars, Pad, Alien

\* The register after one more symbol.
LEMMA Shifted ==
  ASSUME NEW old \in Nat, NEW c \in 0 .. Symbols - 1
  PROVE  LET buf == (old * Symbols + c) % (Bytes * Bytes * Bytes * Bytes)
         IN /\ buf \in Nat /\ buf % Symbols = c
            /\ \A r \in {0, 2, 3} :
                 (buf \div Scale(Left(r))) % Bytes = Completed(old % Symbols, c, r)
<1> DEFINE M == Bytes * Bytes * Bytes * Bytes
           v == old * Symbols + c
           buf == v % M
           m == v \div M
           h == old \div Symbols
           p == old % Symbols
<1>1. M \in Nat \ {0}
  <2>1. Bytes \in Nat \ {0}
    BY Widths
  <2>2. Bytes * Bytes \in Nat \ {0}
    BY <2>1
  <2>3. (Bytes * Bytes) * Bytes \in Nat \ {0}
    BY <2>1, <2>2
  <2> QED
    BY <2>1, <2>3
<1>2. old = h * Symbols + p /\ h \in Nat /\ p \in 0 .. Symbols - 1
  BY Widths, Division
<1>3. v \in Nat
  BY Widths
<1> HIDE DEF M, v
<1>4. v = m * M + buf /\ m \in Nat /\ buf \in 0 .. M - 1
  BY <1>1, <1>3, Division
<1> HIDE DEF h, p, m
<1>5. buf \in Nat /\ buf = old * Symbols + c - m * M
  <2> HIDE DEF buf
  <2> QED
    BY <1>1, <1>3, <1>4, Widths DEF v
<1> HIDE DEF buf
<1>6. buf % Symbols = c
  <2>1. buf = old * Symbols + c - m * (Bytes * Bytes * Bytes * Bytes)
    BY <1>5 DEF M
  <2> QED
    BY <1>4, <2>1, RegisterSymbol
<1>7. ASSUME NEW r \in {0, 2, 3}
      PROVE  (buf \div Scale(Left(r))) % Bytes = Completed(p, c, r)
  <2>1. buf = (h * Symbols + p) * Symbols + c - m * (Bytes * Bytes * Bytes * Bytes)
    BY <1>2, <1>5 DEF M
  <2> QED
    BY <1>2, <1>4, <2>1, RegisterByte
<1> QED
  BY <1>5, <1>6, <1>7 DEF buf, v, M, p

\* The bytes that one more symbol leaves: one more, but for the first of a group.
LEMMA DecodedMore ==
  ASSUME NEW text, NEW n \in Nat \ {0}
  PROVE  Decoded(text, n) =
           IF n % 4 = 1 THEN Decoded(text, n - 1)
           ELSE Append(Decoded(text, n - 1), Completed(text[n - 1][2], text[n][2], n % 4))
<1>1. CASE n % 4 = 1
  <2>1. (3 * n) \div 4 = (3 * (n - 1)) \div 4
    BY <1>1
  <2> QED
    BY <1>1, <2>1 DEF Decoded
<1>2. CASE n % 4 # 1
  <2> DEFINE l == (3 * n) \div 4
             B(j) == LET k == (4 * j + 2) \div 3 IN Completed(text[k - 1][2], text[k][2], k % 4)
  <2>1. l \in Nat /\ l >= 1 /\ (3 * (n - 1)) \div 4 = l - 1 /\ (4 * l + 2) \div 3 = n
    BY <1>2
  <2>2. Decoded(text, n) = [j \in 1 .. l |-> B(j)]
    BY DEF Decoded
  <2> HIDE DEF l
  <2>3. B(l) = Completed(text[n - 1][2], text[n][2], n % 4)
    BY <2>1
  <2>4. Decoded(text, n - 1) = [j \in 1 .. l - 1 |-> B(j)]
    BY <2>1 DEF Decoded
  <2> HIDE DEF B
  <2>5. Append([j \in 1 .. l - 1 |-> B(j)], B(l)) = [j \in 1 .. l |-> B(j)]
    BY <2>1
  <2> QED
    BY <1>2, <2>2, <2>3, <2>4, <2>5
<1> QED
  BY <1>1, <1>2

\* One more symbol.
LEMMA SymbolRound ==
  ASSUME NEW text \in Seq(Base64Chars), NEW n \in 1 .. Len(text), text[n][1] = "symbol",
         NEW w, SymbolsRead(text, w, n - 1)
  PROVE  SymbolsRead(text, Base64Round(text, w, n), n)
<1> DEFINE c == text[n][2]
           r == n % 4
<1>1. n \in Nat /\ n - 1 \in Nat /\ r \in 0 .. 3
  OBVIOUS
<1>2. c \in 0 .. Symbols - 1 /\ text[n] # Pad
  BY SymbolValue
<1>3. PICK old \in Nat : /\ w = Read(text, n - 1, old)
                         /\ n - 1 > 0 => old % Symbols = text[n - 1][2]
  BY DEF SymbolsRead
<1> DEFINE buf == (old * Symbols + c) % (Bytes * Bytes * Bytes * Bytes)
           bits == Left((n - 1) % 4) + 3
<1>4. /\ buf \in Nat /\ buf % Symbols = c
      /\ \A k \in {0, 2, 3} :
           (buf \div Scale(Left(k))) % Bytes = Completed(old % Symbols, c, k)
  BY <1>2, Shifted
<1>5. Base64Round(text, w, n) =
        IF bits < 4 THEN [w EXCEPT !.buf = buf, !.bits = bits]
        ELSE [w EXCEPT !.buf = buf, !.bits = bits - 4,
                !.out = Append(@, (buf \div Scale(bits - 4)) % Bytes)]
  BY <1>2, <1>3 DEF Base64Round, Read
<1> HIDE DEF buf
<1>6. Base64Round(text, w, n) = Read(text, n, buf)
  <2>1. CASE r = 1
    <3>1. bits = 3 /\ Left(r) = 3
      <4>1. (n - 1) % 4 = 0
        BY <1>1, <2>1
      <4> QED
        BY <2>1, <4>1 DEF Left
    <3>2. Decoded(text, n) = Decoded(text, n - 1)
      BY <1>1, <2>1, DecodedMore
    <3>3. Base64Round(text, w, n) = [w EXCEPT !.buf = buf, !.bits = Left(r)]
      <4> HIDE DEF bits, r
      <4>1. bits < 4
        BY <3>1
      <4> QED
        BY <1>5, <3>1, <4>1
    <3> QED
      BY <1>3, <3>2, <3>3 DEF Read
  <2>2. CASE r # 1
    <3>0. \/ r = 0 /\ (n - 1) % 4 = 3
          \/ r = 2 /\ (n - 1) % 4 = 1
          \/ r = 3 /\ (n - 1) % 4 = 2
      BY <1>1, <2>2
    <3>1. bits - 4 = Left(r) /\ bits >= 4 /\ bits \in Int
      <4> HIDE DEF r
      <4> QED
        BY <3>0 DEF Left
    <3>2. r \in {0, 2, 3} /\ n - 1 > 0
      BY <1>1, <2>2
    <3> DEFINE byte == (buf \div Scale(Left(r))) % Bytes
    <3>3. byte = Completed(text[n - 1][2], c, r)
      BY <1>3, <1>4, <3>2
    <3>4. Decoded(text, n) = Append(Decoded(text, n - 1), byte)
      BY <1>1, <2>2, <3>3, DecodedMore
    <3>5. ~(bits < 4)
      <4> HIDE DEF bits
      <4> QED
        BY <3>1
    <3>6. Base64Round(text, w, n) = [w EXCEPT !.buf = buf, !.bits = Left(r),
                                       !.out = Append(@, byte)]
      BY <1>5, <3>1, <3>5
    <3> HIDE DEF bits, byte, r
    <3> QED
      BY <1>3, <3>4, <3>6 DEF Read, r
  <2> QED
    BY <2>1, <2>2
<1> QED
  BY <1>4, <1>6 DEF SymbolsRead
\* After symbols, what they left.
LEMMA SymbolsRun ==
  ASSUME NEW text \in Seq(Base64Chars), NEW f, Run(text, f), NEW N \in 0 .. Len(text),
         \A k \in 1 .. N : text[k][1] = "symbol"
  PROVE  \A n \in 0 .. N : SymbolsRead(text, f[n], n)
<1> DEFINE T == {n \in 0 .. N : ~SymbolsRead(text, f[n], n)}
<1> SUFFICES ASSUME T # {} PROVE FALSE
  OBVIOUS
<1>1. T \in SUBSET Nat
  OBVIOUS
<1>2. PICK m \in T : \A k \in T : m <= k
  BY <1>1, Least
<1>3. \A n \in 0 .. N : f[n] = IF n = 0 THEN Start ELSE Base64Round(text, f[n - 1], n)
  <2>1. \A n \in 0 .. N : n \in 0 .. Len(text)
    OBVIOUS
  <2>2. f = [n \in 0 .. Len(text) |-> IF n = 0 THEN Start ELSE Base64Round(text, f[n - 1], n)]
    BY DEF Run
  <2> QED
    BY <2>1, <2>2
<1>4. CASE m = 0
  <2>1. Start = Read(text, 0, 0)
    <3>1. Decoded(text, 0) = <<>>
      BY DEF Decoded
    <3>2. Left(0 % 4) = 0
      BY DEF Left
    <3> QED
      BY <3>1, <3>2 DEF Start, Read
  <2>2. SymbolsRead(text, f[0], 0)
    BY <1>3, <2>1 DEF SymbolsRead
  <2> QED
    BY <1>4, <2>2
<1>5. CASE m # 0
  <2>1. m - 1 \in 0 .. N /\ m \in 1 .. N /\ m - 1 \notin T
    BY <1>2, <1>5
  <2>2. SymbolsRead(text, f[m - 1], m - 1)
    BY <2>1
  <2>3. f[m] = Base64Round(text, f[m - 1], m)
    BY <1>3, <2>1
  <2>4. SymbolsRead(text, f[m], m)
    BY <2>1, <2>2, <2>3, SymbolRound
  <2> QED
    BY <2>4
<1> QED
  BY <1>4, <1>5

\* A state of the loop that does not end in a value.
Failed(w) ==
  \E buf, bits, pad, out :
    w = [buf |-> buf, bits |-> bits, pad |-> pad, out |-> out, ok |-> FALSE]

\* It stays one to the end.
LEMMA FailedRun ==
  ASSUME NEW text \in Seq(Base64Chars), NEW f, Run(text, f), NEW m \in 0 .. Len(text),
         Failed(f[m])
  PROVE  ~f[Len(text)].ok
<1> DEFINE T == {n \in m .. Len(text) : ~Failed(f[n])}
<1>1. ASSUME NEW w, Failed(w), NEW n PROVE Failed(Base64Round(text, w, n))
  <2>1. PICK buf, bits, pad, out :
          w = [buf |-> buf, bits |-> bits, pad |-> pad, out |-> out, ok |-> FALSE]
    BY <1>1 DEF Failed
  <2> DEFINE next == (buf * Symbols + text[n][2]) % (Bytes * Bytes * Bytes * Bytes)
             b == bits + 3
  <2>2. \/ Base64Round(text, w, n) = [w EXCEPT !.ok = @ /\ n > Len(text) - 2, !.pad = TRUE]
        \/ Base64Round(text, w, n) = [w EXCEPT !.ok = FALSE]
        \/ Base64Round(text, w, n) = [w EXCEPT !.buf = next, !.bits = b]
        \/ Base64Round(text, w, n) = [w EXCEPT !.buf = next, !.bits = b - 4,
                                        !.out = Append(@, (next \div Scale(b - 4)) % Bytes)]
    BY <2>1 DEF Base64Round
  <2> HIDE DEF next, b
  <2> QED
    BY <2>1, <2>2 DEF Failed
<1>2. \A n \in 1 .. Len(text) : f[n] = Base64Round(text, f[n - 1], n)
  BY DEF Run
<1>3. T = {}
  <2> SUFFICES ASSUME T # {} PROVE FALSE
    OBVIOUS
  <2>1. T \in SUBSET Nat
    OBVIOUS
  <2>2. PICK n \in T : \A k \in T : n <= k
    BY <2>1, Least
  <2>3. n # m /\ n - 1 \in m .. Len(text) /\ n \in 1 .. Len(text) /\ n - 1 \notin T
    BY <2>2
  <2>4. Failed(f[n - 1])
    BY <2>3
  <2>5. Failed(f[n])
    BY <1>1, <1>2, <2>3, <2>4
  <2> QED
    BY <2>5
<1>4. Failed(f[Len(text)])
  BY <1>3
<1> QED
  BY <1>4 DEF Failed

\* A whole number of groups: N symbols, and a pad or two that fill the last one.
Padding(text, N) ==
  /\ Len(text) % 4 = 0 /\ Len(text) <= N + 2
  /\ \A k \in 1 .. N : text[k][1] = "symbol"
  /\ \A k \in N + 1 .. Len(text) : text[k] = Pad

\* The bits of the last symbol that make no byte are zero.
Canonical(text, N) == N > 0 => text[N][2] % Scale(Left(N % 4)) = 0

\* A pad in one of the last two places is noted.
LEMMA PadRound ==
  ASSUME NEW text, NEW n \in Int, text[n] = Pad, Len(text) \in Nat,
         NEW buf, NEW bits, NEW pad, NEW out
  PROVE  Base64Round(text, [buf |-> buf, bits |-> bits, pad |-> pad, out |-> out, ok |-> TRUE], n)
           = [buf |-> buf, bits |-> bits, pad |-> TRUE, out |-> out, ok |-> n > Len(text) - 2]
<1> DEFINE w == [buf |-> buf, bits |-> bits, pad |-> pad, out |-> out, ok |-> TRUE]
           late == n > Len(text) - 2
<1>1. Base64Round(text, w, n) = [w EXCEPT !.ok = w.ok /\ late, !.pad = TRUE]
  BY DEF Base64Round, Pad
<1> DEFINE ok == w.ok /\ late
<1>2. ok = late
  OBVIOUS
<1> HIDE DEF ok
<1>3. Base64Round(text, w, n) =
        [buf |-> buf, bits |-> bits, pad |-> TRUE, out |-> out, ok |-> ok]
  BY <1>1 DEF ok
<1> QED
  BY <1>2, <1>3

\* What the symbols of such a text left is what it ends with.
LEMMA PaddingRun ==
  ASSUME NEW text \in Seq(Base64Chars), NEW f, Run(text, f), NEW N \in 0 .. Len(text),
         Padding(text, N)
  PROVE  LET w == f[Len(text)]
         IN w.ok /\ w.out = Decoded(text, N) /\ (TailCanonical(w) <=> Canonical(text, N))
<1> DEFINE L == Len(text)
           w == f[L]
<1>1. L \in Nat /\ N \in Nat /\ L \in N .. N + 2
  <2>1. L <= N + 2
    BY DEF Padding
  <2> QED
    BY <2>1
<1>2. SymbolsRead(text, f[N], N)
  BY SymbolsRun DEF Padding
<1>3. PICK buf \in Nat : f[N] = Read(text, N, buf) /\ (N > 0 => buf % Symbols = text[N][2])
  BY <1>2 DEF SymbolsRead
<1> DEFINE State(pad) == [buf |-> buf, bits |-> Left(N % 4), pad |-> pad,
                          out |-> Decoded(text, N), ok |-> TRUE]
<1>4. f[N] = State(FALSE)
  BY <1>3 DEF Read
<1>5. ASSUME NEW n \in 1 .. L, n > L - 2, n > N, NEW pad, f[n - 1] = State(pad)
      PROVE  f[n] = State(TRUE)
  <2>1. f[n] = Base64Round(text, f[n - 1], n)
    BY DEF Run
  <2>2. n \in N + 1 .. L
    BY <1>1, <1>5
  <2>3. text[n] = Pad
    BY <2>2 DEF Padding
  <2>4. n \in Int /\ Len(text) \in Nat /\ n > Len(text) - 2
    BY <1>1, <1>5
  <2>5. Base64Round(text, State(pad), n) = State(TRUE)
    BY <2>3, <2>4, PadRound
  <2> QED
    BY <1>5, <2>1, <2>5
<1>6. \E pad : w = State(pad)
  <2> HIDE DEF State
  <2>1. CASE L = N
    BY <1>4, <2>1
  <2>2. CASE L = N + 1
    <3>1. L \in 1 .. L /\ L > L - 2 /\ L > N /\ L - 1 = N
      BY <1>1, <2>2
    <3> QED
      BY <1>4, <1>5, <3>1
  <2>3. CASE L = N + 2
    <3>1. /\ L - 1 \in 1 .. L /\ L - 1 > L - 2 /\ L - 1 > N /\ (L - 1) - 1 = N
          /\ L \in 1 .. L /\ L > L - 2 /\ L > N
      BY <1>1, <2>3
    <3>2. f[L - 1] = State(TRUE)
      BY <1>4, <1>5, <3>1
    <3> QED
      BY <1>5, <3>1, <3>2
  <2> QED
    BY <1>1, <2>1, <2>2, <2>3
<1>7. w.ok /\ w.out = Decoded(text, N) /\ w.buf = buf /\ w.bits = Left(N % 4)
  BY <1>6
<1>8. TailCanonical(w) <=> buf % Scale(Left(N % 4)) = 0
  BY <1>7 DEF TailCanonical
<1>9. buf % Scale(Left(N % 4)) = 0 <=> Canonical(text, N)
  <2>1. N % 4 \in 0 .. 3
    BY <1>1
  <2>2. CASE N > 0
    BY <1>3, <2>1, <2>2, RegisterTail DEF Canonical
  <2>3. CASE N = 0
    <3>1. N % 4 = 0
      BY <2>3
    <3>2. Scale(Left(N % 4)) = 1
      BY <3>1 DEF Scale, Left
    <3>3. buf % 1 = 0
      OBVIOUS
    <3> QED
      BY <2>3, <3>2, <3>3 DEF Canonical
  <2> QED
    BY <1>1, <2>2, <2>3
<1> QED
  BY <1>7, <1>8, <1>9

\* Such a text decodes to what its symbols complete.
LEMMA PaddingDecodes ==
  ASSUME NEW text \in Seq(Base64Chars), NEW N \in 0 .. Len(text), Padding(text, N),
         Canonical(text, N)
  PROVE  Base64Decode(text) = {Decoded(text, N)}
<1>1. PICK f : Run(text, f)
  BY DecodeRuns
<1>2. Len(text) % 4 = 0
  BY DEF Padding
<1> QED
  BY <1>1, <1>2, PaddingRun DEF Run

\* No other text decodes.
LEMMA DecodesPadding ==
  ASSUME NEW text \in Seq(Base64Chars), Base64Decode(text) # {}
  PROVE  \E N \in 0 .. Len(text) : Padding(text, N) /\ Canonical(text, N)
<1> DEFINE L == Len(text)
           T == {n \in 0 .. L : n = L \/ text[n + 1][1] # "symbol"}
<1>1. PICK f : Run(text, f)
  BY DecodeRuns
<1>2. L % 4 = 0 /\ f[L].ok /\ TailCanonical(f[L])
  BY <1>1 DEF Run
<1>3. L \in Nat /\ T \in SUBSET Nat /\ L \in T
  OBVIOUS
<1>4. PICK N \in T : \A k \in T : N <= k
  BY <1>3, Least
<1>5. \A k \in 1 .. N : text[k][1] = "symbol"
  <2> SUFFICES ASSUME NEW k \in 1 .. N, text[k][1] # "symbol" PROVE FALSE
    OBVIOUS
  <2>1. k - 1 \in 0 .. L /\ (k - 1) + 1 = k
    BY <1>3
  <2>2. k - 1 \in T
    BY <2>1
  <2>3. N <= k - 1
    BY <1>4, <2>2
  <2>4. N \in Nat /\ k \in Nat /\ k <= N
    BY <1>3
  <2> QED
    BY <2>3, <2>4
<1>6. N \in 0 .. L
  OBVIOUS
<1>7. PICK buf \in Nat : f[N] = Read(text, N, buf)
  BY <1>1, <1>5, <1>6, SymbolsRun DEF SymbolsRead
<1> DEFINE State(pad, ok) == [buf |-> buf, bits |-> Left(N % 4), pad |-> pad,
                              out |-> Decoded(text, N), ok |-> ok]
<1>8. f[N] = State(FALSE, TRUE)
  BY <1>7 DEF Read
<1>9. \A n \in 1 .. L : f[n] = Base64Round(text, f[n - 1], n)
  BY <1>1 DEF Run
<1>10. \A n \in 0 .. L : ~Failed(f[n])
  BY <1>1, <1>2, FailedRun
<1>11. Padding(text, N)
  <2>1. CASE N = L
    BY <1>2, <1>3, <1>5, <2>1 DEF Padding
  <2>2. CASE N # L
    <3> DEFINE n == N + 1
    <3>1. n \in 1 .. L /\ n - 1 = N /\ text[n][1] # "symbol"
      BY <1>3, <1>6, <2>2
    <3>2. f[n] = Base64Round(text, State(FALSE, TRUE), n)
      BY <1>8, <1>9, <3>1
    <3>3. text[n] = Pad
      <4> SUFFICES ASSUME text[n] # Pad PROVE FALSE
        OBVIOUS
      <4>1. text[n][1] # "pad"
        BY <3>1 DEF Base64Chars, Pad, Alien
      <4>2. f[n] = State(FALSE, FALSE)
        BY <3>1, <3>2, <4>1 DEF Base64Round
      <4>3. Failed(f[n])
        BY <4>2 DEF Failed
      <4> QED
        BY <1>10, <3>1, <4>3
    <3>4. n > L - 2
      <4> SUFFICES ASSUME ~(n > L - 2) PROVE FALSE
        OBVIOUS
      <4>1. f[n] = State(TRUE, FALSE)
        <5>1. n \in Int /\ Len(text) \in Nat /\ ~(n > Len(text) - 2)
          BY <1>3, <1>6
        <5>2. Base64Round(text, State(FALSE, TRUE), n) = State(TRUE, n > Len(text) - 2)
          BY <3>3, <5>1, PadRound
        <5>3. (n > Len(text) - 2) = FALSE
          BY <5>1
        <5> QED
          BY <3>2, <5>2, <5>3
      <4>2. Failed(f[n])
        BY <4>1 DEF Failed
      <4> QED
        BY <1>10, <3>1, <4>2
    <3>5. f[n] = State(TRUE, TRUE)
      <4>1. n \in Int /\ Len(text) \in Nat /\ n > Len(text) - 2
        BY <1>3, <1>6, <3>4
      <4>2. Base64Round(text, State(FALSE, TRUE), n) = State(TRUE, n > Len(text) - 2)
        BY <3>3, <4>1, PadRound
      <4>3. (n > Len(text) - 2) = TRUE
        BY <4>1
      <4> QED
        BY <3>2, <4>2, <4>3
    <3>6. ASSUME N + 2 = L PROVE text[L] = Pad
      <4> SUFFICES ASSUME text[L] # Pad PROVE FALSE
        OBVIOUS
      <4>1. L \in 1 .. L /\ L - 1 = n /\ L \in 0 .. L
        BY <1>3, <1>6, <3>6
      <4>2. f[L] = Base64Round(text, State(TRUE, TRUE), L)
        BY <1>9, <3>5, <4>1
      <4>3. text[L][1] # "pad"
        <5>1. text[L] \in Base64Chars
          BY <4>1
        <5> QED
          BY <5>1 DEF Base64Chars, Pad, Alien
      <4>4. f[L] = State(TRUE, FALSE)
        BY <4>2, <4>3 DEF Base64Round
      <4>5. Failed(f[L])
        BY <4>4 DEF Failed
      <4> QED
        BY <1>10, <4>1, <4>5
    <3>7. \A k \in N + 1 .. L : k = n \/ (k = L /\ N + 2 = L)
      BY <1>3, <1>6, <3>4
    <3>8. L <= N + 2
      BY <1>3, <1>6, <3>4
    <3> QED
      BY <1>2, <1>5, <3>3, <3>6, <3>7, <3>8 DEF Padding
  <2> QED
    BY <2>1, <2>2
<1>12. Canonical(text, N)
  BY <1>1, <1>2, <1>6, <1>11, PaddingRun
<1> QED
  BY <1>6, <1>11, <1>12
-----------------------------------------------------------------------------
(* The texts that decode, and what base64Encode makes of their bytes.      *)

\* The byte at a place, or the zero that fills the last group.
At(data, k) == IF k <= Len(data) THEN data[k] ELSE 0

\* The characters of a group are the places of its number.
LEMMA GroupChars ==
  ASSUME NEW data, NEW i, NEW s \in [1 .. 4 -> 0 .. Symbols - 1],
         (At(data, i) * Bytes + At(data, i + 1)) * Bytes + At(data, i + 2)
           = ((s[1] * Symbols + s[2]) * Symbols + s[3]) * Symbols + s[4]
  PROVE  \A k \in 1 .. 4 :
           Group(data, i)[k] = IF k <= 2 + Len(data) - i THEN <<"symbol", s[k]>> ELSE Pad
<1> DEFINE n == (At(data, i) * Bytes + At(data, i + 1)) * Bytes + At(data, i + 2)
           tops == <<Symbols * Symbols * Symbols, Symbols * Symbols, Symbols, 1>>
           full == 2 + Len(data) - i
<1>1. Group(data, i) =
        [k \in 1 .. 4 |-> IF k <= full THEN <<"symbol", (n \div tops[k]) % Symbols>> ELSE Pad]
  BY DEF Group, At
<1>2. /\ (n \div (Symbols * Symbols * Symbols)) % Symbols = s[1]
      /\ (n \div (Symbols * Symbols)) % Symbols = s[2]
      /\ (n \div Symbols) % Symbols = s[3]
      /\ (n \div 1) % Symbols = s[4]
  <2>1. n = ((s[1] * Symbols + s[2]) * Symbols + s[3]) * Symbols + s[4]
    OBVIOUS
  <2>2. /\ s[1] \in 0 .. Symbols - 1 /\ s[2] \in 0 .. Symbols - 1
        /\ s[3] \in 0 .. Symbols - 1 /\ s[4] \in 0 .. Symbols - 1
    OBVIOUS
  <2> HIDE DEF n
  <2> QED
    BY <2>1, <2>2, Places
<1> HIDE DEF n
<1>3. \A k \in 1 .. 4 : (n \div tops[k]) % Symbols = s[k]
  <2>1. /\ tops[1] = Symbols * Symbols * Symbols /\ tops[2] = Symbols * Symbols
        /\ tops[3] = Symbols /\ tops[4] = 1
    OBVIOUS
  <2>2. \A k \in 1 .. 4 : k = 1 \/ k = 2 \/ k = 3 \/ k = 4
    OBVIOUS
  <2> HIDE DEF tops
  <2> QED
    BY <1>2, <2>1, <2>2
<1> HIDE DEF tops, full
<1>4. \A k \in 1 .. 4 :
        Group(data, i)[k] = IF k <= full THEN <<"symbol", s[k]>> ELSE Pad
  BY <1>1, <1>3
<1> QED
  BY <1>4 DEF full

\* A character of such a text stands for a value, a pad for zero.
LEMMA PaddingValues ==
  ASSUME NEW text \in Seq(Base64Chars), NEW N \in 0 .. Len(text), Padding(text, N)
  PROVE  \A k \in 1 .. Len(text) :
           /\ text[k][2] \in 0 .. Symbols - 1
           /\ text[k] = IF k <= N THEN <<"symbol", text[k][2]>> ELSE Pad
           /\ k > N => text[k][2] = 0
<1> TAKE k \in 1 .. Len(text)
<1>1. text[k] \in Base64Chars
  OBVIOUS
<1>2. CASE k <= N
  <2>1. text[k][1] = "symbol"
    BY <1>2 DEF Padding
  <2> QED
    BY <1>1, <1>2, <2>1, SymbolValue
<1>3. CASE k > N
  <2>1. text[k] = Pad
    BY <1>3 DEF Padding
  <2>2. 0 \in 0 .. Symbols - 1
    BY Widths
  <2> QED
    BY <1>3, <2>1, <2>2 DEF Pad
<1> QED
  BY <1>2, <1>3

\* Nothing is left over in the symbols before a pad.
LEMMA CompletedNothing ==
  ASSUME NEW p \in 0 .. Symbols - 1
  PROVE  /\ p % Digits = 0 => Completed(p, 0, 3) = 0
         /\ p % Radix = 0 => Completed(p, 0, 0) = 0
<1>1. 0 \div Radix = 0 /\ 0 * Digits = 0 /\ 0 * Symbols = 0
  <2>1. 0 = 0 * Radix + 0 /\ 0 \in 0 .. Radix - 1 /\ Radix \in Nat \ {0} /\ 0 \in Int
    BY Widths
  <2>2. (0 * Radix + 0) \div Radix = 0
    BY <2>1, DivMod
  <2>3. 0 * Digits = 0 /\ 0 * Symbols = 0
    BY Widths
  <2> QED
    BY <2>1, <2>2, <2>3
<1> QED
  BY <1>1 DEF Completed

\* The bytes of each group of such a text, zeros where it has none.
LEMMA GroupBytes ==
  ASSUME NEW text \in Seq(Base64Chars), NEW N \in 0 .. Len(text), Padding(text, N),
         Canonical(text, N), NEW g \in Nat, 4 * g < Len(text), NEW j \in 1 .. 3
  PROVE  At(Decoded(text, N), 3 * g + j)
           = Completed(text[4 * g + j][2], text[4 * g + j + 1][2], (j + 1) % 4)
<1> DEFINE L == Len(text)
<1>1. PICK m \in Nat : L = 4 * m
  <2>1. L \in Nat /\ L % 4 = 0
    BY DEF Padding
  <2> QED
    BY <2>1
<1>2. N \in Nat /\ N <= 4 * m /\ 4 * m <= N + 2 /\ g < m
  BY <1>1 DEF Padding
<1> HIDE DEF L
<1>3. Len(Decoded(text, N)) = (3 * N) \div 4
  BY <1>2 DEF Decoded
<1>4. CASE 3 * g + j <= (3 * N) \div 4
  <2> DEFINE l == 3 * g + j
             k == (4 * l + 2) \div 3
  <2>1. l \in 1 .. (3 * N) \div 4 /\ k = 4 * g + j + 1 /\ k % 4 = (j + 1) % 4 /\ k - 1 = 4 * g + j
    BY <1>2, <1>4
  <2>2. At(Decoded(text, N), l) = Decoded(text, N)[l]
    BY <1>3, <1>4 DEF At
  <2>3. Decoded(text, N)[l] = Completed(text[k - 1][2], text[k][2], k % 4)
    BY <2>1 DEF Decoded
  <2> HIDE DEF l, k
  <2> QED
    BY <2>1, <2>2, <2>3 DEF l
<1>5. CASE ~(3 * g + j <= (3 * N) \div 4)
  <2>1. At(Decoded(text, N), 3 * g + j) = 0
    BY <1>3, <1>5 DEF At
  <2>2. \/ N = 4 * g + 2 /\ j \in {2, 3}
        \/ N = 4 * g + 3 /\ j = 3
    BY <1>2, <1>5
  <2>3. 4 * g + 4 = Len(text)
    BY <1>1, <1>2, <2>2 DEF L
  <2>4. \A k \in 1 .. Len(text) : text[k][2] \in 0 .. Symbols - 1 /\ (k > N => text[k][2] = 0)
    BY PaddingValues
  <2>5. N > 0 /\ text[N][2] % Scale(Left(N % 4)) = 0
    BY <2>2 DEF Canonical
  <2>6. CASE N = 4 * g + 2
    <3>1. N % 4 = 2
      BY <2>6
    <3>2. Scale(Left(2)) = Digits
      BY DEF Scale, Left
    <3>3. text[4 * g + 2][2] % Digits = 0
      BY <2>5, <2>6, <3>1, <3>2
    <3>4. /\ text[4 * g + 2][2] \in 0 .. Symbols - 1
          /\ text[4 * g + 3][2] = 0 /\ text[4 * g + 4][2] = 0
      BY <2>3, <2>4, <2>6
    <3>5. CASE j = 2
      <4>1. 4 * g + j = 4 * g + 2 /\ 4 * g + j + 1 = 4 * g + 3 /\ (j + 1) % 4 = 3
        BY <3>5
      <4> QED
        BY <2>1, <3>3, <3>4, <4>1, CompletedNothing
    <3>6. CASE j = 3
      <4>1. 4 * g + j = 4 * g + 3 /\ 4 * g + j + 1 = 4 * g + 4 /\ (j + 1) % 4 = 0
        BY <3>6
      <4>2. 0 % Radix = 0 /\ 0 \in 0 .. Symbols - 1
        BY Widths
      <4> QED
        BY <2>1, <3>4, <4>1, <4>2, CompletedNothing
    <3> QED
      BY <2>2, <3>5, <3>6
  <2>7. CASE N = 4 * g + 3
    <3>1. N % 4 = 3
      BY <2>7
    <3>2. Scale(Left(3)) = Radix
      BY DEF Scale, Left
    <3>3. text[4 * g + 3][2] % Radix = 0
      BY <2>5, <2>7, <3>1, <3>2
    <3>4. text[4 * g + 3][2] \in 0 .. Symbols - 1 /\ text[4 * g + 4][2] = 0
      BY <2>3, <2>4, <2>7
    <3>5. j = 3
      BY <2>2, <2>7
    <3>6. 4 * g + j = 4 * g + 3 /\ 4 * g + j + 1 = 4 * g + 4 /\ (j + 1) % 4 = 0
      BY <3>5
    <3> QED
      BY <2>1, <3>3, <3>4, <3>6, CompletedNothing
  <2> QED
    BY <2>2, <2>6, <2>7
<1> QED
  BY <1>4, <1>5

\* Such a text is the one its bytes encode to.
LEMMA PaddingEncodes ==
  ASSUME NEW text \in Seq(Base64Chars), NEW N \in 0 .. Len(text), Padding(text, N),
         Canonical(text, N)
  PROVE  Decoded(text, N) \in Seq(Byte) /\ Base64Encode(Decoded(text, N)) = text
<1> DEFINE L == Len(text)
           b == Decoded(text, N)
<1>1. PICK m \in Nat : L = 4 * m
  <2>1. L \in Nat /\ L % 4 = 0
    BY DEF Padding
  <2> QED
    BY <2>1
<1>2. N \in Nat /\ N <= 4 * m /\ 4 * m <= N + 2
  BY <1>1 DEF Padding
<1>3. \A k \in 1 .. L : /\ text[k][2] \in 0 .. Symbols - 1
                        /\ text[k] = IF k <= N THEN <<"symbol", text[k][2]>> ELSE Pad
  BY PaddingValues
<1>4. b \in Seq(Byte)
  <2>1. ASSUME NEW j \in 1 .. (3 * N) \div 4
        PROVE  b[j] \in Byte
    <3> DEFINE k == (4 * j + 2) \div 3
    <3>1. k \in 1 .. L /\ k - 1 \in 1 .. L /\ k % 4 \in {0, 2, 3}
      BY <1>1, <1>2
    <3>2. b[j] = Completed(text[k - 1][2], text[k][2], k % 4)
      BY DEF Decoded
    <3> HIDE DEF k
    <3> QED
      BY <1>3, <3>1, <3>2, CompletedByte DEF Byte
  <2>2. b = [j \in 1 .. (3 * N) \div 4 |-> b[j]]
    BY DEF Decoded
  <2> DEFINE l == (3 * N) \div 4
  <2>3. l \in Nat
    BY <1>2
  <2> HIDE DEF b, l
  <2>4. b \in [1 .. l -> Byte]
    BY <2>1, <2>2 DEF l
  <2> QED
    BY <2>3, <2>4
<1>5. Len(b) = (3 * N) \div 4
  BY <1>2 DEF Decoded
<1>6. ASSUME NEW p \in 1 .. L
      PROVE  Base64Encode(b)[p] = text[p]
  <2> DEFINE g == (p - 1) \div 4
             k == ((p - 1) % 4) + 1
             s == [i \in 1 .. 4 |-> text[4 * g + i][2]]
  <2>1. g \in Nat /\ k \in 1 .. 4 /\ p = 4 * g + k /\ 4 * g + 4 <= L
    BY <1>1
  <2>2. Base64Encode(b)[p] = Group(b, 3 * g + 1)[k]
    <3>1. p \in 1 .. 4 * ((Len(b) + 2) \div 3)
      BY <1>1, <1>2, <1>5
    <3> QED
      BY <3>1 DEF Base64Encode
  <2> HIDE DEF g, k
  <2>3. \A i \in 1 .. 4 : 4 * g + i \in 1 .. L
    BY <2>1
  <2>4. s \in [1 .. 4 -> 0 .. Symbols - 1]
    BY <1>3, <2>3
  <2>5. /\ At(b, 3 * g + 1) = Completed(s[1], s[2], 2)
        /\ At(b, 3 * g + 2) = Completed(s[2], s[3], 3)
        /\ At(b, 3 * g + 3) = Completed(s[3], s[4], 0)
    <3>1. 4 * g < Len(text)
      BY <1>1, <2>1
    <3>2. \A j \in 1 .. 3 : At(b, 3 * g + j)
            = Completed(text[4 * g + j][2], text[4 * g + j + 1][2], (j + 1) % 4)
      BY <2>1, <3>1, GroupBytes
    <3>3. (1 + 1) % 4 = 2 /\ (2 + 1) % 4 = 3 /\ (3 + 1) % 4 = 0
      OBVIOUS
    <3>4. /\ 4 * g + 1 + 1 = 4 * g + 2 /\ 4 * g + 2 + 1 = 4 * g + 3
          /\ 4 * g + 3 + 1 = 4 * g + 4
      BY <2>1
    <3>5. /\ s[1] = text[4 * g + 1][2] /\ s[2] = text[4 * g + 2][2]
          /\ s[3] = text[4 * g + 3][2] /\ s[4] = text[4 * g + 4][2]
      OBVIOUS
    <3>6. 1 \in 1 .. 3 /\ 2 \in 1 .. 3 /\ 3 \in 1 .. 3
      OBVIOUS
    <3> HIDE DEF b, s
    <3> QED
      BY <3>2, <3>3, <3>4, <3>5, <3>6
  <2> HIDE DEF b
  <2>6. (At(b, 3 * g + 1) * Bytes + At(b, (3 * g + 1) + 1)) * Bytes + At(b, (3 * g + 1) + 2)
          = ((s[1] * Symbols + s[2]) * Symbols + s[3]) * Symbols + s[4]
    <3>1. (3 * g + 1) + 1 = 3 * g + 2 /\ (3 * g + 1) + 2 = 3 * g + 3
      BY <2>1
    <3>2. /\ s[1] \in 0 .. Symbols - 1 /\ s[2] \in 0 .. Symbols - 1
          /\ s[3] \in 0 .. Symbols - 1 /\ s[4] \in 0 .. Symbols - 1
      BY <2>4
    <3> HIDE DEF s
    <3> QED
      BY <2>5, <3>1, <3>2, Packing
  <2>7. Group(b, 3 * g + 1)[k] =
          IF k <= 2 + Len(b) - (3 * g + 1) THEN <<"symbol", s[k]>> ELSE Pad
    <3> HIDE DEF s
    <3>1. \A i \in 1 .. 4 : Group(b, 3 * g + 1)[i] =
            IF i <= 2 + Len(b) - (3 * g + 1) THEN <<"symbol", s[i]>> ELSE Pad
      BY <2>4, <2>6, GroupChars
    <3> QED
      BY <2>1, <3>1
  <2>8. k <= 2 + Len(b) - (3 * g + 1) <=> p <= N
    BY <1>1, <1>2, <1>5, <2>1
  <2>9. s[k] = text[p][2]
    BY <2>1
  <2> QED
    BY <1>3, <2>2, <2>7, <2>8, <2>9
<1>7. 4 * ((Len(b) + 2) \div 3) = L
  BY <1>1, <1>2, <1>5
<1>8. Base64Encode(b) = [p \in 1 .. L |-> Base64Encode(b)[p]]
  BY <1>7 DEF Base64Encode
<1>9. text = [p \in 1 .. L |-> text[p]]
  OBVIOUS
<1> QED
  BY <1>4, <1>6, <1>8, <1>9

\* A text that decodes is the one that its bytes encode to.
THEOREM Base64Reads ==
  ASSUME NEW text \in Seq(Base64Chars), NEW b \in Base64Decode(text)
  PROVE  b \in Seq(Byte) /\ Base64Encode(b) = text
<1>1. PICK N \in 0 .. Len(text) : Padding(text, N) /\ Canonical(text, N)
  BY DecodesPadding
<1>2. b = Decoded(text, N)
  BY <1>1, PaddingDecodes
<1> QED
  BY <1>1, <1>2, PaddingEncodes
\* The characters of a group of an encoded text stand for the bytes of it.
LEMMA EncodedGroup ==
  ASSUME NEW data \in Seq(Byte), NEW g \in Nat, 3 * g < Len(data)
  PROVE  \E s \in [1 .. 4 -> 0 .. Symbols - 1] :
           /\ At(data, 3 * g + 1) = Completed(s[1], s[2], 2)
           /\ At(data, 3 * g + 2) = Completed(s[2], s[3], 3)
           /\ At(data, 3 * g + 3) = Completed(s[3], s[4], 0)
           /\ \A k \in 1 .. 4 :
                Base64Encode(data)[4 * g + k] =
                  IF k <= 1 + Len(data) - 3 * g THEN <<"symbol", s[k]>> ELSE Pad
<1> DEFINE b1 == At(data, 3 * g + 1)
           b2 == At(data, 3 * g + 2)
           b3 == At(data, 3 * g + 3)
<1>1. b1 \in 0 .. Bytes - 1 /\ b2 \in 0 .. Bytes - 1 /\ b3 \in 0 .. Bytes - 1
  <2>1. 0 \in 0 .. Bytes - 1
    BY Widths
  <2>2. ASSUME NEW k \in Nat \ {0} PROVE At(data, k) \in 0 .. Bytes - 1
    <3>1. k <= Len(data) => data[k] \in 0 .. Bytes - 1
      <4>1. Len(data) \in Nat /\ \A i \in 1 .. Len(data) : data[i] \in Byte
        OBVIOUS
      <4>2. k <= Len(data) => k \in 1 .. Len(data)
        BY <4>1
      <4> QED
        BY <4>1, <4>2 DEF Byte
    <3> QED
      BY <2>1, <3>1 DEF At
  <2> QED
    BY <2>2
<1> HIDE DEF b1, b2, b3
<1>2. PICK s1, s2, s3, s4 \in 0 .. Symbols - 1 :
        /\ (b1 * Bytes + b2) * Bytes + b3
             = ((s1 * Symbols + s2) * Symbols + s3) * Symbols + s4
        /\ b1 = Completed(s1, s2, 2) /\ b2 = Completed(s2, s3, 3) /\ b3 = Completed(s3, s4, 0)
  BY <1>1, Unpacking
<1> DEFINE s == [k \in 1 .. 4 |-> IF k = 1 THEN s1 ELSE IF k = 2 THEN s2
                                   ELSE IF k = 3 THEN s3 ELSE s4]
<1>3. s[1] = s1 /\ s[2] = s2 /\ s[3] = s3 /\ s[4] = s4
  OBVIOUS
<1>4. s \in [1 .. 4 -> 0 .. Symbols - 1]
  OBVIOUS
<1> HIDE DEF s
<1>5. (3 * g + 1) + 1 = 3 * g + 2 /\ (3 * g + 1) + 2 = 3 * g + 3
  OBVIOUS
<1>6. (At(data, 3 * g + 1) * Bytes + At(data, (3 * g + 1) + 1)) * Bytes
         + At(data, (3 * g + 1) + 2)
        = ((s[1] * Symbols + s[2]) * Symbols + s[3]) * Symbols + s[4]
  BY <1>2, <1>3, <1>5 DEF b1, b2, b3
<1>7. \A k \in 1 .. 4 : Group(data, 3 * g + 1)[k] =
        IF k <= 2 + Len(data) - (3 * g + 1) THEN <<"symbol", s[k]>> ELSE Pad
  BY <1>4, <1>6, GroupChars
<1>8. ASSUME NEW k \in 1 .. 4
      PROVE  Base64Encode(data)[4 * g + k] = Group(data, 3 * g + 1)[k]
  <2> DEFINE p == 4 * g + k
  <2>1. p \in 1 .. 4 * ((Len(data) + 2) \div 3) /\ (p - 1) \div 4 = g /\ ((p - 1) % 4) + 1 = k
    <3>1. Len(data) \in Nat
      OBVIOUS
    <3> QED
      BY <3>1
  <2>2. Base64Encode(data)[p] = Group(data, 3 * ((p - 1) \div 4) + 1)[((p - 1) % 4) + 1]
    BY <2>1 DEF Base64Encode
  <2> HIDE DEF p
  <2> QED
    BY <2>1, <2>2 DEF p
<1>9. \A k \in 1 .. 4 : k <= 2 + Len(data) - (3 * g + 1) <=> k <= 1 + Len(data) - 3 * g
  <2>1. Len(data) \in Nat
    OBVIOUS
  <2> QED
    BY <2>1
<1>10. \A k \in 1 .. 4 :
         Base64Encode(data)[4 * g + k] =
           IF k <= 1 + Len(data) - 3 * g THEN <<"symbol", s[k]>> ELSE Pad
  BY <1>7, <1>8, <1>9
<1>11. At(data, 3 * g + 1) = Completed(s[1], s[2], 2)
       /\ At(data, 3 * g + 2) = Completed(s[2], s[3], 3)
       /\ At(data, 3 * g + 3) = Completed(s[3], s[4], 0)
  BY <1>2, <1>3 DEF b1, b2, b3
<1> QED
  BY <1>4, <1>10, <1>11

\* A byte that is zero has nothing of the symbol before it.
LEMMA NothingCompleted ==
  ASSUME NEW p \in 0 .. Symbols - 1, NEW c \in 0 .. Symbols - 1
  PROVE  /\ Completed(p, c, 3) = 0 => p % Digits = 0
         /\ Completed(p, c, 0) = 0 => p % Radix = 0
<1> DEFINE d == p % Digits
           r == p % Radix
           q == c \div Radix
<1>1. d \in Nat /\ r \in Nat /\ q \in Nat /\ c \in Nat
  <2>1. d \in 0 .. Digits - 1 /\ r \in 0 .. Radix - 1 /\ q \in 0 .. Digits - 1 /\ c \in Nat
    BY Splits
  <2> QED
    BY <2>1, Widths
<1>2. Completed(p, c, 3) = d * Digits + q /\ Completed(p, c, 0) = r * Symbols + c
  BY DEF Completed
<1> HIDE DEF d, r, q
<1>3. ASSUME NEW a \in Nat, NEW D \in Nat \ {0}, NEW b \in Nat, a * D + b = 0
      PROVE  a = 0
  <2>1. a # 0 => a * D >= D
    OBVIOUS
  <2> QED
    BY <1>3, <2>1
<1>4. d * Digits + q = 0 => d = 0
  BY <1>1, <1>3, Widths
<1>5. r * Symbols + c = 0 => r = 0
  BY <1>1, <1>3, Widths
<1> QED
  BY <1>2, <1>4, <1>5 DEF d, r

\* The text of a sequence of bytes decodes to it, and to nothing else.
THEOREM Base64Returns ==
  ASSUME NEW data \in Seq(Byte)
  PROVE  Base64Decode(Base64Encode(data)) = {data}
<1> DEFINE L == Len(data)
           text == Base64Encode(data)
           N == (4 * L + 2) \div 3
           m == (L + 2) \div 3
<1>1. L \in Nat /\ N \in Nat /\ m \in Nat /\ N <= 4 * m /\ 4 * m <= N + 2
  OBVIOUS
<1>2. text = [p \in 1 .. 4 * m |-> text[p]]
  BY DEF Base64Encode
<1> HIDE DEF text
\* Each character is a symbol of its group or a pad.
<1>3. ASSUME NEW p \in 1 .. 4 * m
      PROVE  /\ text[p] \in Base64Chars
             /\ p <= N => text[p][1] = "symbol"
             /\ p > N => text[p] = Pad
  <2> DEFINE g == (p - 1) \div 4
             k == ((p - 1) % 4) + 1
  <2>1. g \in Nat /\ k \in 1 .. 4 /\ p = 4 * g + k /\ 3 * g < L
    BY <1>1
  <2>2. k <= 1 + L - 3 * g <=> p <= N
    BY <1>1, <2>1
  <2> HIDE DEF g, k, N
  <2>3. PICK s \in [1 .. 4 -> 0 .. Symbols - 1] :
          \A i \in 1 .. 4 :
            text[4 * g + i] = IF i <= 1 + L - 3 * g THEN <<"symbol", s[i]>> ELSE Pad
    BY <2>1, EncodedGroup DEF text
  <2>4. text[p] = IF k <= 1 + L - 3 * g THEN <<"symbol", s[k]>> ELSE Pad
    BY <2>1, <2>3
  <2>5. s[k] \in 0 .. Symbols - 1
    BY <2>1
  <2>6. CASE p <= N
    <3>1. text[p] = <<"symbol", s[k]>>
      BY <2>2, <2>4, <2>6
    <3>2. text[p] \in Base64Chars /\ text[p][1] = "symbol"
      BY <2>5, <3>1 DEF Base64Chars
    <3>3. ~(p > N)
      BY <1>1, <2>6
    <3> QED
      BY <3>2, <3>3
  <2>7. CASE p > N
    <3>1. ~(p <= N)
      BY <1>1, <2>7
    <3>2. text[p] = Pad
      BY <2>2, <2>4, <3>1
    <3> QED
      BY <3>1, <3>2 DEF Base64Chars
  <2>8. p <= N \/ p > N
    BY <1>1
  <2> QED
    BY <2>6, <2>7, <2>8
<1>4. text \in Seq(Base64Chars) /\ Len(text) = 4 * m
  <2>1. 4 * m \in Nat
    BY <1>1
  <2> HIDE DEF m
  <2> QED
    BY <1>2, <1>3, <2>1
<1>5. Padding(text, N) /\ N \in 0 .. Len(text)
  <2>1. (4 * m) % 4 = 0
    BY <1>1
  <2> HIDE DEF N, m
  <2>2. \A k \in 1 .. N : k \in 1 .. 4 * m /\ k <= N
    BY <1>1
  <2>3. \A k \in N + 1 .. 4 * m : k \in 1 .. 4 * m /\ k > N
    BY <1>1
  <2>4. N \in 0 .. 4 * m
    BY <1>1
  <2> QED
    BY <1>1, <1>3, <1>4, <2>1, <2>2, <2>3, <2>4 DEF Padding
\* The values of a group's symbols.
<1>6. ASSUME NEW g \in Nat, 3 * g < L
      PROVE  \E s \in [1 .. 4 -> 0 .. Symbols - 1] :
               /\ At(data, 3 * g + 1) = Completed(s[1], s[2], 2)
               /\ At(data, 3 * g + 2) = Completed(s[2], s[3], 3)
               /\ At(data, 3 * g + 3) = Completed(s[3], s[4], 0)
               /\ \A k \in 1 .. 4 : 4 * g + k <= N => text[4 * g + k][2] = s[k]
  <2>1. PICK s \in [1 .. 4 -> 0 .. Symbols - 1] :
          /\ At(data, 3 * g + 1) = Completed(s[1], s[2], 2)
          /\ At(data, 3 * g + 2) = Completed(s[2], s[3], 3)
          /\ At(data, 3 * g + 3) = Completed(s[3], s[4], 0)
          /\ \A k \in 1 .. 4 :
               text[4 * g + k] = IF k <= 1 + L - 3 * g THEN <<"symbol", s[k]>> ELSE Pad
    BY <1>6, EncodedGroup DEF text
  <2>2. \A k \in 1 .. 4 : 4 * g + k <= N => k <= 1 + L - 3 * g
    BY <1>1
  <2>3. \A k \in 1 .. 4 : 4 * g + k <= N => text[4 * g + k][2] = s[k]
    <3> HIDE DEF N, L
    <3> QED
      BY <2>1, <2>2
  <2> HIDE DEF N
  <2> QED
    BY <2>1, <2>3
<1>7. Canonical(text, N)
  <2> SUFFICES ASSUME N > 0 PROVE text[N][2] % Scale(Left(N % 4)) = 0
    BY DEF Canonical
  <2>1. PICK g \in Nat : \/ L = 3 * g + 3 /\ N = 4 * g + 4 /\ N % 4 = 0
                         \/ L = 3 * g + 1 /\ N = 4 * g + 2 /\ N % 4 = 2
                         \/ L = 3 * g + 2 /\ N = 4 * g + 3 /\ N % 4 = 3
    <3> DEFINE h == (L - 1) \div 3
    <3>1. L > 0
      BY <1>1
    <3>2. h \in Nat /\ (L = 3 * h + 1 \/ L = 3 * h + 2 \/ L = 3 * h + 3)
      BY <1>1, <3>1
    <3> HIDE DEF h, L
    <3>3. L = 3 * h + 1 => N = 4 * h + 2 /\ N % 4 = 2
      BY <3>2
    <3>4. L = 3 * h + 2 => N = 4 * h + 3 /\ N % 4 = 3
      BY <3>2
    <3>5. L = 3 * h + 3 => N = 4 * h + 4 /\ N % 4 = 0
      BY <3>2
    <3> QED
      BY <3>2, <3>3, <3>4, <3>5
  <2>2. 3 * g < L
    BY <2>1
  <2>3. PICK s \in [1 .. 4 -> 0 .. Symbols - 1] :
          /\ At(data, 3 * g + 2) = Completed(s[2], s[3], 3)
          /\ At(data, 3 * g + 3) = Completed(s[3], s[4], 0)
          /\ \A k \in 1 .. 4 : 4 * g + k <= N => text[4 * g + k][2] = s[k]
    BY <1>6, <2>2
  <2>4. /\ s[2] \in 0 .. Symbols - 1 /\ s[3] \in 0 .. Symbols - 1 /\ s[4] \in 0 .. Symbols - 1
    OBVIOUS
  <2>5. CASE L = 3 * g + 3 /\ N = 4 * g + 4 /\ N % 4 = 0
    <3>1. text[N][2] = s[4]
      BY <2>3, <2>5
    <3>2. Scale(Left(0)) = 1
      BY DEF Scale, Left
    <3>3. s[4] \in Int
      BY <2>4
    <3>4. s[4] % 1 = 0
      BY <3>3
    <3> HIDE DEF N
    <3> QED
      BY <2>5, <3>1, <3>2, <3>4
  <2>6. CASE L = 3 * g + 1 /\ N = 4 * g + 2 /\ N % 4 = 2
    <3>1. text[N][2] = s[2]
      BY <2>3, <2>6
    <3>2. Scale(Left(2)) = Digits
      BY DEF Scale, Left
    <3>3. At(data, 3 * g + 2) = 0
      BY <2>6 DEF At
    <3>4. s[2] % Digits = 0
      BY <2>3, <2>4, <3>3, NothingCompleted
    <3> HIDE DEF N
    <3> QED
      BY <2>6, <3>1, <3>2, <3>4
  <2>7. CASE L = 3 * g + 2 /\ N = 4 * g + 3 /\ N % 4 = 3
    <3>1. text[N][2] = s[3]
      BY <2>3, <2>7
    <3>2. Scale(Left(3)) = Radix
      BY DEF Scale, Left
    <3>3. At(data, 3 * g + 3) = 0
      BY <2>7 DEF At
    <3>4. s[3] % Radix = 0
      BY <2>3, <2>4, <3>3, NothingCompleted
    <3> HIDE DEF N
    <3> QED
      BY <2>7, <3>1, <3>2, <3>4
  <2> QED
    BY <2>1, <2>5, <2>6, <2>7
<1>8. Decoded(text, N) = data
  <2>1. (3 * N) \div 4 = L
    BY <1>1
  <2>2. ASSUME NEW i \in 1 .. L
        PROVE  Decoded(text, N)[i] = data[i]
    <3> DEFINE g == (i - 1) \div 3
               j == ((i - 1) % 3) + 1
               k == (4 * i + 2) \div 3
    <3>1. /\ g \in Nat /\ 3 * g < L /\ j \in 1 .. 3 /\ i = 3 * g + j
          /\ k = 4 * g + j + 1 /\ k - 1 = 4 * g + j /\ k <= N /\ k - 1 <= N
          /\ k % 4 = (j + 1) % 4
      BY <1>1
    <3>2. Decoded(text, N)[i] = Completed(text[k - 1][2], text[k][2], k % 4)
      BY <2>1 DEF Decoded
    <3> HIDE DEF g, j, k, N
    <3>3. PICK s \in [1 .. 4 -> 0 .. Symbols - 1] :
            /\ At(data, 3 * g + 1) = Completed(s[1], s[2], 2)
            /\ At(data, 3 * g + 2) = Completed(s[2], s[3], 3)
            /\ At(data, 3 * g + 3) = Completed(s[3], s[4], 0)
            /\ \A n \in 1 .. 4 : 4 * g + n <= N => text[4 * g + n][2] = s[n]
      BY <1>6, <3>1
    <3>4. /\ j \in 1 .. 4 /\ j + 1 \in 1 .. 4 /\ 4 * g + (j + 1) = k
          /\ 4 * g + j <= N /\ 4 * g + (j + 1) <= N
      BY <3>1
    <3>5. text[k - 1][2] = s[j] /\ text[k][2] = s[j + 1]
      BY <3>1, <3>3, <3>4
    <3>6. At(data, 3 * g + j) = Completed(s[j], s[j + 1], (j + 1) % 4)
      <4>1. (1 + 1) % 4 = 2 /\ (2 + 1) % 4 = 3 /\ (3 + 1) % 4 = 0
        OBVIOUS
      <4>2. j = 1 \/ j = 2 \/ j = 3
        BY <3>1
      <4>3. 1 + 1 = 2 /\ 2 + 1 = 3 /\ 3 + 1 = 4
        OBVIOUS
      <4> QED
        BY <3>3, <4>1, <4>2, <4>3
    <3>7. At(data, i) = data[i]
      BY DEF At
    <3> QED
      BY <3>1, <3>2, <3>5, <3>6, <3>7
  <2>3. Decoded(text, N) = [i \in 1 .. L |-> Decoded(text, N)[i]]
    BY <2>1 DEF Decoded
  <2>4. data = [i \in 1 .. L |-> data[i]]
    OBVIOUS
  <2> HIDE DEF N
  <2> QED
    BY <2>2, <2>3, <2>4
<1> QED
  BY <1>4, <1>5, <1>7, <1>8, PaddingDecodes DEF text
-----------------------------------------------------------------------------
(* A node and its key.                                                     *)

\* What the loader reads as a key is what the text in the document stands for.
LEMMA KeyRead ==
  ASSUME OptionsInv, "privKey" \in KeysOf(written)
  PROVE  /\ "privKey" \in DOMAIN options
         /\ written[2].privKey[2] \in Seq(HexChars)
         /\ options.privKey \in DecodeHex(written[2].privKey[2])
<1> DEFINE v == written[2].privKey
<1>1. 5 \in DOMAIN Order /\ Order[5] = "privKey"
  BY DEF Order
<1>2. Parse("privKey", v) = PrivKey(v)
  BY DEF Parse, Durations, Counts, Bounds, Limits
<1>3. PrivKey(v) # Throw /\ PrivKey(v) # Keep
  <2>1. Parse("privKey", v) # Throw
    BY <1>1, ValidDocument DEF OptionsInv
  <2> QED
    BY <1>2, <2>1, KeptKeys
<1>4. "privKey" \in DOMAIN options /\ options.privKey = PrivKey(v)[2]
  BY <1>1, <1>2, <1>3, ValidDocument DEF OptionsInv
<1>5. v[1] = "string" /\ PrivKey(v)[2] \in DecodeHex(v[2])
  BY <1>3 DEF PrivKey, Put
<1>6. written[1] = "object"
  BY DEF KeysOf
<1>7. v[2] \in KeyText(written)
  BY <1>5, <1>6 DEF KeyText, KeysOf
<1> QED
  BY <1>4, <1>5, <1>7 DEF OptionsInv

\* What the invariant says of a node and of the keys is that identities are kept.
LEMMA IdentityFollows == OptionsInv /\ NodeInv /\ IssuedInv => IdentityKept
<1> SUFFICES ASSUME OptionsInv, NodeInv, IssuedInv, node.up, "privKey" \in KeysOf(written)
             PROVE  LET text == Lowered(written[2].privKey[2])
                    IN /\ HexEncode(node.identity) = text
                       /\ \A key \in issued : node.identity = key.bytes <=> text = key.text
  BY DEF IdentityKept
<1> DEFINE text == Lowered(written[2].privKey[2])
<1>1. node.identity \in DecodeHex(written[2].privKey[2])
  BY KeyRead DEF NodeInv
<1>2. node.identity \in Seq(Byte) /\ HexEncode(node.identity) = text
  BY <1>1, KeyRead, HexReads
<1> HIDE DEF text
<1>3. ASSUME NEW key \in issued
      PROVE  node.identity = key.bytes <=> text = key.text
  <2>1. PICK b \in Keys : key = [bytes |-> b, text |-> HexEncode(b)]
    BY DEF IssuedInv, Issuable
  <2>2. b \in Seq(Byte)
    BY BytesAssumption
  <2>3. HexEncode(b) = HexEncode(node.identity) => {b} = {node.identity}
    BY <1>2, <2>2, HexReturns
  <2> QED
    BY <1>2, <2>1, <2>3
<1> QED
  BY <1>2, <1>3 DEF text

\* The text of every document is one of hex characters, whatever the host made of a key.
LEMMA DocumentTexts ==
  ASSUME IssuedInv, NEW d \in Documents
  PROVE  KeyText(d) \subseteq Seq(HexChars)
<1>1. CASE d \in Objects
  BY <1>1, DocumentAssumption
<1>2. CASE d \in {Malformed, <<"array", <<>>>>}
  BY <1>2 DEF Malformed, KeyText
<1>3. ASSUME NEW o \in Companions, NEW t \in Texted, d = <<"object", WithKey(o[2], t)>>
      PROVE  KeyText(d) \subseteq Seq(HexChars)
  <2>1. KeyText(d) = {t}
    <3>1. /\ "privKey" \in DOMAIN WithKey(o[2], t)
          /\ WithKey(o[2], t)["privKey"] = <<"string", t>>
      BY DEF WithKey
    <3> HIDE DEF WithKey
    <3> QED
      BY <1>3, <3>1 DEF KeyText
  <2>2. PICK key \in issued : t \in Spellings(key.text)
    BY DEF Texted
  <2>3. PICK b \in Keys : key = [bytes |-> b, text |-> HexEncode(b)]
    BY DEF IssuedInv, Issuable
  <2> DEFINE text == HexEncode(b)
  <2>4. b \in Seq(Byte) /\ b # <<>> /\ text \in Seq(HexChars) /\ text # <<>>
    <3>1. b \in Seq(Byte) /\ b # <<>>
      BY BytesAssumption
    <3>2. text \in Seq(HexChars) /\ DecodeHex(text) = {b}
      BY <3>1, HexReturns
    <3>3. Len(text) = 2 * Len(b)
      BY <3>1 DEF HexEncode
    <3> QED
      BY <3>1, <3>2, <3>3
  <2> HIDE DEF text
  <2>5. \A i \in 1 .. Len(text) : text[i] \in HexChars /\ Upper(text[i]) \in HexChars
    <3>1. \A c \in HexChars : Upper(c) \in HexChars
      BY DEF HexChars, Upper, Alien
    <3> QED
      BY <2>4, <3>1
  <2>6. Alien \in HexChars
    BY DEF HexChars
  <2>7. ASSUME NEW S \in SUBSET (1 .. Len(text)),
               t = [i \in 1 .. Len(text) |-> IF i \in S THEN Upper(text[i]) ELSE text[i]]
        PROVE  t \in Seq(HexChars)
    BY <2>4, <2>5, <2>7
  <2>8. Tail(text) \in Seq(HexChars) /\ [text EXCEPT ![1] = Alien] \in Seq(HexChars)
    BY <2>4, <2>6
  <2> QED
    BY <2>1, <2>2, <2>3, <2>7, <2>8 DEF text, Spellings
<1> QED
  BY <1>1, <1>2, <1>3 DEF Documents
-----------------------------------------------------------------------------
(* The steps on the configuration and the node.                            *)

\* Without a node there is nothing that could run on other options.
LEMMA NoNodeFits == node' = NoNode => NodeInv'
  BY DEF NodeInv, NoNode

\* A node that comes up runs on the options it is created with.
LEMMA CreatedFits ==
  ASSUME loaded', NEW runs, options' = runs, Created(runs)
  PROVE  NodeInv'
<1>1. CASE node' = NoNode
  BY <1>1, NoNodeFits
<1>2. CASE node' = [up |-> TRUE, runs |-> runs,
              identity |-> IF "privKey" \in DOMAIN runs THEN runs.privKey ELSE <<>>]
  BY <1>2 DEF NodeInv
<1> QED
  BY <1>1, <1>2 DEF Created

\* The options that LIBP2P_MODULE_CONFIG leaves are those of the document they come from.
LEMMA LoadKeeps ==
  ASSUME OptionsInv, NodeInv, IssuedInv, LoadModule
  PROVE  OptionsInv' /\ NodeInv' /\ IssuedInv'
<1>1. PICK env \in {<<"unset", Empty>>, <<"missing", Empty>>}
                     \cup ({"inline", "file"} \X {d \in Documents : d[1] # "array"})
                     \cup {<<"file", <<"array", <<>>>>>>} :
        options' = Load(env) /\ written' = Origin(env[2])
  BY DEF LoadModule
<1>2. env[2] = Empty \/ env[2] \in Documents
  BY <1>1 DEF Documents
<1>3. KeyText(env[2]) \subseteq Seq(HexChars)
  BY <1>2, EmptyDocument, DocumentTexts
<1>4. env[1] \notin {"inline", "file"} => env[2] = Empty
  BY <1>1
<1>5. options' = FromJson(env[2]).options
  BY <1>1, <1>4, EmptyDocument DEF Load
<1>6. OptionsInv'
  <2>1. CASE FromJson(env[2]).ok
    <3>1. written' = env[2]
      BY <1>1, <2>1 DEF Origin
    <3> QED
      BY <1>3, <1>5, <2>1, <3>1 DEF OptionsInv
  <2>2. CASE ~FromJson(env[2]).ok
    <3>1. written' = Empty
      BY <1>1, <2>2 DEF Origin
    <3>2. options' = Defaults
      BY <1>5, <2>2 DEF FromJson
    <3> QED
      BY <3>1, <3>2, EmptyDocument DEF OptionsInv
  <2> QED
    BY <2>1, <2>2
<1>7. NodeInv'
  <2>1. node' = NoNode
    BY DEF LoadModule, NodeInv
  <2> QED
    BY <2>1, NoNodeFits
<1> QED
  BY <1>6, <1>7 DEF IssuedInv, LoadModule

\* The options createNode keeps are those of its document, on which the node runs.
LEMMA CreateKeeps ==
  ASSUME OptionsInv, NodeInv, IssuedInv, CreateNode
  PROVE  OptionsInv' /\ NodeInv' /\ IssuedInv'
<1>1. PICK document \in Documents :
        LET read == FromJson(document)
        IN /\ loaded /\ read.ok /\ ~node.up
           /\ written' = document /\ options' = read.options
           /\ Created(read.options)
           /\ UNCHANGED <<loaded, issued, request>>
  BY DEF CreateNode
<1>2. OptionsInv'
  BY <1>1, DocumentTexts DEF OptionsInv
<1>3. NodeInv'
  BY <1>1, CreatedFits
<1> QED
  BY <1>1, <1>2, <1>3 DEF IssuedInv

\* A call that creates the node it lacks gives it the options the module has.
LEMMA EnsureKeeps ==
  ASSUME OptionsInv, NodeInv, IssuedInv, EnsureContext
  PROVE  OptionsInv' /\ NodeInv' /\ IssuedInv'
<1>1. loaded' /\ options' = options /\ Created(options)
  BY DEF EnsureContext
<1>2. NodeInv'
  BY <1>1, CreatedFits
<1> QED
  BY <1>2 DEF EnsureContext, OptionsInv, IssuedInv

\* The host is issued a key with its text.
LEMMA IssueKeeps ==
  ASSUME OptionsInv, NodeInv, IssuedInv, NewPrivateKey
  PROVE  OptionsInv' /\ NodeInv' /\ IssuedInv'
<1>1. IssuedInv'
  BY DEF NewPrivateKey, IssuedInv, Issuable
<1> QED
  BY <1>1 DEF NewPrivateKey, OptionsInv, NodeInv

\* An unload leaves no node, and the next module starts from no options.
LEMMA UnloadKeeps ==
  ASSUME OptionsInv, NodeInv, IssuedInv, Unload
  PROVE  OptionsInv' /\ NodeInv' /\ IssuedInv'
<1>1. OptionsInv'
  BY EmptyDocument DEF Unload, OptionsInv
<1>2. NodeInv'
  BY NoNodeFits DEF Unload
<1> QED
  BY <1>1, <1>2 DEF Unload, IssuedInv

-----------------------------------------------------------------------------
(* The steps on values.                                                    *)

\* An await outlasts its operation, unless an int ends before, and is the default for one
\* that was given no timeout.
LEMMA AwaitWhole ==
  ASSUME NEW ms \in Int, NEW await \in AwaitTimeoutFor(ms)
  PROVE  /\ ms + Slack <= Int64Max => Outlasts(await, ms)
         /\ ms <= 0 => await = DefaultAwait
<1>1. DefaultAwait > 0 /\ IntMax > 0 /\ Slack >= 0 /\ Slack \in Int /\ DefaultAwait \in Int
  BY SizeAssumption, RangeAssumption DEF IntMax
<1>2. CASE ms <= 0
  BY <1>1, <1>2 DEF AwaitTimeoutFor, Outlasts
<1>3. CASE ~(ms <= 0)
  <2> SUFFICES ASSUME ms + Slack <= Int64Max PROVE Outlasts(await, ms)
    BY <1>3
  <2>1. ~(ms + Slack > Int64Max)
    BY <1>1, RangeAssumption DEF Int64Max
  <2>2. await = IF ms + Slack > IntMax THEN IntMax ELSE ms + Slack
    BY <1>3, <2>1 DEF AwaitTimeoutFor
  <2> QED
    BY <1>1, <1>3, <2>2 DEF Outlasts
<1> QED
  BY <1>2, <1>3

\* The default the bridge fills in is awaited with its slack.
LEMMA AwaitDefault == AwaitTimeoutFor(DefaultAwait) = {DefaultAwait + Slack}
<1>1. /\ DefaultAwait > 0 /\ DefaultAwait + Slack <= IntMax /\ IntMax <= Int64Max
      /\ Slack \in Int /\ DefaultAwait \in Int /\ IntMax \in Int /\ Int64Max \in Int
  BY SizeAssumption, RangeAssumption DEF IntMax, Int64Max
<1>2. /\ ~(DefaultAwait <= 0)
      /\ ~(DefaultAwait + Slack > Int64Max) /\ ~(DefaultAwait + Slack > IntMax)
  BY <1>1
<1> QED
  BY <1>2 DEF AwaitTimeoutFor

\* What the bridge's values are.
LEMMA BridgeValues ==
  ASSUME NEW v \in BridgeNumbers
  PROVE  /\ v[1] \in {"unsigned", "negative", "string", "float", "bool", "null"} /\ v[2] \in Int
         /\ v[1] = "unsigned" => v[2] \in UInt64
         /\ v[1] = "negative" => v[2] < 0
         /\ v[1] = "float" => v[2] \in {0, 1}
<1>1. Words \in Nat /\ Words > 0 /\ Words \div 2 \in Nat /\ Words \div 2 > 0
  BY RangeAssumption
<1> QED
  BY <1>1 DEF BridgeNumbers, UInt64

\* The await of a bridge's operation outlasts the timeout its document gave, or is the
\* default, where it gave none or one over int64.
LEMMA BridgeAwaitWhole ==
  ASSUME NEW v \in BridgeNumbers, NEW ms \in AsInt64(v),
         NEW op \in {ms, IF ms > 0 THEN ms ELSE DefaultAwait}, NEW await \in AwaitTimeoutFor(op)
  PROVE  /\ v[1] \notin {"string", "bool", "null"}
         /\ v[2] + Slack <= Int64Max => Outlasts(await, v[2])
         /\ v[2] <= 0 \/ v[2] > Int64Max => await \in {DefaultAwait, DefaultAwait + Slack}
<1>1. /\ Words \in Nat /\ Int64Max \in Int /\ 1 <= Int64Max /\ Words <= 2 * (Int64Max + 1)
      /\ Slack \in Nat /\ DefaultAwait \in Nat /\ DefaultAwait > 0
  BY SizeAssumption, RangeAssumption DEF Int64Max, IntMax
<1>2. v[1] \in {"unsigned", "negative", "float"}
  BY BridgeValues DEF AsInt64
<1>3. /\ v[2] \in Int
      /\ ms = IF v[1] = "unsigned" THEN Signed(v[2]) ELSE v[2]
      /\ v[1] = "unsigned" => v[2] <= Words - 1
      /\ v[1] # "unsigned" => v[2] <= 1
  <2>1. ms = IF v[1] = "unsigned" THEN Signed(v[2]) ELSE v[2]
    BY <1>2 DEF AsInt64
  <2> QED
    BY <1>1, <1>2, <2>1, BridgeValues DEF UInt64
<1>4. ms \in Int /\ IF v[2] > Int64Max THEN ms <= 0 ELSE ms = v[2]
  BY <1>1, <1>3 DEF Signed
<1>5. CASE op = ms
  BY <1>1, <1>2, <1>3, <1>4, <1>5, AwaitWhole
<1>6. CASE op # ms
  <2>1. ms <= 0 /\ await = DefaultAwait + Slack
    BY <1>4, <1>6, AwaitDefault
  <2>2. Outlasts(await, v[2]) \/ v[2] > Int64Max
    BY <1>1, <1>4, <2>1 DEF Outlasts
  <2> QED
    BY <1>1, <1>2, <1>3, <1>4, <2>1, <2>2
<1> QED
  BY <1>5, <1>6

\* The bridge's read asks for what its document gave, as far as an int64 goes.
LEMMA BridgeReadWhole ==
  ASSUME NEW v \in BridgeNumbers
  PROVE  LET size == Signed(AsReadMax(v))
         IN IF v[1] # "unsigned" \/ v[2] = 0 THEN size = DefaultRead
            ELSE IF v[2] <= Int64Max THEN size = v[2] ELSE size < 0
<1>1. /\ Words \in Nat /\ Int64Max \in Int /\ Words <= 2 * (Int64Max + 1)
      /\ DefaultRead \in Int /\ DefaultRead <= Int64Max
  BY SizeAssumption, RangeAssumption DEF Int64Max
<1>2. v[2] \in Int /\ (v[1] = "unsigned" => v[2] <= Words - 1)
  BY <1>1, BridgeValues DEF UInt64
<1> QED
  BY <1>1, <1>2 DEF AsReadMax, Signed

\* A direct read asks for what the host gave, up to the cap.
LEMMA ReadWhole ==
  ASSUME NEW len \in UInt64
  PROVE  LET handed == IF WithinReadCap(len) THEN {Signed(len)} ELSE {}
         IN /\ handed \subseteq {len} \cap (0 .. ReadCap)
            /\ handed = {} => len > ReadCap
<1>1. len \in Nat /\ ReadCap \in Nat /\ ReadCap <= Int64Max /\ Int64Max \in Int
  BY SizeAssumption, RangeAssumption DEF UInt64, Int64Max
<1> QED
  BY <1>1 DEF WithinReadCap, Signed

\* A stream id is the one the host wrote, or zero.
LEMMA StreamIdWhole ==
  ASSUME NEW v \in BridgeNumbers
  PROVE  AsStreamId(v) \in {0, v[2]} \cap UInt64
<1>1. 0 \in UInt64
  BY RangeAssumption DEF UInt64
<1>2. v[1] = "unsigned" => v[2] \in UInt64
  BY DEF BridgeNumbers
<1> QED
  BY <1>1, <1>2 DEF AsStreamId

\* A request that is no number's leaves NumbersReachWhole nothing to say, one that is no
\* text's RecordTextFaithful.
LEMMA OtherCalls ==
  /\ request'.call \notin {"await", "bridgeAwait", "read", "bridgeRead", "streamId"} =>
         NumbersReachWhole'
  /\ request'.call \notin {"discoStartAdvertising", "streamWriteLpJson", "decodeXpr",
        "roundTrip"} => RecordTextFaithful'
  BY DEF NumbersReachWhole, RecordTextFaithful

\* The texts that are handed on are read as what they stand for.
LEMMA HandTextKeeps ==
  ASSUME NEW call \in {"discoStartAdvertising", "streamWriteLpJson", "decodeXpr"},
         HandText(call)
  PROVE  NumbersReachWhole' /\ RecordTextFaithful'
<1>1. PICK text \in Texts :
        Ask(call, text, IF call = "decodeXpr" /\ text = <<>> THEN {} ELSE Base64Decode(text), {})
  BY DEF HandText
<1>2. /\ request'.call = call /\ request'.given = text /\ request'.signed = {}
      /\ request'.handed \subseteq Base64Decode(text)
  BY <1>1 DEF Ask
<1>3. \A bytes \in Base64Decode(text) : Base64Encode(bytes) = text
  BY Base64Reads, BytesAssumption
<1> QED
  BY <1>2, <1>3, OtherCalls DEF RecordTextFaithful

\* The record that was signed is the one its text is read back to.
LEMMA RoundTripKeeps ==
  ASSUME RoundTrip
  PROVE  NumbersReachWhole' /\ RecordTextFaithful'
<1>1. PICK record \in Records :
        Ask("roundTrip", Base64Encode(record), Base64Decode(Base64Encode(record)), {record})
  BY DEF RoundTrip
<1>2. Base64Decode(Base64Encode(record)) = {record}
  BY Base64Returns, BytesAssumption
<1>3. /\ request'.call = "roundTrip" /\ request'.given = Base64Encode(record)
      /\ request'.signed = {record} /\ request'.handed = {record}
  BY <1>1, <1>2 DEF Ask
<1> QED
  BY <1>3, OtherCalls DEF RecordTextFaithful

\* The numbers of a request are handed on whole or not at all.
LEMMA NumberKeeps ==
  ASSUME AwaitFor \/ BridgeAwait \/ StreamRead \/ BridgeRead \/ BridgeStream
  PROVE  NumbersReachWhole' /\ RecordTextFaithful'
<1>1. ASSUME NEW ms \in Int64, NEW await \in AwaitTimeoutFor(ms), Ask("await", ms, {await}, {})
      PROVE  NumbersReachWhole' /\ RecordTextFaithful'
  <2>1. request'.call = "await" /\ request'.given = ms /\ request'.handed = {await}
    BY <1>1 DEF Ask
  <2>2. ms \in Int
    BY RangeAssumption DEF Int64, Int64Max
  <2> QED
    BY <2>1, <2>2, AwaitWhole, OtherCalls DEF NumbersReachWhole
<1>2. ASSUME NEW len \in UInt64,
             Ask("read", len, IF WithinReadCap(len) THEN {Signed(len)} ELSE {}, {})
      PROVE  NumbersReachWhole' /\ RecordTextFaithful'
  <2>1. /\ request'.call = "read" /\ request'.given = len
        /\ request'.handed = IF WithinReadCap(len) THEN {Signed(len)} ELSE {}
    BY <1>2 DEF Ask
  <2> QED
    BY <2>1, ReadWhole, OtherCalls DEF NumbersReachWhole
<1>3. ASSUME NEW v \in BridgeNumbers, Ask("bridgeRead", v, {Signed(AsReadMax(v))}, {})
      PROVE  NumbersReachWhole' /\ RecordTextFaithful'
  <2>1. /\ request'.call = "bridgeRead" /\ request'.given = v
        /\ request'.handed = {Signed(AsReadMax(v))}
    BY <1>3 DEF Ask
  <2> QED
    BY <2>1, BridgeReadWhole, OtherCalls DEF NumbersReachWhole
<1>4. ASSUME NEW v \in BridgeNumbers, Ask("streamId", v, {AsStreamId(v)}, {})
      PROVE  NumbersReachWhole' /\ RecordTextFaithful'
  <2>1. request'.call = "streamId" /\ request'.given = v /\ request'.handed = {AsStreamId(v)}
    BY <1>4 DEF Ask
  <2> QED
    BY <2>1, StreamIdWhole, OtherCalls DEF NumbersReachWhole
<1>5. ASSUME NEW v \in BridgeNumbers, NEW ms \in AsInt64(v),
             NEW op \in {ms, IF ms > 0 THEN ms ELSE DefaultAwait},
             NEW await \in AwaitTimeoutFor(op), Ask("bridgeAwait", v, {await}, {})
      PROVE  NumbersReachWhole' /\ RecordTextFaithful'
  <2>1. request'.call = "bridgeAwait" /\ request'.given = v /\ request'.handed = {await}
    BY <1>5 DEF Ask
  <2> QED
    BY <2>1, BridgeAwaitWhole, OtherCalls DEF NumbersReachWhole
<1>6. ASSUME NEW v \in BridgeNumbers, AsInt64(v) = {}, Ask("bridgeAwait", v, {}, {})
      PROVE  NumbersReachWhole' /\ RecordTextFaithful'
  <2>1. request'.call = "bridgeAwait" /\ request'.given = v /\ request'.handed = {}
    BY <1>6 DEF Ask
  <2>2. v[1] \in {"string", "bool", "null"}
    BY <1>6, BridgeValues DEF AsInt64
  <2> QED
    BY <2>1, <2>2, OtherCalls DEF NumbersReachWhole
<1> QED
  BY <1>1, <1>2, <1>3, <1>4, <1>5, <1>6 DEF AwaitFor, BridgeAwait, StreamRead,
    BridgeRead, BridgeStream

-----------------------------------------------------------------------------
(* The theorems.                                                           *)

\* The options are a document's, the node runs on them under their key, the keys issued
\* are texts of keys, and what was asked last was handed on as meant.
THEOREM IInvInvariant == Spec => []IInv
<1>1. Init => IInv
  <2> SUFFICES ASSUME Init PROVE IInv
    OBVIOUS
  <2>1. OptionsInv
    BY EmptyDocument DEF Init, OptionsInv
  <2>2. NodeInv /\ IssuedInv
    BY DEF Init, NodeInv, NoNode, IssuedInv
  <2>3. NumbersReachWhole /\ RecordTextFaithful
    BY DEF Init, NoRequest, NumbersReachWhole, RecordTextFaithful
  <2> QED
    BY <2>1, <2>2, <2>3 DEF IInv
<1>2. IInv /\ [Next]_vars => IInv'
  <2> SUFFICES ASSUME IInv, [Next]_vars PROVE IInv'
    OBVIOUS
  <2>1. OptionsInv /\ NodeInv /\ IssuedInv /\ NumbersReachWhole /\ RecordTextFaithful
    BY DEF IInv
  <2>2. CASE LoadModule \/ CreateNode \/ EnsureContext \/ NewPrivateKey \/ Unload
    <3>1. OptionsInv' /\ NodeInv' /\ IssuedInv'
      BY <2>1, <2>2, LoadKeeps, CreateKeeps, EnsureKeeps, IssueKeeps, UnloadKeeps
    <3>2. request' = request
      BY <2>2 DEF LoadModule, CreateNode, EnsureContext, NewPrivateKey, Unload
    <3>3. NumbersReachWhole' /\ RecordTextFaithful'
      BY <2>1, <3>2 DEF NumbersReachWhole, RecordTextFaithful
    <3> QED
      BY <3>1, <3>3 DEF IInv
  <2>3. CASE Request
    <3>1. NumbersReachWhole' /\ RecordTextFaithful'
      BY <2>3, HandTextKeeps, RoundTripKeeps, NumberKeeps DEF Request
    <3>2. UNCHANGED <<loaded, written, options, node, issued>>
      BY <2>3 DEF Request, HandText, RoundTrip, AwaitFor, BridgeAwait, StreamRead,
        BridgeRead, BridgeStream, Ask
    <3>3. OptionsInv' /\ NodeInv' /\ IssuedInv'
      BY <2>1, <3>2 DEF OptionsInv, NodeInv, IssuedInv
    <3> QED
      BY <3>1, <3>3 DEF IInv
  <2>4. CASE Return
    <3>1. NumbersReachWhole' /\ RecordTextFaithful'
      BY <2>4, OtherCalls DEF Return, NoRequest
    <3>2. OptionsInv' /\ NodeInv' /\ IssuedInv'
      BY <2>1, <2>4 DEF Return, OptionsInv, NodeInv, IssuedInv
    <3> QED
      BY <3>1, <3>2 DEF IInv
  <2>5. CASE UNCHANGED vars
    BY <2>1, <2>5 DEF vars, IInv, OptionsInv, NodeInv, IssuedInv, NumbersReachWhole,
      RecordTextFaithful
  <2> QED
    BY <2>2, <2>3, <2>4, <2>5 DEF Next
<1> QED
  BY <1>1, <1>2, PTL DEF Spec

\* The options of the module and of its node are one document's, as it wrote them.
THEOREM OptionsSafety == Spec => []OptionsAsWritten
<1>1. IInv => OptionsAsWritten
  BY OptionsFollow DEF IInv
<1> QED
  BY <1>1, IInvInvariant, PTL

\* A node has the key its configuration's text stands for, and only such a text gives it.
THEOREM IdentitySafety == Spec => []IdentityKept
<1>1. IInv => IdentityKept
  BY IdentityFollows DEF IInv
<1> QED
  BY <1>1, IInvInvariant, PTL

\* The bytes of a record or a message have one text, from which they are read back.
THEOREM RecordTextSafety == Spec => []RecordTextFaithful
  BY IInvInvariant, PTL DEF IInv

\* The numbers of a request reach libp2p as NumbersReachWhole says: whole, but for the
\* await past an int64 (plugin.h:157) and the bridge's size over it (protocol_bridge.cpp:113).
THEOREM NumbersSafety == Spec => []NumbersReachWhole
  BY IInvInvariant, PTL DEF IInv
===============================================================================
