----------------------------- MODULE IpLiterals -----------------------------
(***************************************************************************)
(* The values of a multiaddress's segments, as addr_filter.cpp reads them. *)
(*                                                                         *)
(* A segment is <<shape, body>>:                                           *)
(*   <<"word", name>>       a protocol, or a host's name                   *)
(*   <<"digits", field>>    a number                                       *)
(*   <<"prefixed", field>>  a number and the text that follows it          *)
(*   <<"dotted", fields>>   the fields of a dotted literal                 *)
(*   <<"colons", tokens>>   the tokens of a literal with colons            *)
(* A field is <<length, value>>, of length 0 when it is empty or has a     *)
(* character that is no digit of its base.  A token is Sep, Scope, or the  *)
(* text between two separators, a <<"hex", field>> or a <<"dotted", ...>>. *)
(* No segment is empty, and a number that is read as a port fits an int.   *)
(***************************************************************************)
EXTENDS Naturals, Sequences, SequencesExt

Word(name) == <<"word", name>>
Sep == <<"sep">>
Scope == <<"scope">>   \* '%' and what follows it

\* What a parser returns for a text it cannot read.
Unreadable == <<>>

ParseU8(f) == f[1] \in 1 .. 3 /\ f[2] <= 255

ParseIp4(fields) ==
    IF Len(fields) = 4 /\ \A k \in 1 .. 4 : ParseU8(fields[k])
    THEN [k \in 1 .. 4 |-> fields[k][2]]
    ELSE Unreadable

ParseHex16(f) == f[1] \in 1 .. 4

\* The groups that the text between two separators stands for.
GroupsOf(token) ==
    IF token[1] = "hex"
    THEN IF ParseHex16(token[2]) THEN <<token[2][2]>> ELSE Unreadable
    ELSE LET v4 == ParseIp4(token[2])
         IN IF v4 = Unreadable THEN Unreadable
            ELSE <<256 * v4[1] + v4[2], 256 * v4[3] + v4[4]>>

\* Groups go before the gap or after it, eight at most.
Place(walk, groups) ==
    LET side == IF walk.gap THEN walk.tail \o groups ELSE walk.head \o groups
    IN IF groups = Unreadable \/ Len(side) > 8 THEN [walk EXCEPT !.ok = FALSE]
       ELSE IF walk.gap THEN [walk EXCEPT !.tail = side]
       ELSE [walk EXCEPT !.head = side]

\* One round of parseIp6's loop.
Round(s, walk, i) ==
    CASE ~walk.ok -> walk
      [] walk.ok /\ walk.paired -> [walk EXCEPT !.paired = FALSE]
      [] walk.ok /\ ~walk.paired /\ s[i] = Sep ->
           IF i < Len(s) /\ s[i + 1] = Sep
           THEN [walk EXCEPT !.ok = ~walk.gap, !.gap = TRUE, !.paired = TRUE]
           ELSE [walk EXCEPT !.ok = i # 1]
      [] OTHER -> Place(walk, GroupsOf(s[i]))

\* Mutant: the groups after the gap follow those before it.
ExpandLeft(walk) ==
    walk.head \o walk.tail \o [k \in 1 .. 8 - Len(walk.head \o walk.tail) |-> 0]

\* The gap stands for the groups that are missing.
Expand(walk) ==
    walk.head \o [k \in 1 .. 8 - Len(walk.head \o walk.tail) |-> 0] \o walk.tail

Unscoped(tokens) ==
    LET cut == SelectInSeq(tokens, LAMBDA t : t = Scope)
    IN IF cut = 0 THEN tokens ELSE SubSeq(tokens, 1, cut - 1)

ParseIp6(tokens) ==
    LET text == Unscoped(tokens)
        start == [head |-> <<>>, tail |-> <<>>, gap |-> FALSE, paired |-> FALSE,
                  ok |-> text # <<>>]
        walk[i \in 0 .. Len(text)] == IF i = 0 THEN start ELSE Round(text, walk[i - 1], i)
        end == walk[Len(text)]
        size == Len(end.head) + Len(end.tail)
    IN IF end.ok /\ (IF end.gap THEN size <= 7 ELSE size = 8)
       THEN Expand(end) ELSE Unreadable

\* A text of another shape is one that the parser cannot read: a dotted literal has
\* too few groups for an IPv6 one, and a field with a colon is no number.
Ip4(seg) == IF seg[1] = "dotted" THEN ParseIp4(seg[2]) ELSE Unreadable
Ip6(seg) == IF seg[1] = "colons" THEN ParseIp6(seg[2]) ELSE Unreadable

IsZeroPort(seg) == seg[1] = "digits" /\ seg[2][1] > 0 /\ seg[2][2] = 0
=============================================================================
