----------------------------- MODULE UrlCoding -----------------------------
(***************************************************************************)
(* url_encode and url_decode of parse_url.h.  A character is its code.     *)
(*                                                                         *)
(* A download URL ends with the encoded name of the object, and the /dl    *)
(* handler compares the decoded name with the stored one.                  *)
(***************************************************************************)
EXTENDS Naturals, Sequences

Percent == 37
Plus    == 43
Minus   == 45
Blank   == 32

\* Variant of Reserved: a plus sign is left as it is.
ReservedLessPlus ==
  {58, 47, 63, 35, 91, 93, 64, 33, 36, 38, 39, 40, 41, 42, 44, 59, 61, 32}

\* The default of url_encode: ":/?#[]@!$&'()*+,;= ".
Reserved ==
  {58, 47, 63, 35, 91, 93, 64, 33, 36, 38, 39, 40, 41, 42, 43, 44, 59, 61, 32}

HexDigit(n) == IF n < 10 THEN 48 + n ELSE 87 + n

Encoded(c) ==
  IF c \in Reserved THEN <<Percent, HexDigit(c \div 16), HexDigit(c % 16)>> ELSE <<c>>

UrlEncode(s) ==
  LET upto[n \in 0..Len(s)] == IF n = 0 THEN <<>> ELSE upto[n - 1] \o Encoded(s[n])
  IN  upto[Len(s)]

IsHex(c)    == c \in (48..57) \union (65..70) \union (97..102)
HexValue(c) == IF c <= 57 THEN c - 48 ELSE IF c <= 70 THEN c - 55 ELSE c - 87

\* is >> std::hex >> value on two characters: <<what it reads>>, or <<>>.  It
\* skips white space, takes a sign and "0x", and stops at any other character.
ReadHex(a, b) ==
  CASE IsHex(a) /\ IsHex(b) -> <<16 * HexValue(a) + HexValue(b)>>
    [] a = 48 /\ b \in {88, 120} -> <<>>
    [] IsHex(a) /\ ~IsHex(b) /\ ~(a = 48 /\ b \in {88, 120}) -> <<HexValue(a)>>
    [] IsHex(b) /\ a \in {Plus, Blank} \union (9..13) -> <<HexValue(b)>>
    [] IsHex(b) /\ a = Minus -> <<(256 - HexValue(b)) % 256>>
    [] OTHER -> <<>>

\* A round of the loop: what begins at s[d.next] is decoded, unless that is the
\* end, or a "%" whose two characters cannot be read.
Decoded(d, s) ==
  IF ~d.ok \/ d.next > Len(s) THEN d
  ELSE IF s[d.next] # Percent
  THEN [d EXCEPT !.next = @ + 1,
                 !.out  = Append(@, IF s[d.next] = Plus THEN Blank ELSE s[d.next])]
  ELSE IF d.next + 2 <= Len(s) /\ ReadHex(s[d.next + 1], s[d.next + 2]) # <<>>
  THEN [d EXCEPT !.next = @ + 3,
                 !.out  = @ \o ReadHex(s[d.next + 1], s[d.next + 2])]
  ELSE [d EXCEPT !.ok = FALSE]

\* What is decoded, and whether that is all.  No round takes less than a character.
UrlDecode(s) ==
  LET after[n \in 0..Len(s)] ==
        IF n = 0 THEN [next |-> 1, ok |-> TRUE, out |-> <<>>]
        ELSE Decoded(after[n - 1], s)
  IN  [ok |-> after[Len(s)].ok, out |-> after[Len(s)].out]
=============================================================================
