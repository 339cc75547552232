-------------------------- MODULE PathParserProofs --------------------------
(***************************************************************************)
(* The types of PathParser, the canonical form of the paths it makes, and  *)
(* what it reads, for any characters and any length of the text.           *)
(***************************************************************************)
EXTENDS PathParser, TLAPS, SequenceTheorems, FiniteSetTheorems,
        WellFoundedInduction

(***************************************************************************)
(* Induction and recursion, over sets and functions.                       *)
(***************************************************************************)
\* Every set of numbers that is not empty has a least one.
LEMMA LeastNumber ==
  ASSUME NEW T \in SUBSET Nat, T # {}
  PROVE  \E n \in T : \A m \in T : n <= m
<1> DEFINE R == {ss \in Nat \X Nat : ss[1] < ss[2]}
<1>1. IsWellFoundedOn(R, Nat)
  BY NatLessThanWellFounded DEF OpToRel
<1>2. \A m, n \in Nat : ~(<<m, n>> \in R) => n <= m
  OBVIOUS
<1> HIDE DEF R
<1>3. \E n \in T : \A m \in T : ~(<<m, n>> \in R)
  BY <1>1, WFMin, Zenon
<1> QED
  BY <1>2, <1>3

\* A set of numbers that has 0, and with a number the next one, has all.
LEMMA Induction ==
  ASSUME NEW T \in SUBSET Nat, 0 \in T, \A n \in T : n + 1 \in T
  PROVE  T = Nat
<1> SUFFICES ASSUME T # Nat
             PROVE  FALSE
  OBVIOUS
<1>1. Nat \ T \in SUBSET Nat /\ Nat \ T # {}
  OBVIOUS
<1>2. PICK n \in Nat \ T : \A m \in Nat \ T : n <= m
  BY <1>1, LeastNumber
<1>3. n # 0 /\ n - 1 \in Nat
  BY <1>2
<1>4. n - 1 \in T
  BY <1>2, <1>3
<1> QED
  BY <1>2, <1>3, <1>4

\* A function that is defined by recursion over 0..N, with its step given as a
\* function, exists.
Recurses(f, S, base, N, step) ==
  /\ f \in [0..N -> S]
  /\ f[0] = base
  /\ \A n \in 1..N : f[n] = step[<<n, f[n - 1]>>]

\* With its step given as a function on pairs, there is such an f.
LEMMA Recursion ==
  ASSUME NEW S, NEW base \in S, NEW N \in Nat, NEW step \in [(1..N) \X S -> S]
  PROVE  \E f : Recurses(f, S, base, N, step)
<1> DEFINE Is(f, m) == /\ f[0] = base
                       /\ \A n \in 1..m : f[n] = step[<<n, f[n - 1]>>]
           T == {m \in Nat : m <= N => \E f \in [0..m -> S] : Is(f, m)}
<1>1. 0 \in T
  <2>1. /\ [n \in 0..0 |-> base] \in [0..0 -> S]
        /\ Is([n \in 0..0 |-> base], 0)
    OBVIOUS
  <2> QED
    BY <2>1
<1>2. ASSUME NEW m \in T
      PROVE  m + 1 \in T
  <2> SUFFICES ASSUME m + 1 <= N
               PROVE  \E g \in [0..(m + 1) -> S] : Is(g, m + 1)
    OBVIOUS
  <2>0. m \in Nat
    OBVIOUS
  <2>1. PICK f \in [0..m -> S] : Is(f, m)
    BY <1>2
  <2> DEFINE g == [n \in 0..(m + 1) |-> IF n <= m THEN f[n] ELSE step[<<n, f[m]>>]]
  <2>2. step[<<m + 1, f[m]>>] \in S
    BY <2>0, <2>1
  <2>3. g \in [0..(m + 1) -> S]
    BY <2>0, <2>1, <2>2
  <2>4. g[0] = base
    BY <2>0, <2>1
  <2>5. ASSUME NEW n \in 1..(m + 1)
        PROVE  g[n] = step[<<n, g[n - 1]>>]
    <3>1. CASE n <= m
      <4>1. f[n] = step[<<n, f[n - 1]>>]
        BY <2>0, <2>1, <3>1
      <4>2. g[n] = f[n] /\ g[n - 1] = f[n - 1]
        BY <2>0, <3>1
      <4> QED
        BY <4>1, <4>2
    <3>2. CASE n = m + 1
      <4>1. g[n] = step[<<n, f[m]>>] /\ g[n - 1] = f[m]
        BY <2>0, <3>2
      <4> QED
        BY <4>1
    <3> QED
      BY <2>0, <3>1, <3>2
  <2> HIDE DEF g
  <2> QED
    BY <2>3, <2>4, <2>5
<1>3. T = Nat
  <2> HIDE DEF T
  <2>1. T \in SUBSET Nat
    BY DEF T
  <2> QED
    BY <1>1, <1>2, <2>1, Induction
<1>4. N \in T
  BY <1>3
<1>5. PICK f \in [0..N -> S] : Is(f, N)
  BY <1>4
<1> QED
  BY <1>5 DEF Recurses

(***************************************************************************)
(* Induction over sequences, and functions that take the same steps.       *)
(***************************************************************************)
\* A set of sequences that has the empty one, and with a sequence every
\* sequence with an element more, has all.
LEMMA SeqInduction ==
  ASSUME NEW S, NEW T \in SUBSET Seq(S), <<>> \in T,
         \A t \in T : \A e \in S : Append(t, e) \in T
  PROVE  T = Seq(S)
<1> DEFINE L == {n \in Nat : \A t \in Seq(S) : Len(t) = n => t \in T}
<1>1. 0 \in L
  <2>1. \A t \in Seq(S) : Len(t) = 0 => t = <<>>
    BY EmptySeq
  <2> QED
    BY <2>1
<1>2. ASSUME NEW n \in L
      PROVE  n + 1 \in L
  <2>1. ASSUME NEW t \in Seq(S), Len(t) = n + 1
        PROVE  t \in T
    <3>1. t # <<>>
      BY <2>1
    <3>2. PICK u \in Seq(S), e \in S : t = Append(u, e)
      BY <3>1, SequenceEmptyOrAppend
    <3>3. Len(t) = Len(u) + 1 /\ Len(u) \in Nat
      BY <3>2, AppendProperties, LenProperties
    <3>4. Len(u) = n
      BY <2>1, <3>3
    <3>5. u \in T
      BY <3>4
    <3> QED
      BY <3>2, <3>5
  <2> QED
    BY <2>1
<1>3. L = Nat
  <2> HIDE DEF L
  <2>1. L \in SUBSET Nat
    BY DEF L
  <2> QED
    BY <1>1, <1>2, <2>1, Induction
<1>4. ASSUME NEW t \in Seq(S)
      PROVE  t \in T
  <2>1. Len(t) \in L
    BY <1>3, LenProperties
  <2> QED
    BY <2>1
<1> QED
  BY <1>4

\* Two functions that begin alike and go on alike end alike.
LEMMA SameSteps ==
  ASSUME NEW f, NEW g, NEW N \in Nat, f[0] = g[0],
         \A n \in 1..N : f[n - 1] = g[n - 1] => f[n] = g[n]
  PROVE  f[N] = g[N]
<1> DEFINE T == {n \in Nat : n <= N => f[n] = g[n]}
<1>1. 0 \in T
  OBVIOUS
<1>2. ASSUME NEW n \in T
      PROVE  n + 1 \in T
  <2> SUFFICES ASSUME n + 1 <= N
               PROVE  f[n + 1] = g[n + 1]
    OBVIOUS
  <2>1. n \in Nat /\ f[n] = g[n]
    OBVIOUS
  <2>2. n + 1 \in 1..N /\ (n + 1) - 1 = n
    BY <2>1
  <2> QED
    BY <2>1, <2>2
<1>3. T = Nat
  <2> HIDE DEF T
  <2>1. T \in SUBSET Nat
    BY DEF T
  <2> QED
    BY <1>1, <1>2, <2>1, Induction
<1> QED
  BY <1>3

(***************************************************************************)
(* The parser's members.                                                   *)
(***************************************************************************)
\* A path keeps its form when the name is taken off.
LEMMA FrontIsSeq ==
  ASSUME NEW S, NEW s \in Seq(S), s # <<>>
  PROVE  Front(s) \in Seq(S)
<1>1. Len(s) \in Nat \ {0}
  BY EmptySeq
<1>2. 1 \in 1..(Len(s) + 1) /\ Len(s) - 1 \in 0..Len(s)
  BY <1>1
<1> QED
  BY <1>1, <1>2, SubSeqProperties DEF Front

\* A character that is appended to a name makes a component.
LEMMA AppendIsComponent ==
  ASSUME NEW n \in Names, NEW c \in Chars \ {Slash}
  PROVE  Append(n, c) \in Components
<1>1. Append(n, c) \in Names /\ Len(Append(n, c)) = Len(n) + 1
  BY AppendProperties DEF Names
<1>2. Len(n) \in Nat
  BY LenProperties DEF Names
<1>3. Append(n, c) # <<>>
  BY <1>1, <1>2
<1> QED
  BY <1>1, <1>3 DEF Components

\* What Pushed does to the members of the parser.
LEMMA PushedMembers ==
  ASSUME NEW p \in Parsers, p.path \in Seq(Components), p.component # <<>>
  PROVE  /\ Pushed(p) \in Parsers
         /\ Pushed(p).path \in Seq(Components) /\ Pushed(p).path # <<>>
         /\ Pushed(p).path = Append(p.path, p.component)
         /\ Pushed(p).component = <<>>
         /\ Pushed(p).state = p.state
         /\ Pushed(p).owner = p.owner /\ Pushed(p).wsname = p.wsname
<1>1. p.component \in Names /\ p.path \in Seq(Names)
  BY DEF Parsers
<1>2. p.component \in Components
  BY <1>1 DEF Components
<1>3. /\ Append(p.path, p.component) \in Seq(Components)
      /\ Append(p.path, p.component) # <<>>
  BY <1>2, AppendProperties
<1>4. Append(p.path, p.component) \in Seq(Names)
  BY <1>1, AppendProperties
<1>5. <<>> \in Names
  BY EmptySeq DEF Names
<1>6. /\ Pushed(p).path = Append(p.path, p.component)
      /\ Pushed(p).component = <<>> /\ Pushed(p).state = p.state
      /\ Pushed(p).owner = p.owner /\ Pushed(p).wsname = p.wsname
  BY DEF Pushed, Parsers
<1>7. Pushed(p) \in Parsers
  BY <1>4, <1>5 DEF Pushed, Parsers
<1> QED
  BY <1>3, <1>6, <1>7

\* The state of the machine after a slash, or after another character.
LEMMA AfterIsState ==
  ASSUME NEW s \in States, NEW c
  PROVE  AfterSlash[s] \in States /\ AfterChar(c)[s] \in States
BY DEF AfterSlash, AfterChar, States

\* What a slash does to the members of the parser.
LEMMA OnSlashMembers ==
  ASSUME NEW p \in Parsers, p.path \in Seq(Components),
         p.component # <<>> <=> p.state = "path"
  PROVE  /\ OnSlash(p) \in Parsers
         /\ OnSlash(p).path \in Seq(Components)
         /\ OnSlash(p).component = <<>>
         /\ OnSlash(p).state = AfterSlash[p.state]
         /\ OnSlash(p).owner = p.owner /\ OnSlash(p).wsname = p.wsname
         /\ p.state # "path" => OnSlash(p).path = p.path
<1>1. AfterSlash[p.state] \in States
  BY AfterIsState DEF Parsers
<1>2. CASE p.state = "path"
  <2>1. OnSlash(p) = [Pushed(p) EXCEPT !.state = AfterSlash[p.state]]
    BY <1>2 DEF OnSlash
  <2> QED
    BY <1>1, <1>2, <2>1, PushedMembers DEF Parsers
<1>3. CASE p.state # "path"
  <2>1. OnSlash(p) = [p EXCEPT !.state = AfterSlash[p.state]]
    BY <1>3 DEF OnSlash
  <2> QED
    BY <1>1, <1>3, <2>1 DEF Parsers
<1> QED
  BY <1>2, <1>3

\* What a character that is no slash does to the members of the parser.
LEMMA OnCharMembers ==
  ASSUME NEW p \in Parsers, NEW c \in Chars \ {Slash}
  PROVE  LET s == AfterChar(c)[p.state] IN
         /\ OnChar(p, c) \in Parsers
         /\ OnChar(p, c).state = s
         /\ OnChar(p, c).path = p.path
         /\ s = "owner"  => OnChar(p, c).owner # <<>> /\ OnChar(p, c).owner = Append(p.owner, c)
         /\ s # "owner"  => OnChar(p, c).owner = p.owner
         /\ s = "wsname" => OnChar(p, c).wsname # <<>> /\ OnChar(p, c).wsname = Append(p.wsname, c)
         /\ s # "wsname" => OnChar(p, c).wsname = p.wsname
         /\ s = "path"   => /\ OnChar(p, c).component # <<>>
                            /\ OnChar(p, c).component = Append(p.component, c)
         /\ s # "path"   => OnChar(p, c).component = p.component
<1> DEFINE s == AfterChar(c)[p.state]
           owner     == IF s = "owner"  THEN Append(p.owner, c)     ELSE p.owner
           wsname    == IF s = "wsname" THEN Append(p.wsname, c)    ELSE p.wsname
           component == IF s = "path"   THEN Append(p.component, c) ELSE p.component
           q         == [p EXCEPT !.state = s, !.owner = owner, !.wsname = wsname,
                                  !.component = component]
<1>1. /\ p.state \in States /\ p.owner \in Names /\ p.wsname \in Names
      /\ p.component \in Names
  BY DEF Parsers
<1>2. OnChar(p, c) = q
  BY DEF OnChar
<1>3. /\ Append(p.owner, c) \in Components /\ Append(p.wsname, c) \in Components
      /\ Append(p.component, c) \in Components
  BY <1>1, AppendIsComponent
<1>4. owner \in Names /\ wsname \in Names /\ component \in Names
  BY <1>1, <1>3 DEF Components
<1>5. /\ s = "owner"  => owner # <<>> /\ owner = Append(p.owner, c)
      /\ s = "wsname" => wsname # <<>> /\ wsname = Append(p.wsname, c)
      /\ s = "path"   => component # <<>> /\ component = Append(p.component, c)
  BY <1>3 DEF Components
<1>6. s \in States
  BY <1>1, AfterIsState
<1>7. /\ q \in Parsers
      /\ q.state = s /\ q.path = p.path
      /\ q.owner = owner /\ q.wsname = wsname /\ q.component = component
  <2> HIDE DEF s, owner, wsname, component
  <2> QED
    BY <1>4, <1>6 DEF Parsers
<1> QED
  BY <1>2, <1>5, <1>7

\* A parser that is at work: the member that is being read is not empty, those
\* before it are not, and those after it are.
Well(p) ==
  /\ p \in Parsers
  /\ p.path \in Seq(Components)
  /\ p.component # <<>> <=> p.state = "path"
  /\ p.owner # <<>> <=> p.state \notin {"start", "uuid", "owner_start"}
  /\ p.wsname # <<>> <=> p.state \in {"wsname", "path_start", "path"}
  /\ p.path # <<>> => p.state \in {"path_start", "path"}

\* The parser starts empty.
LEMMA FreshIsWell ==
  /\ Well(Fresh) /\ Fresh.state = "start"
  /\ Fresh.owner = <<>> /\ Fresh.wsname = <<>>
  /\ Fresh.path = <<>> /\ Fresh.component = <<>>
<1>1. <<>> \in Names /\ <<>> \in Seq(Names) /\ <<>> \in Seq(Components)
  BY EmptySeq DEF Names
<1> QED
  BY <1>1 DEF Fresh, Parsers, States, Well

\* A slash keeps the parser well.
LEMMA SlashKeepsWell ==
  ASSUME NEW p, Well(p)
  PROVE  Well(OnSlash(p))
<1>0. p \in Parsers /\ p.state \in States
  BY DEF Well, Parsers
<1>1. /\ OnSlash(p) \in Parsers
      /\ OnSlash(p).path \in Seq(Components)
      /\ OnSlash(p).component = <<>>
      /\ OnSlash(p).state = AfterSlash[p.state]
      /\ OnSlash(p).owner = p.owner /\ OnSlash(p).wsname = p.wsname
      /\ p.state # "path" => OnSlash(p).path = p.path
  BY <1>0, OnSlashMembers DEF Well
<1>2. AfterSlash[p.state] # "path"
  BY <1>0 DEF AfterSlash, States
<1>3. /\ p.owner # <<>> <=> AfterSlash[p.state] \notin {"start", "uuid", "owner_start"}
      /\ p.wsname # <<>> <=> AfterSlash[p.state] \in {"wsname", "path_start", "path"}
      /\ p.state \in {"path_start", "path"} => AfterSlash[p.state] = "path_start"
  BY <1>0 DEF AfterSlash, States, Well
<1> HIDE DEF OnSlash
<1> QED
  BY <1>1, <1>2, <1>3 DEF Well

\* So does any other character.
LEMMA CharKeepsWell ==
  ASSUME NEW p, Well(p), NEW c \in Chars \ {Slash}
  PROVE  Well(OnChar(p, c))
<1> DEFINE s == AfterChar(c)[p.state]
<1>0. p \in Parsers /\ p.state \in States
  BY DEF Well, Parsers
<1>1. /\ OnChar(p, c) \in Parsers
      /\ OnChar(p, c).state = s
      /\ OnChar(p, c).path = p.path
      /\ s = "owner"  => OnChar(p, c).owner # <<>>
      /\ s # "owner"  => OnChar(p, c).owner = p.owner
      /\ s = "wsname" => OnChar(p, c).wsname # <<>>
      /\ s # "wsname" => OnChar(p, c).wsname = p.wsname
      /\ s = "path"   => OnChar(p, c).component # <<>>
      /\ s # "path"   => OnChar(p, c).component = p.component
  BY <1>0, OnCharMembers
<1>2. /\ s = "owner" <=> p.state \in {"owner_start", "owner"}
      /\ s = "wsname" <=> p.state \in {"wsname_start", "wsname"}
      /\ s = "path" <=> p.state \in {"path_start", "path"}
      /\ s \in {"start", "uuid", "owner", "wsname", "path"}
      /\ s \in {"start", "uuid"} <=> p.state \in {"start", "uuid"}
  BY <1>0 DEF AfterChar, States
<1> HIDE DEF s
<1> DEFINE q == OnChar(p, c)
<1>3. q.component # <<>> <=> q.state = "path"
  BY <1>1, <1>2 DEF Well
<1>4. q.owner # <<>> <=> q.state \notin {"start", "uuid", "owner_start"}
  BY <1>0, <1>1, <1>2 DEF Well, States
<1>5. q.wsname # <<>> <=> q.state \in {"wsname", "path_start", "path"}
  BY <1>0, <1>1, <1>2 DEF Well, States
<1>6. q.path # <<>> => q.state \in {"path_start", "path"}
  BY <1>1, <1>2 DEF Well
<1> QED
  BY <1>1, <1>3, <1>4, <1>5, <1>6 DEF Well

\* So does parse_char.
LEMMA ParseKeepsWell ==
  ASSUME NEW p, Well(p), NEW c \in Chars \union {Slash}
  PROVE  Well(ParseChar(p, c))
BY SlashKeepsWell, CharKeepsWell DEF ParseChar

(***************************************************************************)
(* The names that have been read, by the state of the parser.              *)
(***************************************************************************)
\* Two sequences of one make a pair.
LEMMA PairIsConcat ==
  ASSUME NEW S, NEW a \in S, NEW b \in S
  PROVE  <<a>> \o <<b>> = <<a, b>>
<1>1. <<a>> \in Seq(S) /\ <<b>> \in Seq(S) /\ <<a, b>> \in Seq(S)
  OBVIOUS
<1>2. Len(<<a>>) = 1 /\ Len(<<b>>) = 1 /\ Len(<<a, b>>) = 2
  OBVIOUS
<1> DEFINE ab == <<a>> \o <<b>>
<1>3. /\ ab \in Seq(S) /\ Len(ab) = 2
      /\ \A i \in 1..2 : ab[i] = IF i <= 1 THEN <<a>>[i] ELSE <<b>>[i - 1]
  BY <1>1, <1>2, ConcatProperties
<1>4. ab[1] = a /\ ab[2] = b
  BY <1>3
<1> HIDE DEF ab
<1>5. \A i \in 1..2 : ab[i] = <<a, b>>[i]
  BY <1>4
<1>6. ab = <<a, b>>
  BY <1>1, <1>2, <1>3, <1>5, SeqEqual
<1> QED
  BY <1>6 DEF ab

\* An element is appended before or after a sequence is put in front.
LEMMA ConcatAppend ==
  ASSUME NEW S, NEW s \in Seq(S), NEW t \in Seq(S), NEW e \in S
  PROVE  s \o Append(t, e) = Append(s \o t, e)
<1> DEFINE u == Append(t, e)
           v == s \o t
           x == s \o u
           y == Append(v, e)
<1>1. /\ u \in Seq(S) /\ Len(u) = Len(t) + 1
      /\ \A i \in 1..Len(t) : u[i] = t[i]
      /\ u[Len(t) + 1] = e
  BY AppendProperties
<1>2. /\ v \in Seq(S) /\ Len(v) = Len(s) + Len(t)
      /\ \A i \in 1..(Len(s) + Len(t)) : v[i] = IF i <= Len(s) THEN s[i] ELSE t[i - Len(s)]
  BY ConcatProperties
<1> HIDE DEF u, v
<1>3. /\ x \in Seq(S) /\ Len(x) = Len(s) + Len(u)
      /\ \A i \in 1..(Len(s) + Len(u)) : x[i] = IF i <= Len(s) THEN s[i] ELSE u[i - Len(s)]
  BY <1>1, ConcatProperties
<1> HIDE DEF x
<1>4. /\ y \in Seq(S) /\ Len(y) = Len(v) + 1
      /\ \A i \in 1..Len(v) : y[i] = v[i]
      /\ y[Len(v) + 1] = e
  <2>1. v \in Seq(S)
    BY <1>2
  <2> QED
    BY <2>1, AppendProperties
<1>5. Len(s) \in Nat /\ Len(t) \in Nat
  BY LenProperties
<1> HIDE DEF y
<1>6. ASSUME NEW i \in 1..Len(x)
      PROVE  x[i] = y[i]
  <2>1. CASE i <= Len(s)
    <3>1. x[i] = s[i] /\ y[i] = v[i] /\ v[i] = s[i]
      BY <1>1, <1>2, <1>3, <1>4, <1>5, <2>1
    <3> QED
      BY <3>1
  <2>2. CASE i > Len(s) /\ i <= Len(s) + Len(t)
    <3>1. x[i] = u[i - Len(s)] /\ y[i] = v[i] /\ v[i] = t[i - Len(s)]
      BY <1>1, <1>2, <1>3, <1>4, <1>5, <2>2
    <3>2. i - Len(s) \in 1..Len(t)
      BY <1>5, <2>2
    <3>3. u[i - Len(s)] = t[i - Len(s)]
      BY <1>1, <3>2
    <3> QED
      BY <3>1, <3>3
  <2>3. CASE i = Len(s) + Len(t) + 1
    <3>1. x[i] = u[i - Len(s)] /\ i - Len(s) = Len(t) + 1
      BY <1>1, <1>3, <1>5, <2>3
    <3>2. y[i] = e
      BY <1>2, <1>4, <2>3
    <3> QED
      BY <1>1, <3>1, <3>2
  <2> QED
    BY <1>1, <1>3, <1>5, <2>1, <2>2, <2>3
<1>7. x \in Seq(S) /\ y \in Seq(S) /\ Len(x) = Len(y)
  BY <1>1, <1>2, <1>3, <1>4, <1>5
<1>8. x = y
  BY <1>6, <1>7, SeqEqual
<1> QED
  BY <1>8 DEF x, y, u, v

\* Names that have been begun make a sequence of one.
LEMMA IfBegunIsSeq ==
  ASSUME NEW n \in Names
  PROVE  IfBegun(n) \in Seq(Names)
BY EmptySeq DEF IfBegun

\* Which members have been begun, by the state of the parser.
LEMMA NamesByState ==
  ASSUME NEW p, Well(p)
  PROVE  /\ NamesRead(p) \in Seq(Names)
         /\ p.state \in {"start", "uuid", "owner_start"} => NamesRead(p) = <<>>
         /\ p.state \in {"owner", "wsname_start"} => NamesRead(p) = <<p.owner>>
         /\ p.state = "wsname" => NamesRead(p) = <<p.owner, p.wsname>>
         /\ p.state = "path_start" => NamesRead(p) = <<p.owner, p.wsname>> \o p.path
         /\ p.state = "path" =>
              NamesRead(p) = Append(<<p.owner, p.wsname>> \o p.path, p.component)
<1> DEFINE o == IfBegun(p.owner)
           w == IfBegun(p.wsname)
           c == IfBegun(p.component)
<1>0. /\ p.state \in States /\ p.owner \in Names /\ p.wsname \in Names
      /\ p.path \in Seq(Names) /\ p.component \in Names
  BY DEF Well, Parsers
<1>1. o \in Seq(Names) /\ w \in Seq(Names) /\ c \in Seq(Names)
  BY <1>0, IfBegunIsSeq
<1>2. NamesRead(p) = ((o \o w) \o p.path) \o c
  BY DEF NamesRead
<1>3. /\ p.owner = <<>> => o = <<>>
      /\ p.owner # <<>> => o = <<p.owner>>
      /\ p.wsname = <<>> => w = <<>>
      /\ p.wsname # <<>> => w = <<p.wsname>>
      /\ p.component = <<>> => c = <<>>
      /\ p.component # <<>> => c = <<p.component>>
  BY DEF IfBegun
<1>4. <<p.owner>> \o <<p.wsname>> = <<p.owner, p.wsname>>
  BY <1>0, PairIsConcat
<1> HIDE DEF o, w, c
<1>5. o \o w \in Seq(Names) /\ (o \o w) \o p.path \in Seq(Names)
      /\ NamesRead(p) \in Seq(Names)
  BY <1>0, <1>1, <1>2, ConcatProperties
<1>6. CASE p.state \in {"start", "uuid", "owner_start"}
  <2>1. o = <<>> /\ w = <<>> /\ p.path = <<>> /\ c = <<>>
    BY <1>3, <1>6 DEF Well
  <2> QED
    BY <1>1, <1>2, <1>5, <1>6, <2>1, ConcatEmptySeq
<1>7. CASE p.state \in {"owner", "wsname_start"}
  <2>1. o = <<p.owner>> /\ w = <<>> /\ p.path = <<>> /\ c = <<>>
    BY <1>3, <1>7 DEF Well
  <2> QED
    BY <1>1, <1>2, <1>5, <1>7, <2>1, ConcatEmptySeq
<1>8. CASE p.state = "wsname"
  <2>1. o \o w = <<p.owner, p.wsname>> /\ p.path = <<>> /\ c = <<>>
    BY <1>3, <1>4, <1>8 DEF Well
  <2> QED
    BY <1>1, <1>2, <1>5, <1>8, <2>1, ConcatEmptySeq
<1>9. CASE p.state = "path_start"
  <2>1. o \o w = <<p.owner, p.wsname>> /\ c = <<>>
    BY <1>3, <1>4, <1>9 DEF Well
  <2> QED
    BY <1>1, <1>2, <1>5, <1>9, <2>1, ConcatEmptySeq
<1>10. CASE p.state = "path"
  <2>1. o \o w = <<p.owner, p.wsname>> /\ c = <<p.component>>
    BY <1>3, <1>4, <1>10 DEF Well
  <2>2. ((o \o w) \o p.path) \o <<p.component>> = Append((o \o w) \o p.path, p.component)
    BY <1>0, <1>5, AppendIsConcat
  <2> QED
    BY <1>2, <1>5, <1>10, <2>1, <2>2
<1> QED
  BY <1>0, <1>5, <1>6, <1>7, <1>8, <1>9, <1>10 DEF States

\* A slash ends a name and does not change the names.
LEMMA SlashKeepsNames ==
  ASSUME NEW p, Well(p)
  PROVE  NamesRead(OnSlash(p)) = NamesRead(p)
<1> DEFINE q == OnSlash(p)
<1>0. p \in Parsers /\ p.state \in States
  BY DEF Well, Parsers
<1>1. /\ Well(q)
      /\ q.state = AfterSlash[p.state]
      /\ q.owner = p.owner /\ q.wsname = p.wsname
      /\ p.state # "path" => q.path = p.path
      /\ p.state = "path" => q.path = Append(p.path, p.component)
  <2>1. p.state = "path" => q.path = Append(p.path, p.component)
    <3>1. p.state = "path" => q = [Pushed(p) EXCEPT !.state = AfterSlash[p.state]]
      BY DEF OnSlash
    <3>2. p.state = "path" => Pushed(p).path = Append(p.path, p.component)
                              /\ Pushed(p) \in Parsers
      BY <1>0, PushedMembers DEF Well
    <3> QED
      BY <3>1, <3>2 DEF Parsers
  <2> QED
    BY <1>0, <2>1, SlashKeepsWell, OnSlashMembers DEF Well
<1>2. p.owner \in Names /\ p.wsname \in Names /\ p.path \in Seq(Names) /\ p.component \in Names
  BY <1>0 DEF Parsers
<1>3. <<p.owner, p.wsname>> \in Seq(Names)
  BY <1>2
<1> SUFFICES NamesRead(q) = NamesRead(p)
  OBVIOUS
<1> HIDE DEF q
<1>4. CASE p.state \in {"start", "uuid", "owner_start"}
  <2>1. q.state \in {"start", "uuid", "owner_start"}
    BY <1>1, <1>4 DEF AfterSlash
  <2> QED
    BY <1>1, <1>4, <2>1, NamesByState
<1>5. CASE p.state \in {"owner", "wsname_start"}
  <2>1. q.state \in {"owner", "wsname_start"}
    BY <1>1, <1>5 DEF AfterSlash
  <2> QED
    BY <1>1, <1>5, <2>1, NamesByState
<1>6. CASE p.state = "wsname"
  <2>1. q.state = "path_start" /\ p.path = <<>>
    BY <1>1, <1>6 DEF AfterSlash, Well
  <2>2. <<p.owner, p.wsname>> \o <<>> = <<p.owner, p.wsname>>
    BY <1>3, ConcatEmptySeq
  <2> QED
    BY <1>1, <1>6, <2>1, <2>2, NamesByState
<1>7. CASE p.state = "path_start"
  <2>1. q.state = "path_start"
    BY <1>1, <1>7 DEF AfterSlash
  <2> QED
    BY <1>1, <1>7, <2>1, NamesByState
<1>8. CASE p.state = "path"
  <2> DEFINE ow == <<p.owner, p.wsname>>
  <2>1. ow \in Seq(Names)
    BY <1>3
  <2> HIDE DEF ow
  <2>2. ow \o Append(p.path, p.component) = Append(ow \o p.path, p.component)
    BY <1>2, <2>1, ConcatAppend
  <2>4. NamesRead(p) = Append(ow \o p.path, p.component)
    BY <1>8, NamesByState DEF ow
  <2>5. q.state = "path_start"
    BY <1>1, <1>8 DEF AfterSlash
  <2>6. NamesRead(q) = ow \o q.path
    BY <1>1, <2>5, NamesByState DEF ow
  <2> QED
    BY <1>1, <1>8, <2>2, <2>4, <2>6
<1> QED
  BY <1>0, <1>4, <1>5, <1>6, <1>7, <1>8 DEF States

\* Another character begins a name or adds to the last one.
LEMMA CharAddsToNames ==
  ASSUME NEW p, Well(p), NEW c \in Chars \ {Slash}
  PROVE  /\ p.state \in {"start", "uuid"} =>
              NamesRead(p) = <<>> /\ NamesRead(OnChar(p, c)) = <<>>
         /\ p.state \in {"owner_start", "wsname_start", "path_start"} =>
              NamesRead(OnChar(p, c)) = Append(NamesRead(p), <<c>>)
         /\ p.state \in {"owner", "wsname", "path"} =>
              \E R \in Seq(Names), n \in Names :
                /\ NamesRead(p) = Append(R, n)
                /\ NamesRead(OnChar(p, c)) = Append(R, Append(n, c))
<1> DEFINE s == AfterChar(c)[p.state]
           q == OnChar(p, c)
<1>0. /\ p \in Parsers /\ p.state \in States /\ p.owner \in Names /\ p.wsname \in Names
      /\ p.path \in Seq(Names) /\ p.component \in Names
  BY DEF Well, Parsers
<1>1. /\ Well(q) /\ q.state = s /\ q.path = p.path
      /\ s = "owner"  => q.owner = Append(p.owner, c)
      /\ s # "owner"  => q.owner = p.owner
      /\ s = "wsname" => q.wsname = Append(p.wsname, c)
      /\ s # "wsname" => q.wsname = p.wsname
      /\ s = "path"   => q.component = Append(p.component, c)
  BY <1>0, CharKeepsWell, OnCharMembers
<1>2. /\ p.state \in {"start", "uuid"} => s \in {"start", "uuid"}
      /\ p.state \in {"owner_start", "owner"} => s = "owner"
      /\ p.state \in {"wsname_start", "wsname"} => s = "wsname"
      /\ p.state \in {"path_start", "path"} => s = "path"
  BY DEF AfterChar
<1>3. Append(<<>>, c) = <<c>>
  OBVIOUS
<1>4. /\ Append(p.owner, c) \in Names /\ Append(p.wsname, c) \in Names
      /\ Append(p.component, c) \in Names
  BY <1>0, AppendIsComponent DEF Components
<1> HIDE DEF s, q
<1>5. CASE p.state \in {"start", "uuid"}
  BY <1>1, <1>2, <1>5, NamesByState DEF q
<1>6. CASE p.state = "owner_start"
  <2>1. NamesRead(p) = <<>> /\ NamesRead(q) = <<q.owner>> /\ q.owner = <<c>>
    BY <1>1, <1>2, <1>3, <1>6, NamesByState DEF Well
  <2>2. <<q.owner>> = Append(<<>>, q.owner)
    OBVIOUS
  <2> QED
    BY <1>6, <2>1, <2>2 DEF q
<1>7. CASE p.state = "owner"
  <2>1. NamesRead(p) = <<p.owner>> /\ NamesRead(q) = <<Append(p.owner, c)>>
    BY <1>1, <1>2, <1>7, NamesByState
  <2>2. \A n \in Names : <<n>> = Append(<<>>, n)
    OBVIOUS
  <2>3. <<>> \in Seq(Names)
    BY EmptySeq
  <2>4. NamesRead(p) = Append(<<>>, p.owner) /\ NamesRead(q) = Append(<<>>, Append(p.owner, c))
    BY <1>0, <1>4, <2>1, <2>2
  <2> QED
    BY <1>0, <1>7, <2>3, <2>4 DEF q
<1>8. CASE p.state = "wsname_start"
  <2>1. NamesRead(p) = <<p.owner>> /\ NamesRead(q) = <<p.owner, q.wsname>> /\ q.wsname = <<c>>
    BY <1>1, <1>2, <1>3, <1>8, NamesByState DEF Well
  <2>2. <<p.owner, q.wsname>> = Append(<<p.owner>>, q.wsname)
    OBVIOUS
  <2> QED
    BY <1>8, <2>1, <2>2 DEF q
<1>9. CASE p.state = "wsname"
  <2>1. /\ NamesRead(p) = <<p.owner, p.wsname>>
        /\ NamesRead(q) = <<p.owner, Append(p.wsname, c)>>
    BY <1>1, <1>2, <1>9, NamesByState
  <2>2. \A n \in Names : <<p.owner, n>> = Append(<<p.owner>>, n)
    OBVIOUS
  <2>3. <<p.owner>> \in Seq(Names)
    BY <1>0
  <2>4. /\ NamesRead(p) = Append(<<p.owner>>, p.wsname)
        /\ NamesRead(q) = Append(<<p.owner>>, Append(p.wsname, c))
    BY <1>0, <1>4, <2>1, <2>2
  <2> QED
    BY <1>0, <1>9, <2>3, <2>4 DEF q
<1>10. CASE p.state = "path_start"
  <2>1. /\ NamesRead(p) = <<p.owner, p.wsname>> \o p.path
        /\ NamesRead(q) = Append(<<q.owner, q.wsname>> \o q.path, q.component)
    BY <1>1, <1>2, <1>10, NamesByState
  <2>2. q.owner = p.owner /\ q.wsname = p.wsname /\ q.path = p.path /\ q.component = <<c>>
    BY <1>1, <1>2, <1>3, <1>10 DEF Well
  <2> QED
    BY <1>10, <2>1, <2>2 DEF q
<1>11. CASE p.state = "path"
  <2> DEFINE R == <<p.owner, p.wsname>> \o p.path
  <2>1. /\ NamesRead(p) = Append(R, p.component)
        /\ NamesRead(q) = Append(<<q.owner, q.wsname>> \o q.path, q.component)
    BY <1>1, <1>2, <1>11, NamesByState
  <2>2. /\ q.owner = p.owner /\ q.wsname = p.wsname /\ q.path = p.path
        /\ q.component = Append(p.component, c)
    BY <1>1, <1>2, <1>11
  <2>3. R \in Seq(Names)
    <3>1. <<p.owner, p.wsname>> \in Seq(Names)
      BY <1>0
    <3> QED
      BY <1>0, <3>1, ConcatProperties
  <2>4. NamesRead(q) = Append(R, Append(p.component, c))
    BY <2>1, <2>2
  <2> HIDE DEF R
  <2> QED
    BY <1>0, <1>11, <2>1, <2>3, <2>4 DEF q
<1> QED
  BY <1>0, <1>5, <1>6, <1>7, <1>8, <1>9, <1>10, <1>11 DEF States

(***************************************************************************)
(* A text and its starts, with a character more.                           *)
(***************************************************************************)
Read == Chars \union {Slash}

\* A text with a character more.
LEMMA TextAppend ==
  ASSUME NEW text \in Texts, NEW c \in Read
  PROVE  /\ Len(text) \in Nat
         /\ \A i \in 1..Len(text) : text[i] \in Read
         /\ Append(text, c) \in Texts
         /\ Len(Append(text, c)) = Len(text) + 1
         /\ \A i \in 1..Len(text) : Append(text, c)[i] = text[i]
         /\ Append(text, c)[Len(text) + 1] = c
         /\ DOMAIN text = 1..Len(text)
         /\ DOMAIN Append(text, c) = 1..(Len(text) + 1)
<1>1. text \in Seq(Read)
  BY DEF Texts, Read
<1>2. Append(text, c) \in Seq(Read)
  BY <1>1, AppendProperties
<1> QED
  BY <1>1, <1>2, LenProperties, ElementOfSeq, AppendProperties DEF Texts, Read

\* A character begins a name if it is no slash and follows one.
Begins(text, c) == c # Slash /\ Len(text) # 0 /\ text[Len(text)] = Slash

\* A character that begins a name is a start more.
LEMMA StartsAppend ==
  ASSUME NEW text \in Texts, NEW c \in Read
  PROVE  /\ Starts(text) \subseteq 2..Len(text)
         /\ Begins(text, c) =>
              Starts(Append(text, c)) = Starts(text) \union {Len(text) + 1}
         /\ ~Begins(text, c) => Starts(Append(text, c)) = Starts(text)
<1> DEFINE L == Len(text)
           t == Append(text, c)
<1>1. /\ L \in Nat /\ Len(t) = L + 1 /\ t[L + 1] = c
      /\ \A i \in 1..L : t[i] = text[i]
  BY TextAppend
<1> HIDE DEF t, L
<1>2. Starts(text) = {i \in 2..L : text[i] # Slash /\ text[i - 1] = Slash}
  BY DEF Starts, L
<1>3. Starts(t) = {i \in 2..(L + 1) : t[i] # Slash /\ t[i - 1] = Slash}
  BY <1>1 DEF Starts
<1>4. \A i \in 2..L : t[i] = text[i] /\ t[i - 1] = text[i - 1]
  BY <1>1
<1>5. \A i \in 2..L : i \in Starts(t) <=> i \in Starts(text)
  BY <1>1, <1>2, <1>3, <1>4
<1>6. L + 1 \in Starts(t) <=> L # 0 /\ c # Slash /\ text[L] = Slash
  BY <1>1, <1>3
<1>7. L + 1 \notin Starts(text) /\ Starts(text) \subseteq 2..L
  BY <1>1, <1>2
<1>8. Starts(t) \subseteq 2..(L + 1)
  BY <1>3
<1>9. \A i \in 2..(L + 1) : i \in 2..L \/ i = L + 1
  BY <1>1
<1>10. Begins(text, c) <=> L # 0 /\ c # Slash /\ text[L] = Slash
  BY DEF Begins, L
<1> HIDE DEF Begins
<1>11. Begins(text, c) => Starts(t) = Starts(text) \union {L + 1}
  BY <1>5, <1>6, <1>7, <1>8, <1>9, <1>10
<1>12. ~Begins(text, c) => Starts(t) = Starts(text)
  BY <1>5, <1>6, <1>7, <1>8, <1>9, <1>10
<1> QED
  BY <1>7, <1>11, <1>12 DEF t, L

\* The starts of a text are finitely many.
LEMMA StartsFinite ==
  ASSUME NEW text \in Texts
  PROVE  /\ IsFiniteSet(Starts(text)) /\ Cardinality(Starts(text)) \in Nat
         /\ \A i \in Int : /\ IsFiniteSet({j \in Starts(text) : j <= i})
                           /\ Rank(text, i) \in Nat
<1>1. Len(text) \in Int
  BY LenProperties DEF Texts
<1>2. IsFiniteSet(2..Len(text))
  BY <1>1, FS_Interval
<1>3. Starts(text) \in SUBSET (2..Len(text))
  BY DEF Starts
<1>4. \A T \in SUBSET (2..Len(text)) : IsFiniteSet(T) /\ Cardinality(T) \in Nat
  BY <1>2, FS_Subset, FS_CardinalityType
<1>5. \A i \in Int : {j \in Starts(text) : j <= i} \in SUBSET (2..Len(text))
  BY <1>3
<1> QED
  BY <1>3, <1>4, <1>5 DEF Rank

\* The ranks of the starts of a text grow with them, up to their number.
LEMMA RanksGrow ==
  ASSUME NEW text \in Texts, NEW i \in Starts(text)
  PROVE  /\ i \in 2..Len(text)
         /\ Rank(text, i) \in 1..Cardinality(Starts(text))
         /\ (\A j \in Starts(text) : j <= i) => Rank(text, i) = Cardinality(Starts(text))
         /\ (\E j \in Starts(text) : j > i) => Rank(text, i) < Cardinality(Starts(text))
<1> DEFINE A == Starts(text)
           B == {j \in A : j <= i}
<1>1. i \in 2..Len(text) /\ A \subseteq Int
  BY DEF Starts
<1>2. IsFiniteSet(A) /\ IsFiniteSet(B) /\ Cardinality(A) \in Nat /\ Cardinality(B) \in Nat
  BY <1>1, StartsFinite, FS_CardinalityType
<1>3. B \in SUBSET A /\ i \in B /\ B # {}
  BY <1>1
<1>4. Cardinality(B) <= Cardinality(A) /\ (Cardinality(A) = Cardinality(B) => A = B)
  BY <1>2, <1>3, FS_Subset
<1>5. Cardinality(B) # 0
  BY <1>2, <1>3, FS_EmptySet
<1>6. Rank(text, i) = Cardinality(B)
  BY DEF Rank
<1>7. (\A j \in A : j <= i) => A = B
  OBVIOUS
<1>8. (\E j \in A : j > i) => A # B
  BY <1>1
<1> HIDE DEF A, B
<1>9. Rank(text, i) \in 1..Cardinality(A)
  BY <1>2, <1>4, <1>5, <1>6
<1>10. (\A j \in A : j <= i) => Rank(text, i) = Cardinality(A)
  BY <1>6, <1>7
<1>11. (\E j \in A : j > i) => Rank(text, i) < Cardinality(A)
  BY <1>2, <1>4, <1>6, <1>8
<1> QED
  BY <1>1, <1>9, <1>10, <1>11 DEF A

\* A character more leaves the ranks of the starts before it.
LEMMA RankAppend ==
  ASSUME NEW text \in Texts, NEW c \in Read, NEW i \in Starts(text)
  PROVE  Rank(Append(text, c), i) = Rank(text, i)
<1>1. i \in 2..Len(text) /\ Len(text) \in Nat
  BY TextAppend DEF Starts
<1>2. {j \in Starts(Append(text, c)) : j <= i} = {j \in Starts(text) : j <= i}
  BY <1>1, StartsAppend
<1> QED
  BY <1>2 DEF Rank

\* A name that begins is the last one.
LEMMA RankOfNew ==
  ASSUME NEW text \in Texts, NEW c \in Read, Begins(text, c)
  PROVE  LET t == Append(text, c) IN
         /\ Cardinality(Starts(t)) = Cardinality(Starts(text)) + 1
         /\ Rank(t, Len(text) + 1) = Cardinality(Starts(text)) + 1
<1> DEFINE t == Append(text, c)
           n == Len(text) + 1
<1>1. /\ n \in Nat /\ t \in Texts /\ Starts(text) \subseteq 2..Len(text)
      /\ Starts(t) = Starts(text) \union {n}
  BY TextAppend, StartsAppend
<1>2. n \notin Starts(text)
  BY <1>1
<1>3. IsFiniteSet(Starts(text))
  BY StartsFinite
<1> HIDE DEF t, n
<1>4. Cardinality(Starts(t)) = Cardinality(Starts(text)) + 1
  BY <1>1, <1>2, <1>3, FS_AddElement
<1>5. \A j \in Starts(t) : j <= n
  BY <1>1 DEF n
<1>6. n \in Starts(t)
  BY <1>1
<1>7. Rank(t, n) = Cardinality(Starts(t))
  BY <1>1, <1>5, <1>6, RanksGrow
<1> QED
  BY <1>4, <1>7 DEF t, n

\* The start of the name that is being read, if there is one, is the last one.
LastStart(text, i) == i \in Starts(text) /\ \A k \in i..Len(text) : text[k] # Slash

\* No start is after the one of the name that is being read.
LEMMA LastStartIsLast ==
  ASSUME NEW text \in Texts, NEW i, LastStart(text, i)
  PROVE  /\ Rank(text, i) = Cardinality(Starts(text))
         /\ \A j \in Starts(text) \ {i} :
              j < i /\ Rank(text, j) \in 1..(Cardinality(Starts(text)) - 1)
<1>0. Len(text) \in Nat /\ i \in 2..Len(text) /\ Starts(text) \subseteq 2..Len(text)
  BY LenProperties DEF Texts, LastStart, Starts
<1>1. ASSUME NEW j \in Starts(text), j # i
      PROVE  j < i
  <2>1. j \in 2..Len(text) /\ text[j - 1] = Slash
    BY DEF Starts
  <2>2. ~(j - 1 \in i..Len(text))
    BY <2>1 DEF LastStart
  <2> QED
    BY <1>0, <1>1, <2>1, <2>2
<1>2. \A j \in Starts(text) : j <= i
  BY <1>0, <1>1
<1>3. i \in Starts(text)
  BY DEF LastStart
<1>4. Rank(text, i) = Cardinality(Starts(text))
  BY <1>2, <1>3, RanksGrow
<1>5. ASSUME NEW j \in Starts(text) \ {i}
      PROVE  j < i /\ Rank(text, j) \in 1..(Cardinality(Starts(text)) - 1)
  <2>1. j < i
    BY <1>1
  <2>2. Rank(text, j) \in 1..Cardinality(Starts(text))
    BY RanksGrow
  <2>3. Rank(text, j) < Cardinality(Starts(text))
    BY <1>0, <1>3, <2>1, RanksGrow
  <2>4. Cardinality(Starts(text)) \in Nat
    BY StartsFinite
  <2> QED
    BY <2>1, <2>2, <2>3, <2>4
<1> QED
  BY <1>4, <1>5

(***************************************************************************)
(* The names of a text, with a character more.                             *)
(***************************************************************************)
\* A character more leaves the parts of a text.
LEMMA SubSeqAppend ==
  ASSUME NEW text \in Texts, NEW c \in Read,
         NEW i \in 1..Len(text), NEW j \in i..Len(text)
  PROVE  /\ SubSeq(Append(text, c), i, j) = SubSeq(text, i, j)
         /\ SubSeq(text, i, j) \in Texts
<1> DEFINE t == Append(text, c)
           a == SubSeq(text, i, j)
           b == SubSeq(t, i, j)
<1>1. /\ Len(text) \in Nat /\ \A k \in 1..Len(text) : text[k] \in Read /\ t[k] = text[k]
  BY TextAppend
<1>2. i \in Int /\ j \in Int /\ \A k \in i..j : text[k] \in Read /\ t[k] = text[k]
  BY <1>1
<1> HIDE DEF t
<1>3. /\ a \in Seq(Read) /\ Len(a) = j - i + 1
      /\ \A k \in 1..(j - i + 1) : a[k] = text[i + k - 1]
  BY <1>1, <1>2, SubSeqProperties
<1>4. /\ b \in Seq(Read) /\ Len(b) = j - i + 1
      /\ \A k \in 1..(j - i + 1) : b[k] = t[i + k - 1]
  BY <1>1, <1>2, SubSeqProperties
<1>5. \A k \in 1..(j - i + 1) : t[i + k - 1] = text[i + k - 1]
  BY <1>1
<1> HIDE DEF a, b
<1>6. a = b
  BY <1>3, <1>4, <1>5, SeqEqual
<1> QED
  BY <1>3, <1>6 DEF a, b, t, Texts, Read

\* A name that has ended stays.
LEMMA NameStays ==
  ASSUME NEW text \in Texts, NEW c \in Read, NEW i \in 1..Len(text), NEW name,
         IsNameAt(name, text, i), c = Slash \/ ~ \A k \in i..Len(text) : text[k] # Slash
  PROVE  IsNameAt(name, Append(text, c), i)
<1> DEFINE t == Append(text, c)
<1>1. /\ Len(text) \in Nat /\ Len(t) = Len(text) + 1 /\ t[Len(text) + 1] = c
      /\ \A k \in 1..Len(text) : t[k] = text[k]
  BY TextAppend
<1>2. PICK j \in i..Len(text) :
        /\ name = SubSeq(text, i, j)
        /\ \A k \in i..j : text[k] # Slash
        /\ j = Len(text) \/ text[j + 1] = Slash
  BY DEF IsNameAt
<1>3. SubSeq(t, i, j) = SubSeq(text, i, j)
  BY SubSeqAppend
<1> HIDE DEF t
<1>4. j \in i..Len(t) /\ \A k \in i..j : t[k] # Slash
  <2>1. j \in i..Len(t)
    BY <1>1
  <2>2. ASSUME NEW k \in i..j
        PROVE  t[k] # Slash
    <3>1. k \in 1..Len(text)
      BY <1>1
    <3> QED
      BY <1>1, <1>2, <3>1
  <2> QED
    BY <2>1, <2>2
<1>5. t[j + 1] = Slash
  <2>1. CASE j = Len(text)
    BY <1>1, <1>2, <2>1
  <2>2. CASE j # Len(text)
    <3>1. j + 1 \in 1..Len(text) /\ text[j + 1] = Slash
      BY <1>1, <1>2, <2>2
    <3> QED
      BY <1>1, <3>1
  <2> QED
    BY <2>1, <2>2
<1> QED
  BY <1>2, <1>3, <1>4, <1>5 DEF IsNameAt, t

\* The name that is being read grows.
LEMMA NameGrows ==
  ASSUME NEW text \in Texts, NEW c \in Read, NEW i \in 1..Len(text), NEW name,
         IsNameAt(name, text, i), c # Slash, \A k \in i..Len(text) : text[k] # Slash
  PROVE  IsNameAt(Append(name, c), Append(text, c), i)
<1> DEFINE t == Append(text, c)
           L == Len(text)
<1>1. /\ L \in Nat /\ Len(t) = L + 1 /\ t[L + 1] = c /\ t \in Texts
      /\ \A k \in 1..L : t[k] = text[k]
  BY TextAppend
<1>2. PICK j \in i..L :
        /\ name = SubSeq(text, i, j)
        /\ \A k \in i..j : text[k] # Slash
        /\ j = L \/ text[j + 1] = Slash
  BY DEF IsNameAt
<1>3. j = L
  BY <1>1, <1>2
<1>4. i \in 1..Len(t) /\ L + 1 \in i..Len(t) /\ t \in Seq(Read)
  BY <1>1 DEF Texts, Read
<1>5. SubSeq(t, i, L + 1) = SubSeq(t, i, L) \o <<t[L + 1]>>
  <2> DEFINE m == L + 1
  <2> HIDE DEF t, L
  <2>1. m - 1 = L /\ m \in i..Len(t)
    BY <1>1, <1>4
  <2> HIDE DEF m
  <2>2. SubSeq(t, i, m) = SubSeq(t, i, m - 1) \o <<t[m]>>
    BY <1>4, <2>1, SubSeqRecursiveSecond
  <2> QED
    BY <2>1, <2>2 DEF m
<1>6. SubSeq(t, i, L) = name /\ name \in Seq(Read)
  BY <1>2, <1>3, SubSeqAppend DEF Texts, Read
<1>7. SubSeq(t, i, L + 1) = Append(name, c)
  BY <1>1, <1>5, <1>6, AppendIsConcat
<1>8. \A k \in i..(L + 1) : t[k] # Slash
  BY <1>1
<1> HIDE DEF t, L
<1> QED
  BY <1>1, <1>4, <1>7, <1>8 DEF IsNameAt, t

\* A character that begins a name is all of it.
LEMMA NameBegins ==
  ASSUME NEW text \in Texts, NEW c \in Read, c # Slash
  PROVE  IsNameAt(<<c>>, Append(text, c), Len(text) + 1)
<1> DEFINE t == Append(text, c)
           n == Len(text) + 1
<1>1. n \in Nat \ {0} /\ Len(t) = n /\ t[n] = c /\ t \in Seq(Read)
  BY TextAppend DEF Texts, Read
<1> HIDE DEF t, n
<1>2. n \in 1..Len(t) /\ n \in n..Len(t) /\ n - 1 < n
  BY <1>1
<1>3. SubSeq(t, n, n) = SubSeq(t, n, n - 1) \o <<t[n]>>
  BY <1>1, <1>2, SubSeqRecursiveSecond
<1>4. SubSeq(t, n, n - 1) = <<>>
  BY <1>1, <1>2, SubSeqEmpty
<1>5. SubSeq(t, n, n) = <<c>>
  <2>1. <<c>> \in Seq(Read)
    OBVIOUS
  <2> QED
    BY <1>1, <1>3, <1>4, <2>1, ConcatEmptySeq
<1>6. \A k \in n..n : t[k] # Slash
  BY <1>1
<1> QED
  BY <1>1, <1>2, <1>5, <1>6 DEF IsNameAt, t, n

\* A hexadecimal digit before the first slash makes a uuid for good.
LEMMA IsUuidAppend ==
  ASSUME NEW text \in Texts, NEW c \in Read
  PROVE  /\ IsUuid(text) => IsUuid(Append(text, c))
         /\ (\E i \in 1..Len(text) : text[i] = Slash) /\ ~IsUuid(text) =>
              ~IsUuid(Append(text, c))
         /\ c \notin Hex /\ ~IsUuid(text) => ~IsUuid(Append(text, c))
         /\ c \in Hex /\ (\A i \in 1..Len(text) : text[i] # Slash) =>
              IsUuid(Append(text, c))
<1> DEFINE t == Append(text, c)
           L == Len(text)
<1>1. /\ L \in Nat /\ t[L + 1] = c
      /\ \A i \in 1..L : t[i] = text[i]
      /\ DOMAIN text = 1..L /\ DOMAIN t = 1..(L + 1)
  BY TextAppend
<1> HIDE DEF t, L
<1>2. IsUuid(text) <=> \E i \in 1..L : text[i] \in Hex /\ \A j \in 1..i : text[j] # Slash
  BY <1>1 DEF IsUuid
<1>3. IsUuid(t) <=> \E i \in 1..(L + 1) : t[i] \in Hex /\ \A j \in 1..i : t[j] # Slash
  BY <1>1 DEF IsUuid
<1>4. \A i \in 1..L : (\A j \in 1..i : t[j] # Slash) <=> (\A j \in 1..i : text[j] # Slash)
  <2> TAKE i \in 1..L
  <2>1. \A j \in 1..i : t[j] = text[j]
    BY <1>1
  <2> QED
    BY <2>1
<1>5. (\A j \in 1..(L + 1) : t[j] # Slash) <=> c # Slash /\ \A j \in 1..L : text[j] # Slash
  <2>1. \A j \in 1..(L + 1) : j \in 1..L \/ j = L + 1
    BY <1>1
  <2> QED
    BY <1>1, <2>1
<1>6. IsUuid(t) <=> \/ IsUuid(text)
                    \/ c \in Hex /\ c # Slash /\ \A j \in 1..L : text[j] # Slash
  <2>1. \A i \in 1..(L + 1) : i \in 1..L \/ i = L + 1
    BY <1>1
  <2>2. \A i \in 1..L : i \in 1..(L + 1)
    BY <1>1
  <2>3. L + 1 \in 1..(L + 1)
    BY <1>1
  <2> QED
    BY <1>1, <1>2, <1>3, <1>4, <1>5, <2>1, <2>2, <2>3
<1>7. c \in Hex => c # Slash
  BY DEF Hex, Slash
<1> QED
  BY <1>6, <1>7 DEF t, L

\* A slash leaves the names of a text.
LEMMA SlashLeavesNames ==
  ASSUME NEW text \in Texts, NEW names, AreNamesOf(names, text)
  PROVE  AreNamesOf(names, Append(text, Slash))
<1> DEFINE t == Append(text, Slash)
<1>1. Slash \in Read /\ ~Begins(text, Slash)
  BY DEF Read, Begins
<1>2. Slash \notin Hex
  BY DEF Slash, Hex
<1>3. IsUuid(t) <=> IsUuid(text)
  BY <1>1, <1>2, IsUuidAppend
<1>4. Starts(t) = Starts(text) /\ Starts(text) \subseteq 2..Len(text)
  BY <1>1, StartsAppend
<1>5. CASE IsUuid(text)
  BY <1>3, <1>5 DEF AreNamesOf
<1>6. CASE ~IsUuid(text)
  <2>1. /\ Len(names) = Cardinality(Starts(text))
        /\ \A i \in Starts(text) : IsNameAt(names[Rank(text, i)], text, i)
    BY <1>6 DEF AreNamesOf
  <2>2. ASSUME NEW i \in Starts(text)
        PROVE  IsNameAt(names[Rank(t, i)], t, i)
    <3>1. Rank(t, i) = Rank(text, i)
      BY <1>1, RankAppend
    <3>2. i \in 1..Len(text)
      BY <1>4, LenProperties DEF Texts
    <3> QED
      BY <1>1, <2>1, <3>1, <3>2, NameStays
  <2> QED
    BY <1>3, <1>4, <1>6, <2>1, <2>2 DEF AreNamesOf
<1> QED
  BY <1>5, <1>6

\* A character after a slash is a name more.
LEMMA CharBeginsName ==
  ASSUME NEW text \in Texts, NEW c \in Read, Begins(text, c), ~IsUuid(text),
         NEW names \in Seq(Names), AreNamesOf(names, text), <<c>> \in Names
  PROVE  /\ AreNamesOf(Append(names, <<c>>), Append(text, c))
         /\ LastStart(Append(text, c), Len(text) + 1)
<1> DEFINE t == Append(text, c)
           n == Len(text) + 1
           N == Append(names, <<c>>)
<1>0. /\ Len(text) \in Nat /\ Len(t) = n /\ t[n] = c /\ c # Slash
      /\ \A i \in 1..Len(text) : t[i] = text[i]
  BY TextAppend DEF Begins
<1>1. ~IsUuid(t)
  <2>1. Len(text) \in 1..Len(text) /\ text[Len(text)] = Slash
    BY <1>0 DEF Begins
  <2> QED
    BY <2>1, IsUuidAppend
<1>2. Starts(t) = Starts(text) \union {n} /\ Starts(text) \subseteq 2..Len(text)
  BY StartsAppend
<1>3. /\ Len(names) = Cardinality(Starts(text))
      /\ \A i \in Starts(text) : IsNameAt(names[Rank(text, i)], text, i)
  BY DEF AreNamesOf
<1>4. /\ Cardinality(Starts(t)) = Cardinality(Starts(text)) + 1
      /\ Rank(t, n) = Cardinality(Starts(text)) + 1
  BY RankOfNew
<1>5. /\ Len(N) = Len(names) + 1 /\ N[Len(names) + 1] = <<c>>
      /\ \A i \in 1..Len(names) : N[i] = names[i]
  BY AppendProperties
<1>6. IsNameAt(<<c>>, t, n)
  BY <1>0, NameBegins
<1>7. LastStart(t, n)
  <2>1. \A k \in n..Len(t) : k = n
    BY <1>0
  <2> QED
    BY <1>0, <1>2, <2>1 DEF LastStart
<1> HIDE DEF t, n, N
<1>8. ASSUME NEW i \in Starts(text)
      PROVE  IsNameAt(N[Rank(t, i)], t, i)
  <2>1. Rank(t, i) = Rank(text, i)
    BY RankAppend DEF t
  <2>2. Rank(text, i) \in 1..Len(names)
    BY <1>3, RanksGrow
  <2>3. N[Rank(t, i)] = names[Rank(text, i)]
    BY <1>5, <2>1, <2>2
  <2>4. i \in 1..Len(text)
    BY <1>0, <1>2
  <2>5. Len(text) \in i..Len(text) /\ text[Len(text)] = Slash
    BY <1>0, <2>4 DEF Begins
  <2>6. IsNameAt(names[Rank(text, i)], t, i)
    BY <1>3, <2>4, <2>5, NameStays DEF t
  <2> QED
    BY <2>3, <2>6
<1>9. IsNameAt(N[Rank(t, n)], t, n)
  BY <1>3, <1>4, <1>5, <1>6
<1>10. \A i \in Starts(t) : IsNameAt(N[Rank(t, i)], t, i)
  BY <1>2, <1>8, <1>9
<1>11. AreNamesOf(N, t)
  BY <1>1, <1>3, <1>4, <1>5, <1>10 DEF AreNamesOf
<1> QED
  BY <1>7, <1>11 DEF t, n, N

\* A character that is no slash is added to the name before it.
LEMMA CharAddsToName ==
  ASSUME NEW text \in Texts, NEW c \in Read, c # Slash, ~IsUuid(text),
         NEW s, LastStart(text, s),
         NEW R \in Seq(Names), NEW n \in Names, Append(n, c) \in Names,
         AreNamesOf(Append(R, n), text)
  PROVE  /\ AreNamesOf(Append(R, Append(n, c)), Append(text, c))
         /\ LastStart(Append(text, c), s)
<1> DEFINE t == Append(text, c)
           M == Append(R, n)
           N == Append(R, Append(n, c))
           L == Len(text)
<1>0. /\ L \in Nat /\ Len(t) = L + 1 /\ t[L + 1] = c
      /\ \A i \in 1..L : t[i] = text[i]
  BY TextAppend
<1>a. /\ s \in Starts(text) /\ \A k \in s..L : text[k] # Slash
      /\ Starts(text) \subseteq 2..L
  BY DEF LastStart, Starts
<1>1. ~IsUuid(t)
  <2>1. s - 1 \in 1..L /\ text[s - 1] = Slash
    BY <1>a DEF LastStart, Starts
  <2> QED
    BY <2>1, IsUuidAppend
<1>2. Starts(t) = Starts(text)
  <2>1. L \in s..L
    BY <1>0, <1>a
  <2>2. ~Begins(text, c)
    BY <1>a, <2>1 DEF Begins
  <2> QED
    BY <2>2, StartsAppend
<1>3. /\ Len(M) = Cardinality(Starts(text))
      /\ \A i \in Starts(text) : IsNameAt(M[Rank(text, i)], text, i)
  BY DEF AreNamesOf
<1>4. /\ Rank(text, s) = Cardinality(Starts(text))
      /\ \A i \in Starts(text) \ {s} :
           i < s /\ Rank(text, i) \in 1..(Cardinality(Starts(text)) - 1)
  BY LastStartIsLast
<1>5. /\ Len(M) = Len(R) + 1 /\ M[Len(R) + 1] = n
      /\ \A i \in 1..Len(R) : M[i] = R[i]
      /\ Len(N) = Len(R) + 1 /\ N[Len(R) + 1] = Append(n, c)
      /\ \A i \in 1..Len(R) : N[i] = R[i]
  BY AppendProperties
<1>6. Len(R) \in Nat
  BY LenProperties
<1>7. \A i \in Starts(text) : Rank(t, i) = Rank(text, i)
  BY RankAppend
<1> HIDE DEF t, M, N
<1>8. ASSUME NEW i \in Starts(text) \ {s}
      PROVE  IsNameAt(N[Rank(t, i)], t, i)
  <2>1. Rank(text, i) \in 1..Len(R) /\ i < s
    BY <1>3, <1>4, <1>5, <1>6
  <2>2. N[Rank(t, i)] = M[Rank(text, i)]
    BY <1>5, <1>7, <2>1
  <2>3. i \in 1..L
    BY <1>0, <1>a
  <2>4. s - 1 \in i..L /\ text[s - 1] = Slash
    BY <1>0, <1>a, <2>1 DEF Starts
  <2>5. IsNameAt(M[Rank(text, i)], t, i)
    BY <1>3, <2>3, <2>4, NameStays DEF t
  <2> QED
    BY <2>2, <2>5
<1>9. IsNameAt(N[Rank(t, s)], t, s)
  <2>1. N[Rank(t, s)] = Append(n, c) /\ M[Rank(text, s)] = n
    BY <1>3, <1>4, <1>5, <1>7, <1>a
  <2>2. s \in 1..L
    BY <1>0, <1>a
  <2>3. IsNameAt(n, text, s)
    BY <1>3, <1>a, <2>1
  <2>4. IsNameAt(Append(n, c), t, s)
    BY <1>a, <2>2, <2>3, NameGrows DEF t
  <2> QED
    BY <2>1, <2>4
<1>10. AreNamesOf(N, t)
  BY <1>1, <1>2, <1>3, <1>5, <1>8, <1>9 DEF AreNamesOf
<1>11. LastStart(t, s)
  <2>1. ASSUME NEW k \in s..Len(t)
        PROVE  t[k] # Slash
    <3>1. k = L + 1 \/ (k \in s..L /\ k \in 1..L)
      BY <1>0, <1>a
    <3> QED
      BY <1>0, <1>a, <3>1
  <2> QED
    BY <1>2, <1>a, <2>1 DEF LastStart
<1> QED
  BY <1>10, <1>11 DEF t, N

(***************************************************************************)
(* What the state of the parser tells of what it has read.                 *)
(***************************************************************************)
Tracks(p, text) ==
  /\ text \in Texts
  /\ AreNamesOf(NamesRead(p), text)
  /\ p.state = "start" =>
       \A i \in 1..Len(text) : text[i] # Slash /\ text[i] \notin Hex
  /\ p.state = "uuid" <=> IsUuid(text)
  /\ p.state \in {"owner_start", "wsname_start", "path_start"} =>
       Len(text) # 0 /\ text[Len(text)] = Slash
  /\ p.state \in {"owner", "wsname", "path"} => \E i : LastStart(text, i)

\* A slash keeps what the state tells.
LEMMA SlashTracks ==
  ASSUME NEW p, NEW text, Well(p), Tracks(p, text)
  PROVE  Tracks(OnSlash(p), Append(text, Slash))
<1> DEFINE q == OnSlash(p)
           t == Append(text, Slash)
<1>0. text \in Texts /\ Slash \in Read /\ p.state \in States /\ p \in Parsers
  BY DEF Tracks, Read, Well, Parsers
<1>1. /\ t \in Texts /\ Len(text) \in Nat /\ Len(t) = Len(text) + 1
      /\ t[Len(text) + 1] = Slash
  BY <1>0, TextAppend
<1>2. q.state = AfterSlash[p.state]
  BY <1>0, OnSlashMembers DEF Well
<1>3. AreNamesOf(NamesRead(q), t)
  <2>1. NamesRead(q) = NamesRead(p)
    BY SlashKeepsNames
  <2> QED
    BY <1>0, <2>1, SlashLeavesNames DEF Tracks
<1>4. /\ q.state = "uuid" <=> p.state = "uuid"
      /\ q.state \in {"uuid", "owner_start", "wsname_start", "path_start"}
  BY <1>0, <1>2 DEF AfterSlash, States
<1>5. IsUuid(t) <=> IsUuid(text)
  <2>1. Slash \notin Hex
    BY DEF Slash, Hex
  <2> QED
    BY <1>0, <2>1, IsUuidAppend
<1>6. p.state = "uuid" <=> IsUuid(text)
  BY DEF Tracks
<1> HIDE DEF q, t
<1>7. Len(t) # 0 /\ t[Len(t)] = Slash
  BY <1>1
<1> QED
  BY <1>1, <1>3, <1>4, <1>5, <1>6, <1>7 DEF Tracks, q, t

\* So does any other character.
LEMMA CharTracks ==
  ASSUME NEW p, NEW text, NEW c \in Chars \ {Slash}, Well(p), Tracks(p, text)
  PROVE  Tracks(OnChar(p, c), Append(text, c))
<1> DEFINE q == OnChar(p, c)
           t == Append(text, c)
<1>0. text \in Texts /\ c \in Read /\ c # Slash /\ p.state \in States /\ p \in Parsers
  BY DEF Tracks, Read, Well, Parsers
<1>1. /\ t \in Texts /\ Len(text) \in Nat /\ Len(t) = Len(text) + 1
      /\ t[Len(text) + 1] = c /\ \A i \in 1..Len(text) : t[i] = text[i]
  BY <1>0, TextAppend
<1>2. q.state = AfterChar(c)[p.state]
  BY <1>0, OnCharMembers
<1>3. p.state = "uuid" <=> IsUuid(text)
  BY DEF Tracks
<1>4. <<c>> \in Names /\ <<>> \in Names /\ \A n \in Names : Append(n, c) \in Names
  <2>1. <<>> \in Names
    BY EmptySeq DEF Names
  <2>2. \A n \in Names : Append(n, c) \in Names
    BY AppendIsComponent DEF Components
  <2>3. Append(<<>>, c) = <<c>>
    OBVIOUS
  <2> QED
    BY <2>1, <2>2, <2>3
<1>5. CASE p.state = "start"
  <2>1. NamesRead(q) = <<>>
    BY <1>5, CharAddsToNames
  <2>2. \A i \in 1..Len(text) : text[i] # Slash /\ text[i] \notin Hex
    BY <1>5 DEF Tracks
  <2>3. q.state = IF c \in Hex THEN "uuid" ELSE "start"
    BY <1>2, <1>5 DEF AfterChar
  <2>4. IsUuid(t) <=> c \in Hex
    BY <1>0, <1>3, <1>5, <2>2, IsUuidAppend
  <2> HIDE DEF q, t
  <2>5. \A i \in 1..Len(t) : t[i] # Slash /\ (c \notin Hex => t[i] \notin Hex)
    <3> TAKE i \in 1..Len(t)
    <3>1. i \in 1..Len(text) \/ i = Len(text) + 1
      BY <1>1
    <3> QED
      BY <1>0, <1>1, <2>2, <3>1
  <2>6. Starts(t) = {}
    <3>1. \A i \in 2..Len(t) : i - 1 \in 1..Len(t)
      BY <1>1
    <3> QED
      BY <2>5, <3>1 DEF Starts
  <2>7. AreNamesOf(<<>>, t)
    <3>1. Len(<<>>) = Cardinality(Starts(t))
      BY <2>6, FS_EmptySet
    <3> QED
      BY <2>6, <3>1 DEF AreNamesOf
  <2> QED
    BY <1>1, <2>1, <2>3, <2>4, <2>5, <2>7 DEF Tracks, q, t
<1>6. CASE p.state = "uuid"
  <2>1. NamesRead(q) = <<>> /\ q.state = "uuid"
    BY <1>2, <1>6, CharAddsToNames DEF AfterChar
  <2>2. IsUuid(t)
    BY <1>0, <1>3, <1>6, IsUuidAppend
  <2> HIDE DEF q, t
  <2> QED
    BY <1>1, <2>1, <2>2 DEF Tracks, AreNamesOf, q, t
<1>7. CASE p.state \in {"owner_start", "wsname_start", "path_start"}
  <2>1. NamesRead(q) = Append(NamesRead(p), <<c>>)
    BY <1>7, CharAddsToNames
  <2>2. q.state \in {"owner", "wsname", "path"}
    BY <1>2, <1>7 DEF AfterChar
  <2>3. Begins(text, c) /\ ~IsUuid(text)
    BY <1>0, <1>3, <1>7 DEF Tracks, Begins
  <2>4. NamesRead(p) \in Seq(Names) /\ AreNamesOf(NamesRead(p), text)
    BY NamesByState DEF Tracks
  <2>5. AreNamesOf(NamesRead(q), t) /\ LastStart(t, Len(text) + 1)
    BY <1>0, <1>4, <2>1, <2>3, <2>4, CharBeginsName
  <2>6. ~IsUuid(t)
    <3>1. Len(text) \in 1..Len(text) /\ text[Len(text)] = Slash
      BY <1>1, <2>3 DEF Begins
    <3> QED
      BY <1>0, <2>3, <3>1, IsUuidAppend
  <2> HIDE DEF q, t
  <2> QED
    BY <1>1, <2>2, <2>5, <2>6 DEF Tracks, q, t
<1>8. CASE p.state \in {"owner", "wsname", "path"}
  <2>1. PICK R \in Seq(Names), n \in Names : /\ NamesRead(p) = Append(R, n)
                                             /\ NamesRead(q) = Append(R, Append(n, c))
    BY <1>8, CharAddsToNames
  <2>2. q.state \in {"owner", "wsname", "path"}
    BY <1>2, <1>8 DEF AfterChar
  <2>3. PICK s : LastStart(text, s)
    BY <1>8 DEF Tracks
  <2>4. ~IsUuid(text)
    BY <1>3, <1>8
  <2>5. AreNamesOf(NamesRead(q), t) /\ LastStart(t, s)
    <3>1. AreNamesOf(Append(R, n), text)
      BY <2>1 DEF Tracks
    <3> QED
      BY <1>0, <1>4, <2>1, <2>3, <2>4, <3>1, CharAddsToName
  <2>6. ~IsUuid(t)
    <3>1. s - 1 \in 1..Len(text) /\ text[s - 1] = Slash
      BY <1>1, <2>3 DEF LastStart, Starts
    <3> QED
      BY <1>0, <2>4, <3>1, IsUuidAppend
  <2> HIDE DEF q, t
  <2> QED
    BY <1>1, <2>2, <2>5, <2>6 DEF Tracks, q, t
<1> QED
  BY <1>0, <1>5, <1>6, <1>7, <1>8 DEF States

\* So does parse_char.
LEMMA ParseTracks ==
  ASSUME NEW p, NEW text, NEW c \in Read, Well(p), Tracks(p, text)
  PROVE  Tracks(ParseChar(p, c), Append(text, c))
BY SlashTracks, CharTracks DEF ParseChar, Read

\* Before it has read anything the parser has no names.
LEMMA FreshTracks == Tracks(Fresh, <<>>)
<1>1. <<>> \in Texts /\ Len(<<>>) = 0
  BY EmptySeq DEF Texts
<1>2. NamesRead(Fresh) = <<>>
  BY FreshIsWell, NamesByState
<1>3. ~IsUuid(<<>>) /\ Starts(<<>>) = {}
  BY DEF IsUuid, Starts
<1>4. AreNamesOf(<<>>, <<>>)
  BY <1>1, <1>3, FS_EmptySet DEF AreNamesOf
<1> QED
  BY <1>1, <1>2, <1>3, <1>4, FreshIsWell DEF Tracks

(***************************************************************************)
(* parse_complete keeps the names.                                         *)
(***************************************************************************)
Done(p) ==
  /\ p \in Parsers
  /\ p.path \in Seq(Components)
  /\ p.component = <<>>
  /\ p.path # <<>> => p.wsname # <<>>
  /\ p.wsname # <<>> => p.owner # <<>>

\* The component that had no slash after it is pushed, and the names stay.
LEMMA CompleteIsDone ==
  ASSUME NEW p, Well(p)
  PROVE  Done(Complete(p)) /\ NamesRead(Complete(p)) = NamesRead(p)
<1>0. p \in Parsers /\ p.state \in States
  BY DEF Well, Parsers
<1>1. CASE p.state # "path"
  <2>1. Complete(p) = p
    BY <1>1 DEF Complete
  <2> QED
    BY <1>0, <1>1, <2>1 DEF Well, Done, States
<1>2. CASE p.state = "path"
  <2> DEFINE q == Pushed(p)
             r == OnSlash(p)
  <2>1. /\ q \in Parsers /\ q.path \in Seq(Components)
        /\ q.path = Append(p.path, p.component) /\ q.component = <<>>
        /\ q.owner = p.owner /\ q.wsname = p.wsname
    BY <1>0, <1>2, PushedMembers DEF Well
  <2>2. /\ r = [q EXCEPT !.state = "path_start"]
    BY <1>2 DEF OnSlash, AfterSlash
  <2>3. /\ r.path = q.path /\ r.component = q.component
        /\ r.owner = q.owner /\ r.wsname = q.wsname
    BY <2>1, <2>2 DEF Parsers
  <2>4. NamesRead(r) = NamesRead(p)
    BY SlashKeepsNames
  <2> HIDE DEF q, r
  <2>5. NamesRead(q) = NamesRead(p)
    BY <2>3, <2>4 DEF NamesRead
  <2>6. Done(q)
    BY <1>2, <2>1 DEF Well, Done
  <2> QED
    BY <1>2, <2>5, <2>6 DEF Complete, q
<1> QED
  BY <1>1, <1>2
(***************************************************************************)
(* The parser after a text.                                                *)
(***************************************************************************)
IsRun(f, p, text) ==
  /\ f[0] = p
  /\ \A n \in 1..Len(text) : f[n] = ParseChar(f[n - 1], text[n])

\* After is the end of a run of parse_char over the text.
LEMMA AfterIsRun ==
  ASSUME NEW p, Well(p), NEW text \in Texts
  PROVE  \E f : IsRun(f, p, text) /\ After(p, text) = f[Len(text)]
<1> DEFINE S == {q \in Parsers : Well(q)}
           N == Len(text)
           step == [x \in (1..N) \X S |-> ParseChar(x[2], text[x[1]])]
<1>1. N \in Nat /\ \A n \in 1..N : text[n] \in Chars \union {Slash}
  BY LenProperties, ElementOfSeq DEF Texts
<1>2. \A q \in S : \A n \in 1..N : ParseChar(q, text[n]) \in S
  <2> TAKE q \in S
  <2> TAKE n \in 1..N
  <2>1. Well(ParseChar(q, text[n]))
    BY <1>1, ParseKeepsWell
  <2> QED
    BY <2>1 DEF Well
<1>3. step \in [(1..N) \X S -> S]
  <2> HIDE DEF S, N
  <2>1. \A x \in (1..N) \X S : x[1] \in 1..N /\ x[2] \in S
    OBVIOUS
  <2> QED
    BY <1>2, <2>1
<1>4. p \in S
  BY DEF Well
<1>5. \A n \in 1..N : \A q \in S : step[<<n, q>>] = ParseChar(q, text[n])
  <2> HIDE DEF S, N
  <2> QED
    OBVIOUS
<1> HIDE DEF S, N, step
<1>6. N \in Nat
  BY <1>1
<1>7. PICK f : Recurses(f, S, p, N, step)
  BY <1>3, <1>4, <1>6, Recursion
<1> DEFINE G(g) == [n \in 0..N |-> IF n = 0 THEN p ELSE ParseChar(g[n - 1], text[n])]
<1>8. f = G(f)
  <2>1. ASSUME NEW n \in 0..N
        PROVE  f[n] = G(f)[n]
    <3>1. CASE n = 0
      BY <1>7, <3>1 DEF Recurses
    <3>2. CASE n # 0
      <4>1. n \in 1..N /\ n - 1 \in 0..N
        BY <1>6, <3>2
      <4>2. f[n - 1] \in S /\ f[n] = step[<<n, f[n - 1]>>]
        BY <1>7, <4>1 DEF Recurses
      <4> QED
        BY <1>5, <3>2, <4>1, <4>2
    <3> QED
      BY <3>1, <3>2
  <2>2. f \in [0..N -> S]
    BY <1>7 DEF Recurses
  <2> QED
    BY <2>1, <2>2
<1> DEFINE h == CHOOSE g : g = G(g)
<1>9. h = G(h)
  <2> HIDE DEF G
  <2> QED
    BY <1>8
<1>10. After(p, text) = h[N]
  BY DEF After, N
<1>11. IsRun(h, p, text)
  <2> HIDE DEF h
  <2>1. h[0] = p
    BY <1>6, <1>9
  <2>2. \A n \in 1..N : h[n] = ParseChar(h[n - 1], text[n])
    BY <1>6, <1>9
  <2> QED
    BY <2>1, <2>2 DEF IsRun, N
<1> QED
  BY <1>10, <1>11 DEF N

\* One character more is one parse_char more.
LEMMA AfterAppend ==
  ASSUME NEW p, Well(p)
  PROVE  /\ After(p, <<>>) = p
         /\ \A text \in Texts, c \in Read :
              After(p, Append(text, c)) = ParseChar(After(p, text), c)
<1>1. After(p, <<>>) = p
  <2>1. <<>> \in Texts /\ Len(<<>>) = 0
    BY EmptySeq DEF Texts
  <2> QED
    BY <2>1, AfterIsRun DEF IsRun
<1>2. ASSUME NEW text \in Texts, NEW c \in Read
      PROVE  After(p, Append(text, c)) = ParseChar(After(p, text), c)
  <2> DEFINE t == Append(text, c)
             N == Len(text)
  <2>1. /\ N \in Nat /\ t \in Texts /\ Len(t) = N + 1 /\ t[N + 1] = c
        /\ \A n \in 1..N : t[n] = text[n]
    BY TextAppend
  <2>2. PICK f : IsRun(f, p, text) /\ After(p, text) = f[N]
    BY AfterIsRun
  <2>3. PICK g : IsRun(g, p, t) /\ After(p, t) = g[Len(t)]
    BY <2>1, AfterIsRun
  <2> HIDE DEF t, N
  <2>4. f[0] = g[0]
    BY <2>2, <2>3 DEF IsRun
  <2>5. ASSUME NEW n \in 1..N, f[n - 1] = g[n - 1]
        PROVE  f[n] = g[n]
    <3>1. n \in 1..Len(t)
      BY <2>1
    <3>2. f[n] = ParseChar(f[n - 1], text[n])
      BY <2>2 DEF IsRun, N
    <3>3. g[n] = ParseChar(g[n - 1], t[n])
      BY <2>3, <3>1 DEF IsRun
    <3> QED
      BY <2>1, <2>5, <3>2, <3>3
  <2>6. f[N] = g[N]
    BY <2>1, <2>4, <2>5, SameSteps
  <2>7. g[N + 1] = ParseChar(g[N], c)
    <3>1. N + 1 \in 1..Len(t) /\ (N + 1) - 1 = N
      BY <2>1
    <3> QED
      BY <2>1, <2>3, <3>1 DEF IsRun
  <2> QED
    BY <2>1, <2>2, <2>3, <2>6, <2>7 DEF t
<1> QED
  BY <1>1, <1>2

\* After any text the parser is well.
LEMMA AfterIsWell ==
  ASSUME NEW p, Well(p), NEW text \in Texts
  PROVE  Well(After(p, text))
<1> DEFINE T == {t \in Texts : Well(After(p, t))}
<1>1. <<>> \in T
  <2>1. <<>> \in Texts
    BY EmptySeq DEF Texts
  <2> QED
    BY <2>1, AfterAppend
<1>2. \A t \in T : \A c \in Read : Append(t, c) \in T
  <2> TAKE t \in T
  <2> TAKE c \in Read
  <2>1. After(p, Append(t, c)) = ParseChar(After(p, t), c) /\ Append(t, c) \in Texts
    BY AfterAppend, TextAppend
  <2>2. Well(ParseChar(After(p, t), c))
    BY ParseKeepsWell DEF Read
  <2> QED
    BY <2>1, <2>2
<1>3. T \in SUBSET Seq(Read)
  BY DEF Texts, Read
<1> HIDE DEF T
<1>4. T = Seq(Read)
  BY <1>1, <1>2, <1>3, SeqInduction
<1> QED
  BY <1>4 DEF T, Texts, Read

\* A text is read in two parts.
LEMMA AfterConcat ==
  ASSUME NEW p, Well(p), NEW s \in Texts, NEW text \in Texts
  PROVE  After(p, s \o text) = After(After(p, s), text)
<1> DEFINE q == After(p, s)
           T == {t \in Texts : After(p, s \o t) = After(q, t)}
<1>0. Well(q) /\ s \in Seq(Read)
  BY AfterIsWell DEF Texts, Read
<1> HIDE DEF q
<1>1. <<>> \in T
  <2>1. <<>> \in Texts
    BY EmptySeq DEF Texts
  <2>2. s \o <<>> = s
    BY <1>0, ConcatEmptySeq
  <2>3. After(q, <<>>) = q
    BY <1>0, AfterAppend
  <2> QED
    BY <2>1, <2>2, <2>3 DEF q
<1>2. ASSUME NEW t \in T, NEW c \in Read
      PROVE  Append(t, c) \in T
  <2>0. t \in Texts /\ t \in Seq(Read) /\ Append(t, c) \in Texts
    BY TextAppend DEF Texts, Read
  <2>1. s \o Append(t, c) = Append(s \o t, c) /\ s \o t \in Texts
    BY <1>0, <2>0, ConcatAppend, ConcatProperties DEF Texts, Read
  <2>2. After(p, Append(s \o t, c)) = ParseChar(After(p, s \o t), c)
    BY <2>1, AfterAppend
  <2>3. After(q, Append(t, c)) = ParseChar(After(q, t), c)
    BY <1>0, <2>0, AfterAppend
  <2>4. After(p, s \o t) = After(q, t)
    OBVIOUS
  <2> QED
    BY <2>0, <2>1, <2>2, <2>3, <2>4
<1>3. T \in SUBSET Seq(Read)
  BY DEF Texts, Read
<1> HIDE DEF T
<1>4. T = Seq(Read)
  BY <1>1, <1>2, <1>3, SeqInduction
<1> QED
  BY <1>4 DEF T, q, Texts, Read

(***************************************************************************)
(* The names of a path, joined.                                            *)
(***************************************************************************)
IsJoin(f, names) ==
  /\ f[0] = names[1]
  /\ \A n \in 1..(Len(names) - 1) : f[n] = f[n - 1] \o <<Slash>> \o names[n + 1]

\* A name is a text without a slash.
LEMMA NamesAreTexts == Components \subseteq Texts /\ Names \subseteq Texts /\ <<Slash>> \in Texts
<1>1. Seq(Chars \ {Slash}) \subseteq Seq(Chars \union {Slash})
  OBVIOUS
<1>2. <<Slash>> \in Seq(Chars \union {Slash})
  OBVIOUS
<1> QED
  BY <1>1, <1>2 DEF Components, Names, Texts

\* Texts are closed under concatenation.
LEMMA TextsConcat ==
  ASSUME NEW s \in Texts, NEW t \in Texts
  PROVE  s \o t \in Texts
BY ConcatProperties DEF Texts

\* Joined is the end of a run over the names, and a text.
LEMMA JoinedIsJoin ==
  ASSUME NEW names \in Seq(Components), names # <<>>
  PROVE  /\ \E f : IsJoin(f, names) /\ Joined(names) = f[Len(names) - 1]
         /\ Joined(names) \in Texts
<1> DEFINE N == Len(names) - 1
           step == [x \in (1..N) \X Texts |-> x[2] \o <<Slash>> \o names[x[1] + 1]]
<1>1. N \in Nat /\ names[1] \in Texts /\ \A n \in 1..N : names[n + 1] \in Texts
  <2>1. Len(names) \in Nat \ {0}
    BY EmptySeq
  <2>2. \A n \in 1..Len(names) : names[n] \in Texts
    BY ElementOfSeq, NamesAreTexts
  <2> QED
    BY <2>1, <2>2
<1>6. N \in Nat /\ names[1] \in Texts
  BY <1>1
<1> HIDE DEF N
<1>2. ASSUME NEW t \in Texts, NEW n \in 1..N
      PROVE  t \o <<Slash>> \o names[n + 1] \in Texts
  BY <1>1, NamesAreTexts, TextsConcat
<1>3. step \in [(1..N) \X Texts -> Texts]
  <2>1. \A x \in (1..N) \X Texts : x[1] \in 1..N /\ x[2] \in Texts
    OBVIOUS
  <2>2. \A x \in (1..N) \X Texts : x[2] \o <<Slash>> \o names[x[1] + 1] \in Texts
    BY <1>2, <2>1
  <2> QED
    BY <2>2
<1>5. \A n \in 1..N : \A t \in Texts : step[<<n, t>>] = t \o <<Slash>> \o names[n + 1]
  OBVIOUS
<1> HIDE DEF step
<1>7. PICK f : Recurses(f, Texts, names[1], N, step)
  BY <1>3, <1>6, Recursion
<1> DEFINE G(g) == [n \in 0..N |->
                      IF n = 0 THEN names[1] ELSE g[n - 1] \o <<Slash>> \o names[n + 1]]
<1>8. f = G(f)
  <2>1. ASSUME NEW n \in 0..N
        PROVE  f[n] = G(f)[n]
    <3>1. CASE n = 0
      BY <1>7, <3>1 DEF Recurses
    <3>2. CASE n # 0
      <4>1. n \in 1..N /\ n - 1 \in 0..N
        BY <1>6, <3>2
      <4>2. f[n - 1] \in Texts /\ f[n] = step[<<n, f[n - 1]>>]
        BY <1>7, <4>1 DEF Recurses
      <4> QED
        BY <1>5, <3>2, <4>1, <4>2
    <3> QED
      BY <3>1, <3>2
  <2>2. f \in [0..N -> Texts]
    BY <1>7 DEF Recurses
  <2> QED
    BY <2>1, <2>2
<1> DEFINE h == CHOOSE g : g = G(g)
<1>9. h = G(h)
  <2> HIDE DEF G
  <2> QED
    BY <1>8
<1>10. Joined(names) = h[N]
  BY DEF Joined, N
<1> HIDE DEF h
<1>11. IsJoin(h, names)
  <2>1. h[0] = names[1]
    BY <1>6, <1>9
  <2>2. ASSUME NEW n \in 1..N
        PROVE  h[n] = h[n - 1] \o <<Slash>> \o names[n + 1]
    <3>1. n \in 0..N /\ n # 0
      BY <1>6
    <3>2. h[n] = G(h)[n]
      <4> HIDE DEF G
      <4> QED
        BY <1>9
    <3> QED
      BY <3>1, <3>2
  <2> QED
    BY <2>1, <2>2 DEF IsJoin, N
<1>12. h[N] \in Texts
  <2>1. h[0] = f[0]
    BY <1>7, <1>11 DEF Recurses, IsJoin
  <2>2. ASSUME NEW n \in 1..N, h[n - 1] = f[n - 1]
        PROVE  h[n] = f[n]
    <3>1. n - 1 \in 0..N
      BY <1>6
    <3>2. f[n - 1] \in Texts /\ f[n] = step[<<n, f[n - 1]>>]
      BY <1>7, <3>1 DEF Recurses
    <3>3. h[n] = h[n - 1] \o <<Slash>> \o names[n + 1]
      BY <1>11 DEF IsJoin, N
    <3> QED
      BY <1>5, <2>2, <3>2, <3>3
  <2>3. h[N] = f[N]
    BY <1>6, <2>1, <2>2, SameSteps
  <2>4. N \in 0..N
    BY <1>6
  <2> QED
    BY <1>7, <2>3, <2>4 DEF Recurses
<1> QED
  BY <1>10, <1>11, <1>12 DEF N

\* One name more is a slash and the name.
LEMMA JoinedAppend ==
  ASSUME NEW names \in Seq(Components), NEW name \in Components
  PROVE  Joined(Append(names, name)) =
           IF names = <<>> THEN name ELSE Joined(names) \o <<Slash>> \o name
<1> DEFINE M == Append(names, name)
           N == Len(names) - 1
<1>1. /\ M \in Seq(Components) /\ M # <<>> /\ Len(M) = Len(names) + 1
      /\ \A i \in 1..Len(names) : M[i] = names[i]
      /\ M[Len(names) + 1] = name /\ Len(names) \in Nat
  BY AppendProperties, LenProperties
<1> HIDE DEF M
<1>2. PICK g : IsJoin(g, M) /\ Joined(M) = g[Len(M) - 1]
  BY <1>1, JoinedIsJoin
<1>3. CASE names = <<>>
  <2>1. Len(names) = 0
    BY <1>3
  <2>2. Joined(M) = g[0] /\ M[1] = name
    BY <1>1, <1>2, <2>1
  <2> QED
    BY <1>2, <1>3, <2>2 DEF IsJoin, M
<1>4. CASE names # <<>>
  <2>1. PICK f : IsJoin(f, names) /\ Joined(names) = f[N]
    BY <1>4, JoinedIsJoin
  <2>2. Len(names) \in Nat \ {0}
    BY <1>4, EmptySeq
  <2>3. N \in Nat /\ Len(M) - 1 = N + 1 /\ Len(names) = N + 1
    BY <1>1, <2>2
  <2> HIDE DEF N
  <2>4. f[0] = g[0]
    <3>1. 1 \in 1..Len(names)
      BY <2>2
    <3> QED
      BY <1>1, <1>2, <2>1, <3>1 DEF IsJoin
  <2>5. ASSUME NEW n \in 1..N, f[n - 1] = g[n - 1]
        PROVE  f[n] = g[n]
    <3>1. n \in 1..(Len(names) - 1) /\ n \in 1..(Len(M) - 1) /\ n + 1 \in 1..Len(names)
      BY <2>3
    <3>2. /\ f[n] = f[n - 1] \o <<Slash>> \o names[n + 1]
          /\ g[n] = g[n - 1] \o <<Slash>> \o M[n + 1]
      BY <1>2, <2>1, <3>1 DEF IsJoin
    <3> QED
      BY <1>1, <2>5, <3>1, <3>2
  <2>6. f[N] = g[N]
    BY <2>3, <2>4, <2>5, SameSteps
  <2>7. g[N + 1] = g[N] \o <<Slash>> \o name
    <3>1. N + 1 \in 1..(Len(M) - 1) /\ (N + 1) - 1 = N /\ (N + 1) + 1 = Len(names) + 1
      BY <2>3
    <3>2. g[N + 1] = g[(N + 1) - 1] \o <<Slash>> \o M[(N + 1) + 1]
      BY <1>2, <3>1 DEF IsJoin
    <3> QED
      BY <1>1, <3>1, <3>2
  <2> QED
    BY <1>2, <1>4, <2>1, <2>3, <2>6, <2>7 DEF M
<1> QED
  BY <1>3, <1>4

\* A joined path neither begins nor ends with a slash.
LEMMA JoinedEnds ==
  ASSUME NEW names \in Seq(Components), names # <<>>
  PROVE  LET j == Joined(names) IN
         /\ j \in Texts /\ Len(j) \in Nat \ {0} /\ j[1] # Slash /\ j[Len(j)] # Slash
<1> DEFINE Good(j) == /\ j \in Texts /\ Len(j) \in Nat \ {0}
                      /\ j[1] # Slash /\ j[Len(j)] # Slash
           T == {ns \in Seq(Components) : ns # <<>> => Good(Joined(ns))}
<1>1. <<>> \in T
  BY EmptySeq
<1>2. ASSUME NEW name \in Components
      PROVE  Good(name)
  <2>1. name \in Seq(Chars \ {Slash}) /\ name # <<>>
    BY DEF Components, Names
  <2>2. Len(name) \in Nat \ {0}
    BY <2>1, EmptySeq
  <2>3. 1 \in 1..Len(name) /\ Len(name) \in 1..Len(name)
    BY <2>2
  <2>4. name[1] \in Chars \ {Slash} /\ name[Len(name)] \in Chars \ {Slash}
    BY <2>1, <2>3, ElementOfSeq
  <2> QED
    BY <2>2, <2>4, NamesAreTexts
<1>3. ASSUME NEW s, NEW t, Good(s), Good(t)
      PROVE  Good(s \o <<Slash>> \o t)
  <2> DEFINE u == s \o <<Slash>>
             v == u \o t
  <2>1. s \in Seq(Read) /\ t \in Seq(Read) /\ <<Slash>> \in Seq(Read) /\ Len(<<Slash>>) = 1
    BY <1>3, NamesAreTexts DEF Texts, Read
  <2>2. /\ u \in Seq(Read) /\ Len(u) = Len(s) + 1
        /\ \A i \in 1..(Len(s) + 1) : u[i] = IF i <= Len(s) THEN s[i] ELSE <<Slash>>[i - Len(s)]
    BY <2>1, ConcatProperties
  <2>8. u \in Seq(Read) /\ t \in Seq(Read)
    BY <2>1, <2>2
  <2> HIDE DEF u
  <2>3. /\ v \in Seq(Read) /\ Len(v) = Len(u) + Len(t)
        /\ \A i \in 1..(Len(u) + Len(t)) : v[i] = IF i <= Len(u) THEN u[i] ELSE t[i - Len(u)]
    BY <2>8, ConcatProperties
  <2> HIDE DEF v
  <2>4. Len(s) \in Nat \ {0} /\ Len(t) \in Nat \ {0}
    BY <1>3
  <2>5. v[1] = s[1]
    <3>1. v[1] = u[1]
      BY <2>2, <2>3, <2>4
    <3>2. u[1] = s[1]
      BY <2>2, <2>4
    <3> QED
      BY <3>1, <3>2
  <2>6. v[Len(v)] = t[Len(t)]
    <3>1. Len(v) \in 1..(Len(u) + Len(t)) /\ ~(Len(v) <= Len(u)) /\ Len(v) - Len(u) = Len(t)
      BY <2>2, <2>3, <2>4
    <3> QED
      BY <2>3, <3>1
  <2>7. Len(v) \in Nat \ {0} /\ v \in Texts
    BY <2>2, <2>3, <2>4 DEF Texts, Read
  <2> QED
    BY <1>3, <2>5, <2>6, <2>7 DEF u, v
<1>4. ASSUME NEW ns \in T, NEW name \in Components
      PROVE  Append(ns, name) \in T
  <2> HIDE DEF Good
  <2>1. ns \in Seq(Components) /\ Append(ns, name) \in Seq(Components)
    BY AppendProperties
  <2>2. CASE ns = <<>>
    <3>1. Joined(Append(ns, name)) = name
      BY <2>2, JoinedAppend
    <3> QED
      BY <1>2, <2>1, <3>1
  <2>3. CASE ns # <<>>
    <3>1. Joined(Append(ns, name)) = Joined(ns) \o <<Slash>> \o name
      BY <2>1, <2>3, JoinedAppend
    <3>2. Good(Joined(ns)) /\ Good(name)
      BY <1>2, <2>3
    <3>3. Good(Joined(ns) \o <<Slash>> \o name)
      BY <1>3, <3>2
    <3> QED
      BY <2>1, <3>1, <3>3
  <2> QED
    BY <2>2, <2>3
<1>5. T \in SUBSET Seq(Components)
  OBVIOUS
<1>6. T = Seq(Components)
  <2> HIDE DEF T
  <2> QED
    BY <1>1, <1>4, <1>5, SeqInduction
<1> QED
  BY <1>6

(***************************************************************************)
(* What is answered can be asked for: a path is read to itself.            *)
(***************************************************************************)
\* The parser after a text of one character.
LEMMA AfterChar1 ==
  ASSUME NEW p, Well(p), NEW c \in Read
  PROVE  After(p, <<c>>) = ParseChar(p, c)
<1>1. Append(<<>>, c) = <<c>>
  OBVIOUS
<1>2. <<>> \in Texts
  BY EmptySeq DEF Texts
<1> QED
  BY <1>1, <1>2, AfterAppend

\* The parser q has read a name where p was before it.
HasRead(q, p, name) ==
  LET s == AfterChar(Slash)[p.state] IN
  /\ Well(q)
  /\ q.state = s /\ q.path = p.path
  /\ q.owner     = IF s = "owner"  THEN name ELSE p.owner
  /\ q.wsname    = IF s = "wsname" THEN name ELSE p.wsname
  /\ q.component = IF s = "path"   THEN name ELSE p.component

\* A component that is read at a start fills the member that is begun there.
LEMMA NameIsRead ==
  ASSUME NEW p, Well(p), p.state \in {"owner_start", "wsname_start", "path_start"},
         NEW name \in Components
  PROVE  HasRead(After(p, name), p, name)
<1> DEFINE s == AfterChar(Slash)[p.state]
           T == {n \in Names : n # <<>> => HasRead(After(p, n), p, n)}
<1>1. <<>> \in T
  BY EmptySeq DEF Names
<1>2. ASSUME NEW n \in T, NEW c \in Chars \ {Slash}
      PROVE  Append(n, c) \in T
  <2>1. n \in Names /\ n \in Texts /\ c \in Read /\ Append(n, c) \in Names /\ Append(n, c) # <<>>
    BY NamesAreTexts, AppendIsComponent DEF Read, Components
  <2> DEFINE q == After(p, n)
             r == OnChar(q, c)
  <2>2. Well(q) /\ q \in Parsers /\ After(p, Append(n, c)) = r
    BY <2>1, AfterAppend, AfterIsWell DEF ParseChar, Well
  <2>3. /\ Well(r) /\ r.state = AfterChar(c)[q.state] /\ r.path = q.path
        /\ r.state = "owner"  => r.owner = Append(q.owner, c)
        /\ r.state # "owner"  => r.owner = q.owner
        /\ r.state = "wsname" => r.wsname = Append(q.wsname, c)
        /\ r.state # "wsname" => r.wsname = q.wsname
        /\ r.state = "path"   => r.component = Append(q.component, c)
        /\ r.state # "path"   => r.component = q.component
    BY <2>2, CharKeepsWell, OnCharMembers
  <2>4. CASE n = <<>>
    <3>1. q = p
      BY <2>4, AfterAppend
    <3>2. AfterChar(c)[p.state] = s /\ s \in {"owner", "wsname", "path"}
      BY DEF AfterChar
    <3>3. /\ s = "owner" => p.owner = n
          /\ s = "wsname" => p.wsname = n
          /\ s = "path" => p.component = n
      BY <2>4 DEF AfterChar, Well
    <3> HIDE DEF q, r
    <3>4. HasRead(r, p, Append(n, c))
      <4>1. r.state = s /\ s = AfterChar(Slash)[p.state]
        BY <2>3, <3>1, <3>2
      <4> HIDE DEF s
      <4> QED
        BY <2>3, <3>1, <3>3, <4>1 DEF HasRead
    <3> QED
      BY <2>1, <2>2, <3>4
  <2>5. CASE n # <<>>
    <3>1. HasRead(q, p, n)
      BY <2>5
    <3> HIDE DEF q, r
    <3>2. AfterChar(c)[s] = s
      BY DEF AfterChar
    <3>3. s = AfterChar(Slash)[p.state]
      OBVIOUS
    <3> HIDE DEF s
    <3>4. HasRead(r, p, Append(n, c))
      BY <2>3, <3>1, <3>2, <3>3 DEF HasRead
    <3> QED
      BY <2>1, <2>2, <3>4
  <2> QED
    BY <2>4, <2>5
<1>3. T \in SUBSET Seq(Chars \ {Slash})
  BY DEF Names
<1>4. T = Seq(Chars \ {Slash})
  <2> HIDE DEF T
  <2> QED
    BY <1>1, <1>2, <1>3, SeqInduction
<1> QED
  BY <1>4 DEF Components, Names

\* The components of a joined path are read one after the other.
LEMMA PathIsRead ==
  ASSUME NEW p, Well(p), p.state = "path_start", p.path = <<>>,
         NEW names \in Seq(Components), names # <<>>
  PROVE  LET q == After(p, Joined(names)) IN
         /\ Well(q) /\ q.state = "path"
         /\ q.owner = p.owner /\ q.wsname = p.wsname
         /\ Append(q.path, q.component) = names
<1> DEFINE Good(q, ns) == /\ Well(q) /\ q.state = "path"
                          /\ q.owner = p.owner /\ q.wsname = p.wsname
                          /\ Append(q.path, q.component) = ns
           T == {ns \in Seq(Components) : ns # <<>> => Good(After(p, Joined(ns)), ns)}
<1>1. <<>> \in T
  BY EmptySeq
<1>2. ASSUME NEW o, Well(o), o.state = "path_start", NEW name \in Components
      PROVE  LET q == After(o, name) IN
             /\ Well(q) /\ q.state = "path" /\ q.path = o.path /\ q.component = name
             /\ q.owner = o.owner /\ q.wsname = o.wsname
  <2>1. HasRead(After(o, name), o, name)
    BY <1>2, NameIsRead
  <2>2. AfterChar(Slash)[o.state] = "path"
    BY <1>2 DEF AfterChar
  <2> QED
    BY <2>1, <2>2 DEF HasRead
<1>3. ASSUME NEW ns \in T, NEW name \in Components
      PROVE  Append(ns, name) \in T
  <2>1. ns \in Seq(Components) /\ Append(ns, name) \in Seq(Components) /\ name \in Texts
    BY AppendProperties, NamesAreTexts
  <2>2. CASE ns = <<>>
    <3>1. Joined(Append(ns, name)) = name
      BY <2>2, JoinedAppend
    <3>2. Good(After(p, name), Append(ns, name))
      BY <1>2, <2>2
    <3> HIDE DEF Good
    <3> QED
      BY <2>1, <3>1, <3>2
  <2>3. CASE ns # <<>>
    <3> DEFINE j == Joined(ns)
               q == After(p, j)
               r == OnSlash(q)
               u == After(r, name)
    <3>1. j \in Texts
      BY <2>1, <2>3, JoinedIsJoin
    <3>2. Good(q, ns)
      BY <2>3
    <3>3. Joined(Append(ns, name)) = (j \o <<Slash>>) \o name
      BY <2>1, <2>3, JoinedAppend
    <3>4. j \o <<Slash>> \in Texts /\ <<Slash>> \in Texts /\ Slash \in Read
      BY <3>1, NamesAreTexts, TextsConcat DEF Read
    <3>5. Well(r)
      BY <3>2, SlashKeepsWell
    <3>6. After(p, j \o <<Slash>>) = r
      <4>1. After(p, j \o <<Slash>>) = After(q, <<Slash>>)
        BY <3>1, <3>4, AfterConcat
      <4>2. After(q, <<Slash>>) = ParseChar(q, Slash)
        BY <3>2, <3>4, AfterChar1
      <4> QED
        BY <4>1, <4>2 DEF ParseChar
    <3>7. After(p, (j \o <<Slash>>) \o name) = u
      BY <2>1, <3>4, <3>6, AfterConcat
    <3>8. r.state = "path_start" /\ r.path = ns /\ r.owner = p.owner /\ r.wsname = p.wsname
      <4>0. q \in Parsers /\ q.path \in Seq(Components) /\ q.component # <<>>
        BY <3>2 DEF Well
      <4>1. /\ r = [Pushed(q) EXCEPT !.state = "path_start"]
        BY <3>2 DEF OnSlash, AfterSlash
      <4>2. /\ Pushed(q) \in Parsers /\ Pushed(q).path = Append(q.path, q.component)
            /\ Pushed(q).owner = q.owner /\ Pushed(q).wsname = q.wsname
        BY <4>0, PushedMembers
      <4> QED
        BY <3>2, <4>1, <4>2 DEF Parsers
    <3> HIDE DEF j, q, r
    <3>9. /\ Well(u) /\ u.state = "path" /\ u.path = r.path /\ u.component = name
          /\ u.owner = r.owner /\ u.wsname = r.wsname
      BY <1>2, <3>5, <3>8
    <3> HIDE DEF u
    <3>10. Good(u, Append(ns, name))
      BY <3>8, <3>9
    <3> HIDE DEF Good
    <3> QED
      BY <2>1, <3>3, <3>7, <3>10
  <2> QED
    BY <2>2, <2>3
<1>4. T \in SUBSET Seq(Components)
  OBVIOUS
<1>5. T = Seq(Components)
  <2> HIDE DEF T
  <2> QED
    BY <1>1, <1>3, <1>4, SeqInduction
<1> QED
  BY <1>5

\* The full path of what is extracted is its components, joined.
LEMMA FullPathIsJoined ==
  ASSUME NEW q, Done(q), q.path # <<>>
  PROVE  FullPath(Extracted(q)) = Joined(q.path)
<1>1. PICK front \in Seq(Components), name \in Components : q.path = Append(front, name)
  BY SequenceEmptyOrAppend DEF Done
<1>2. Front(q.path) = front /\ Last(q.path) = name
  <2>1. /\ Len(q.path) = Len(front) + 1 /\ q.path \in Seq(Components)
        /\ \A i \in 1..Len(front) : q.path[i] = front[i]
        /\ q.path[Len(front) + 1] = name /\ Len(front) \in Nat
    BY <1>1, AppendProperties, LenProperties
  <2>2. Last(q.path) = name
    BY <2>1 DEF Last
  <2>3. Front(q.path) = SubSeq(q.path, 1, Len(front))
    BY <2>1 DEF Front
  <2>4. /\ Front(q.path) \in Seq(Components) /\ Len(Front(q.path)) = Len(front)
        /\ \A i \in 1..Len(front) : Front(q.path)[i] = front[i]
    <3>1. \A i \in 1..Len(front) : q.path[i] \in Components
      BY <2>1, ElementOfSeq
    <3> DEFINE b == SubSeq(q.path, 1, Len(front))
               m == Len(front)
    <3>2. m \in Int /\ 1 \in Int /\ \A i \in 1..m : q.path[i] \in Components
      BY <2>1, <3>1
    <3> HIDE DEF m
    <3>3. /\ b \in Seq(Components) /\ Len(b) = IF 1 <= m THEN m - 1 + 1 ELSE 0
          /\ \A i \in 1..(m - 1 + 1) : b[i] = q.path[1 + i - 1]
      BY <3>2, SubSeqProperties DEF m
    <3> HIDE DEF b
    <3>4. m \in Nat
      BY <2>1 DEF m
    <3>5. \A i \in 1..m : b[i] = q.path[i]
      BY <3>3, <3>4
    <3> QED
      BY <2>1, <2>3, <3>3, <3>4, <3>5 DEF b, m
  <2>5. Front(q.path) = front
    BY <2>4, SeqEqual
  <2> QED
    BY <2>2, <2>5
<1>3. /\ Extracted(q).path = Joined(front) /\ Extracted(q).name = name
  BY <1>2 DEF Extracted
<1>4. Joined(q.path) = IF front = <<>> THEN name ELSE Joined(front) \o <<Slash>> \o name
  BY <1>1, JoinedAppend
<1>5. Joined(front) = <<>> <=> front = <<>>
  <2>1. front = <<>> => Joined(front) = <<>>
    BY DEF Joined
  <2>2. ASSUME front # <<>>
        PROVE  Joined(front) # <<>>
    <3>1. Len(Joined(front)) \in Nat \ {0}
      BY <2>2, JoinedEnds
    <3> QED
      BY <3>1
  <2> QED
    BY <2>1, <2>2
<1> QED
  BY <1>3, <1>4, <1>5 DEF FullPath

\* The type of what is extracted.
LEMMA ExtractedIsPath ==
  ASSUME NEW q, Done(q)
  PROVE  /\ Extracted(q) \in Paths
         /\ Extracted(q).path # <<>> =>
              /\ Extracted(q).path[1] # Slash
              /\ Last(Extracted(q).path) # Slash
<1>1. q.owner \in Texts /\ q.wsname \in Texts /\ <<>> \in Texts
  <2>1. q.owner \in Names /\ q.wsname \in Names /\ <<>> \in Names
    BY EmptySeq DEF Done, Parsers, Names
  <2> QED
    BY <2>1, NamesAreTexts
<1> DEFINE front == Front(q.path)
<1>2. CASE q.path = <<>>
  BY <1>1, <1>2 DEF Extracted, Paths
<1>3. CASE q.path # <<>>
  <2>1. front \in Seq(Components) /\ q.path \in Seq(Components)
    BY <1>3, FrontIsSeq DEF Done
  <2>2. Last(q.path) \in Texts
    <3>1. Len(q.path) \in Nat \ {0}
      BY <1>3, <2>1, EmptySeq
    <3>2. Len(q.path) \in 1..Len(q.path)
      BY <3>1
    <3>3. q.path[Len(q.path)] \in Components
      BY <2>1, <3>2, ElementOfSeq
    <3> QED
      BY <3>3, NamesAreTexts DEF Last
  <2>3. Joined(front) \in Texts
    <3>1. front = <<>> => Joined(front) = <<>>
      BY DEF Joined
    <3> HIDE DEF front
    <3> QED
      BY <1>1, <2>1, <3>1, JoinedEnds
  <2>4. /\ Extracted(q) = [owner |-> q.owner, wsname |-> q.wsname,
                           path |-> Joined(front), name |-> Last(q.path)]
    BY <1>3 DEF Extracted
  <2>5. Joined(front) # <<>> => /\ Joined(front)[1] # Slash
                                /\ Last(Joined(front)) # Slash
    <3>1. front = <<>> => Joined(front) = <<>>
      BY DEF Joined
    <3> HIDE DEF front
    <3> QED
      BY <2>1, <3>1, JoinedEnds DEF Last
  <2> HIDE DEF front
  <2> QED
    BY <1>1, <2>2, <2>3, <2>4, <2>5 DEF Paths
<1> QED
  BY <1>2, <1>3

\* What is read of the text of a path.
LEMMA PathIsReadToItself ==
  ASSUME NEW q, Done(q)
  PROVE  LET w == Extracted(q)
             text == <<Slash>> \o w.owner \o <<Slash>> \o w.wsname
                       \o <<Slash>> \o FullPath(w)
         IN  Extracted(Parse(text)) = w
<1> DEFINE w == Extracted(q)
           full == FullPath(w)
           t1 == <<Slash>>
           t2 == t1 \o w.owner
           t3 == t2 \o <<Slash>>
           t4 == t3 \o w.wsname
           t5 == t4 \o <<Slash>>
           t6 == t5 \o full
<1>0. /\ q \in Parsers /\ q.owner \in Names /\ q.wsname \in Names
      /\ w.owner = q.owner /\ w.wsname = q.wsname
      /\ q.path \in Seq(Components) /\ <<>> \in Texts
  BY EmptySeq DEF Done, Parsers, Extracted, Texts
<1>1. full \in Texts
  <2>1. CASE q.path = <<>>
    BY <1>0, <2>1 DEF Extracted, FullPath
  <2>2. CASE q.path # <<>>
    BY <1>0, <2>2, FullPathIsJoined, JoinedIsJoin
  <2> QED
    BY <2>1, <2>2
<1>2. /\ t1 \in Texts /\ t2 \in Texts /\ t3 \in Texts /\ t4 \in Texts /\ t5 \in Texts
      /\ w.owner \in Texts /\ w.wsname \in Texts /\ <<Slash>> \in Texts
  <2>1. w.owner \in Texts /\ w.wsname \in Texts /\ <<Slash>> \in Texts
    BY <1>0, NamesAreTexts
  <2>2. t2 \in Texts
    BY <2>1, TextsConcat
  <2>3. t3 \in Texts
    BY <2>1, <2>2, TextsConcat
  <2>4. t4 \in Texts
    BY <2>1, <2>3, TextsConcat
  <2>5. t5 \in Texts
    BY <2>1, <2>4, TextsConcat
  <2> QED
    BY <2>1, <2>2, <2>3, <2>4, <2>5
<1> HIDE DEF w, full, t2, t3, t4, t5
<1> DEFINE p1 == After(Fresh, t1)
           p2 == After(Fresh, t2)
           p3 == After(Fresh, t3)
           p4 == After(Fresh, t4)
           p5 == After(Fresh, t5)
           p6 == After(Fresh, t6)
<1>3. /\ Well(p1) /\ Well(p2) /\ Well(p3) /\ Well(p4) /\ Well(p5)
  BY <1>2, FreshIsWell, AfterIsWell
<1>4. ASSUME NEW p, Well(p)
      PROVE  /\ After(p, <<Slash>>) = OnSlash(p)
             /\ OnSlash(p).state = AfterSlash[p.state]
             /\ OnSlash(p).owner = p.owner /\ OnSlash(p).wsname = p.wsname
             /\ p.state # "path" => OnSlash(p).path = p.path
             /\ OnSlash(p).component = <<>>
  <2>1. After(p, <<Slash>>) = ParseChar(p, Slash)
    <3>1. Slash \in Read
      BY DEF Read
    <3> QED
      BY <1>4, <3>1, AfterChar1
  <2> QED
    BY <1>4, <2>1, OnSlashMembers DEF Well, ParseChar
<1>5. /\ p1 = OnSlash(Fresh) /\ p2 = After(p1, w.owner) /\ p3 = OnSlash(p2)
      /\ p4 = After(p3, w.wsname) /\ p5 = OnSlash(p4) /\ p6 = After(p5, full)
  <2>1. p1 = OnSlash(Fresh)
    BY <1>4, FreshIsWell
  <2>2. p2 = After(p1, w.owner)
    BY <1>2, FreshIsWell, AfterConcat DEF t2
  <2>3. p3 = OnSlash(p2)
    BY <1>2, <1>3, <1>4, FreshIsWell, AfterConcat DEF t3
  <2>4. p4 = After(p3, w.wsname)
    BY <1>2, FreshIsWell, AfterConcat DEF t4
  <2>5. p5 = OnSlash(p4)
    BY <1>2, <1>3, <1>4, FreshIsWell, AfterConcat DEF t5
  <2>6. p6 = After(p5, full)
    BY <1>1, <1>2, FreshIsWell, AfterConcat
  <2> QED
    BY <2>1, <2>2, <2>3, <2>4, <2>5, <2>6
<1>6. Parse(t6) = Complete(p6)
  BY DEF Parse
<1> HIDE DEF p1, p2, p3, p4, p5, p6, t6
<1>7. /\ p1.state = "owner_start" /\ p1.owner = <<>> /\ p1.wsname = <<>> /\ p1.path = <<>>
  BY <1>4, <1>5, FreshIsWell DEF AfterSlash
<1>8. SUFFICES LET r == Complete(p6) IN
                r.owner = q.owner /\ r.wsname = q.wsname /\ r.path = q.path
  <2>1. ASSUME NEW r, r.owner = q.owner, r.wsname = q.wsname, r.path = q.path
        PROVE  Extracted(r) = Extracted(q)
    BY <2>1 DEF Extracted
  <2>2. Extracted(Complete(p6)) = w
    BY <1>8, <2>1 DEF w
  <2> QED
    BY <1>6, <2>2 DEF t6, t5, t4, t3, t2, full, w
<1>9. CASE q.owner = <<>>
  <2>1. q.wsname = <<>> /\ q.path = <<>>
    BY <1>9 DEF Done
  <2>2. full = <<>>
    BY <2>1 DEF full, w, Extracted, FullPath
  <2>3. p2 = p1 /\ p4 = p3 /\ p6 = p5
    BY <1>0, <1>3, <1>5, <1>9, <2>1, <2>2, AfterAppend
  <2>4. p3.state = "owner_start" /\ p3.owner = <<>> /\ p3.wsname = <<>> /\ p3.path = <<>>
    BY <1>3, <1>4, <1>5, <1>7, <2>3 DEF AfterSlash
  <2>5. p5.state = "owner_start" /\ p5.owner = <<>> /\ p5.wsname = <<>> /\ p5.path = <<>>
    BY <1>3, <1>4, <1>5, <2>3, <2>4 DEF AfterSlash
  <2> QED
    BY <1>9, <2>1, <2>3, <2>5 DEF Complete
<1>10. CASE q.owner # <<>>
  <2>1. HasRead(p2, p1, q.owner)
    <3>1. q.owner \in Components
      BY <1>0, <1>10 DEF Components
    <3> QED
      BY <1>0, <1>3, <1>5, <1>7, <3>1, NameIsRead
  <2>2. p2.state = "owner" /\ p2.owner = q.owner /\ p2.wsname = <<>> /\ p2.path = <<>>
    BY <1>7, <2>1 DEF HasRead, AfterChar
  <2>3. p3.state = "wsname_start" /\ p3.owner = q.owner /\ p3.wsname = <<>> /\ p3.path = <<>>
    BY <1>3, <1>4, <1>5, <2>2 DEF AfterSlash
  <2>4. CASE q.wsname = <<>>
    <3>1. q.path = <<>>
      BY <2>4 DEF Done
    <3>2. full = <<>>
      BY <3>1 DEF full, w, Extracted, FullPath
    <3>3. p4 = p3 /\ p6 = p5
      BY <1>0, <1>3, <1>5, <2>4, <3>2, AfterAppend
    <3>4. p5.state = "wsname_start" /\ p5.owner = q.owner /\ p5.wsname = <<>> /\ p5.path = <<>>
      BY <1>3, <1>4, <1>5, <2>3, <3>3 DEF AfterSlash
    <3> QED
      BY <2>4, <3>1, <3>3, <3>4 DEF Complete
  <2>5. CASE q.wsname # <<>>
    <3>1. HasRead(p4, p3, q.wsname)
      <4>1. q.wsname \in Components
        BY <1>0, <2>5 DEF Components
      <4> QED
        BY <1>0, <1>3, <1>5, <2>3, <4>1, NameIsRead
    <3>2. p4.state = "wsname" /\ p4.owner = q.owner /\ p4.wsname = q.wsname /\ p4.path = <<>>
      BY <2>3, <3>1 DEF HasRead, AfterChar
    <3>3. /\ p5.state = "path_start" /\ p5.owner = q.owner /\ p5.wsname = q.wsname
          /\ p5.path = <<>>
      BY <1>3, <1>4, <1>5, <3>2 DEF AfterSlash
    <3>4. CASE q.path = <<>>
      <4>1. full = <<>>
        BY <3>4 DEF full, w, Extracted, FullPath
      <4>2. p6 = p5
        BY <1>3, <1>5, <4>1, AfterAppend
      <4> QED
        BY <3>3, <3>4, <4>2 DEF Complete
    <3>5. CASE q.path # <<>>
      <4>1. full = Joined(q.path)
        BY <3>5, FullPathIsJoined DEF full, w
      <4>2. /\ Well(p6) /\ p6.state = "path"
            /\ p6.owner = p5.owner /\ p6.wsname = p5.wsname
            /\ Append(p6.path, p6.component) = q.path
        BY <1>0, <1>3, <1>5, <3>3, <3>5, <4>1, PathIsRead
      <4>3. Complete(p6) = Pushed(p6)
        BY <4>2 DEF Complete
      <4>4. /\ Pushed(p6).path = Append(p6.path, p6.component)
            /\ Pushed(p6).owner = p6.owner /\ Pushed(p6).wsname = p6.wsname
        BY <4>2, PushedMembers DEF Well
      <4> QED
        BY <3>3, <4>2, <4>3, <4>4
    <3> QED
      BY <3>4, <3>5
  <2> QED
    BY <2>4, <2>5
<1> QED
  BY <1>9, <1>10

(***************************************************************************)
(* The name in a download URL (UrlCoding).                                 *)
(***************************************************************************)
Byte == 0..255

\* The two digits of a character are read back to it.
LEMMA HexIsRead ==
  ASSUME NEW c \in Byte
  PROVE  /\ Url!ReadHex(Url!HexDigit(c \div 16), Url!HexDigit(c % 16)) = <<c>>
         /\ Url!HexDigit(c \div 16) \in Byte /\ Url!HexDigit(c % 16) \in Byte
<1>1. c \div 16 \in 0..15 /\ c % 16 \in 0..15 /\ 16 * (c \div 16) + (c % 16) = c
  BY DEF Byte
<1>2. ASSUME NEW h \in 0..15
      PROVE  /\ Url!IsHex(Url!HexDigit(h)) /\ Url!HexValue(Url!HexDigit(h)) = h
             /\ Url!HexDigit(h) \in Byte
  BY DEF Url!IsHex, Url!HexDigit, Url!HexValue, Byte
<1> DEFINE a == Url!HexDigit(c \div 16)
           b == Url!HexDigit(c % 16)
<1>3. /\ Url!IsHex(a) /\ Url!HexValue(a) = c \div 16 /\ a \in Byte
      /\ Url!IsHex(b) /\ Url!HexValue(b) = c % 16 /\ b \in Byte
  BY <1>1, <1>2
<1> HIDE DEF a, b
<1>4. ~(a = 48 /\ b \in {88, 120})
  BY <1>3 DEF Url!IsHex
<1>5. Url!ReadHex(a, b) = <<16 * Url!HexValue(a) + Url!HexValue(b)>>
  <2>1. Url!IsHex(a) /\ Url!IsHex(b)
    BY <1>3
  <2>2. b \notin {88, 120}
    BY <1>3 DEF Url!IsHex
  <2>3. a \notin {Url!Plus, Url!Blank} \union (9..13) /\ a # Url!Minus
    BY <1>3 DEF Url!IsHex, Url!Plus, Url!Blank, Url!Minus
  <2> QED
    BY <2>1, <2>2, <2>3 DEF Url!ReadHex
<1> QED
  BY <1>1, <1>3, <1>5 DEF a, b

\* What a character is encoded to: itself, or a "%" and its two digits.
LEMMA EncodedChar ==
  ASSUME NEW c \in Byte
  PROVE  /\ Url!Encoded(c) \in Seq(Byte)
         /\ c \in Url!Reserved =>
              /\ Len(Url!Encoded(c)) = 3 /\ Url!Encoded(c)[1] = Url!Percent
              /\ Url!ReadHex(Url!Encoded(c)[2], Url!Encoded(c)[3]) = <<c>>
         /\ c \notin Url!Reserved => Len(Url!Encoded(c)) = 1 /\ Url!Encoded(c)[1] = c
<1> DEFINE a == Url!HexDigit(c \div 16)
           b == Url!HexDigit(c % 16)
           e == Url!Encoded(c)
<1>1. a \in Byte /\ b \in Byte /\ Url!ReadHex(a, b) = <<c>>
  BY HexIsRead
<1>2. Url!Percent \in Byte
  BY DEF Url!Percent, Byte
<1>3. c \in Url!Reserved => e = <<Url!Percent, a, b>>
  BY DEF Url!Encoded
<1>4. c \notin Url!Reserved => e = <<c>>
  BY DEF Url!Encoded
<1> HIDE DEF a, b, e
<1>5. ASSUME c \in Url!Reserved
      PROVE  /\ e \in Seq(Byte) /\ Len(e) = 3
             /\ e[1] = Url!Percent /\ e[2] = a /\ e[3] = b
  <2>1. e = <<Url!Percent, a, b>>
    BY <1>3, <1>5
  <2>2. \A x, y, z \in Byte : /\ <<x, y, z>> \in Seq(Byte) /\ Len(<<x, y, z>>) = 3
                             /\ <<x, y, z>>[1] = x /\ <<x, y, z>>[2] = y /\ <<x, y, z>>[3] = z
    OBVIOUS
  <2> QED
    BY <1>1, <1>2, <2>1, <2>2
<1>6. ASSUME c \notin Url!Reserved
      PROVE  e \in Seq(Byte) /\ Len(e) = 1 /\ e[1] = c
  <2>1. <<c>> \in Seq(Byte) /\ Len(<<c>>) = 1 /\ <<c>>[1] = c
    OBVIOUS
  <2> QED
    BY <1>4, <1>6, <2>1
<1>7. c \in Url!Reserved => Url!ReadHex(e[2], e[3]) = <<c>>
  BY <1>1, <1>5
<1> QED
  BY <1>5, <1>6, <1>7 DEF e

IsEncoding(f, s) ==
  /\ f[0] = <<>>
  /\ \A n \in 1..Len(s) : f[n] = f[n - 1] \o Url!Encoded(s[n])

\* UrlEncode is the end of a run over the characters, and a string.
LEMMA EncodeIsEncoding ==
  ASSUME NEW s \in Seq(Byte)
  PROVE  \E f : /\ IsEncoding(f, s) /\ Url!UrlEncode(s) = f[Len(s)]
                /\ f[Len(s)] \in Seq(Byte)
<1> DEFINE N == Len(s)
           B == Seq(Byte)
           step == [x \in (1..N) \X B |-> x[2] \o Url!Encoded(s[x[1]])]
<1>1. N \in Nat
  BY LenProperties
<1>2. \A n \in 1..N : Url!Encoded(s[n]) \in B
  BY ElementOfSeq, EncodedChar
<1>3. <<>> \in B
  BY EmptySeq
<1>4. \A t \in B : \A n \in 1..N : t \o Url!Encoded(s[n]) \in B
  BY <1>2, ConcatProperties
<1> HIDE DEF N, B
<1>5. step \in [(1..N) \X B -> B]
  <2>1. \A x \in (1..N) \X B : x[1] \in 1..N /\ x[2] \in B
    OBVIOUS
  <2>2. \A x \in (1..N) \X B : x[2] \o Url!Encoded(s[x[1]]) \in B
    BY <1>4, <2>1
  <2> QED
    BY <2>2
<1>6. \A n \in 1..N : \A t \in B : step[<<n, t>>] = t \o Url!Encoded(s[n])
  OBVIOUS
<1> HIDE DEF step
<1>7. PICK f : Recurses(f, B, <<>>, N, step)
  BY <1>1, <1>3, <1>5, Recursion
<1> DEFINE G(g) == [n \in 0..N |-> IF n = 0 THEN <<>> ELSE g[n - 1] \o Url!Encoded(s[n])]
<1>8. f = G(f)
  <2>1. ASSUME NEW n \in 0..N
        PROVE  f[n] = G(f)[n]
    <3>1. CASE n = 0
      BY <1>7, <3>1 DEF Recurses
    <3>2. CASE n # 0
      <4>1. n \in 1..N /\ n - 1 \in 0..N
        BY <1>1, <3>2
      <4>2. f[n - 1] \in B /\ f[n] = step[<<n, f[n - 1]>>]
        BY <1>7, <4>1 DEF Recurses
      <4> QED
        BY <1>6, <3>2, <4>1, <4>2
    <3> QED
      BY <3>1, <3>2
  <2>2. f \in [0..N -> B]
    BY <1>7 DEF Recurses
  <2> QED
    BY <2>1, <2>2
<1> DEFINE h == CHOOSE g : g = G(g)
<1>9. h = G(h)
  <2> HIDE DEF G
  <2> QED
    BY <1>8
<1>10. Url!UrlEncode(s) = h[N]
  BY DEF Url!UrlEncode, N
<1> HIDE DEF h
<1>11. h[0] = <<>>
  BY <1>1, <1>9
<1>12. ASSUME NEW n \in 1..N
       PROVE  h[n] = h[n - 1] \o Url!Encoded(s[n])
  <2>1. n \in 0..N /\ n # 0
    BY <1>1
  <2>2. h[n] = G(h)[n]
    <3> HIDE DEF G
    <3> QED
      BY <1>9
  <2> QED
    BY <2>1, <2>2
<1>13. h[N] = f[N]
  <2>1. h[0] = f[0]
    BY <1>7, <1>11 DEF Recurses
  <2>2. ASSUME NEW n \in 1..N, h[n - 1] = f[n - 1]
        PROVE  h[n] = f[n]
    <3>1. n - 1 \in 0..N
      BY <1>1
    <3>2. f[n - 1] \in B /\ f[n] = step[<<n, f[n - 1]>>]
      BY <1>7, <3>1 DEF Recurses
    <3> QED
      BY <1>6, <1>12, <2>2, <3>2
  <2> QED
    BY <1>1, <2>1, <2>2, SameSteps
<1>14. f[N] \in B
  <2>1. N \in 0..N
    BY <1>1
  <2> QED
    BY <1>7, <2>1 DEF Recurses
<1>15. IsEncoding(h, s)
  BY <1>11, <1>12 DEF IsEncoding, N
<1> QED
  BY <1>10, <1>13, <1>14, <1>15 DEF N, B

\* One character more is what it is encoded to more.
LEMMA EncodeAppend ==
  /\ Url!UrlEncode(<<>>) = <<>>
  /\ \A s \in Seq(Byte) : Url!UrlEncode(s) \in Seq(Byte)
  /\ \A s \in Seq(Byte), c \in Byte :
       Url!UrlEncode(Append(s, c)) = Url!UrlEncode(s) \o Url!Encoded(c)
<1>1. Url!UrlEncode(<<>>) = <<>>
  <2>1. <<>> \in Seq(Byte) /\ Len(<<>>) = 0
    BY EmptySeq
  <2> QED
    BY <2>1, EncodeIsEncoding DEF IsEncoding
<1>2. ASSUME NEW s \in Seq(Byte)
      PROVE  Url!UrlEncode(s) \in Seq(Byte)
  BY EncodeIsEncoding
<1>3. ASSUME NEW s \in Seq(Byte), NEW c \in Byte
      PROVE  Url!UrlEncode(Append(s, c)) = Url!UrlEncode(s) \o Url!Encoded(c)
  <2> DEFINE t == Append(s, c)
             N == Len(s)
  <2>1. /\ N \in Nat /\ t \in Seq(Byte) /\ Len(t) = N + 1 /\ t[N + 1] = c
        /\ \A n \in 1..N : t[n] = s[n]
    BY LenProperties, AppendProperties
  <2>2. PICK f : IsEncoding(f, s) /\ Url!UrlEncode(s) = f[N]
    BY EncodeIsEncoding
  <2>3. PICK g : IsEncoding(g, t) /\ Url!UrlEncode(t) = g[Len(t)]
    BY <2>1, EncodeIsEncoding
  <2> HIDE DEF t, N
  <2>4. f[0] = g[0]
    BY <2>2, <2>3 DEF IsEncoding
  <2>5. ASSUME NEW n \in 1..N, f[n - 1] = g[n - 1]
        PROVE  f[n] = g[n]
    <3>1. n \in 1..Len(t)
      BY <2>1
    <3>2. f[n] = f[n - 1] \o Url!Encoded(s[n])
      BY <2>2 DEF IsEncoding, N
    <3>3. g[n] = g[n - 1] \o Url!Encoded(t[n])
      BY <2>3, <3>1 DEF IsEncoding
    <3> QED
      BY <2>1, <2>5, <3>2, <3>3
  <2>6. f[N] = g[N]
    BY <2>1, <2>4, <2>5, SameSteps
  <2>7. g[N + 1] = g[N] \o Url!Encoded(c)
    <3>1. N + 1 \in 1..Len(t) /\ (N + 1) - 1 = N
      BY <2>1
    <3> QED
      BY <2>1, <2>3, <3>1 DEF IsEncoding
  <2> QED
    BY <2>1, <2>2, <2>3, <2>6, <2>7 DEF t
<1> QED
  BY <1>1, <1>2, <1>3

(***************************************************************************)
(* The rounds of url_decode.                                               *)
(***************************************************************************)
Decodings == [next : Nat \ {0}, ok : BOOLEAN, out : Seq(Int)]
Begun     == [next |-> 1, ok |-> TRUE, out |-> <<>>]

IsDecoding(f, t) ==
  /\ f[0] = Begun
  /\ \A n \in 1..Len(t) : f[n] = Url!Decoded(f[n - 1], t)

\* The types of a round.
LEMMA DecodedIsDecoding ==
  ASSUME NEW d \in Decodings, NEW t \in Seq(Byte)
  PROVE  Url!Decoded(d, t) \in Decodings
<1>1. d.next \in Nat \ {0} /\ d.ok \in BOOLEAN /\ d.out \in Seq(Int) /\ Len(t) \in Nat
  BY LenProperties DEF Decodings
<1>2. \A i \in 1..Len(t) : t[i] \in Int
  <2>1. \A i \in 1..Len(t) : t[i] \in Byte
    BY ElementOfSeq
  <2>2. \A b \in Byte : b \in Int
    BY DEF Byte
  <2> QED
    BY <2>1, <2>2
<1>6. d = [next |-> d.next, ok |-> d.ok, out |-> d.out]
  BY DEF Decodings
<1>3. CASE ~d.ok \/ d.next > Len(t)
  BY <1>3 DEF Url!Decoded
<1>4. CASE ~(~d.ok \/ d.next > Len(t)) /\ t[d.next] # Url!Percent
  <2> DEFINE c == IF t[d.next] = Url!Plus THEN Url!Blank ELSE t[d.next]
  <2>1. c \in Int
    BY <1>1, <1>2, <1>4 DEF Url!Blank
  <2>2. Append(d.out, c) \in Seq(Int)
    <3> HIDE DEF c
    <3> QED
      BY <1>1, <2>1, AppendProperties
  <2>3. Url!Decoded(d, t) = [d EXCEPT !.next = @ + 1, !.out = Append(@, c)]
    BY <1>4 DEF Url!Decoded
  <2>4. d.next + 1 \in Nat \ {0}
    BY <1>1
  <2> HIDE DEF c
  <2>5. Url!Decoded(d, t) = [next |-> d.next + 1, ok |-> d.ok, out |-> Append(d.out, c)]
    BY <1>6, <2>3
  <2> QED
    BY <1>1, <2>2, <2>4, <2>5 DEF Decodings
<1>5. CASE ~(~d.ok \/ d.next > Len(t)) /\ t[d.next] = Url!Percent
  <2> DEFINE a == t[d.next + 1]
             b == t[d.next + 2]
             r == Url!ReadHex(a, b)
  <2>1. CASE d.next + 2 <= Len(t) /\ r # <<>>
    <3>1. a \in Int /\ b \in Int
      BY <1>1, <1>2, <2>1
    <3>2. r \in Seq(Int)
      <4> HIDE DEF a, b
      <4>1. Url!HexValue(a) \in Int /\ Url!HexValue(b) \in Int
        BY <3>1 DEF Url!HexValue
      <4>2. /\ 16 * Url!HexValue(a) + Url!HexValue(b) \in Int
            /\ (256 - Url!HexValue(b)) % 256 \in Int
        BY <4>1
      <4>3. \A i \in Int : <<i>> \in Seq(Int)
        OBVIOUS
      <4>4. \/ r = <<16 * Url!HexValue(a) + Url!HexValue(b)>>
            \/ r = <<Url!HexValue(a)>> \/ r = <<Url!HexValue(b)>>
            \/ r = <<(256 - Url!HexValue(b)) % 256>> \/ r = <<>>
        BY DEF Url!ReadHex
      <4> QED
        BY <2>1, <4>1, <4>2, <4>3, <4>4
    <3>3. d.out \o r \in Seq(Int)
      BY <1>1, <3>2, ConcatProperties
    <3>4. Url!Decoded(d, t) = [d EXCEPT !.next = @ + 3, !.out = @ \o r]
      BY <1>5, <2>1 DEF Url!Decoded
    <3>5. d.next + 3 \in Nat \ {0}
      BY <1>1
    <3> HIDE DEF r
    <3>6. Url!Decoded(d, t) = [next |-> d.next + 3, ok |-> d.ok, out |-> d.out \o r]
      BY <1>6, <3>4
    <3> QED
      BY <1>1, <3>3, <3>5, <3>6 DEF Decodings
  <2>2. CASE ~(d.next + 2 <= Len(t) /\ r # <<>>)
    <3>1. Url!Decoded(d, t) = [d EXCEPT !.ok = FALSE]
      BY <1>5, <2>2 DEF Url!Decoded
    <3>2. Url!Decoded(d, t) = [next |-> d.next, ok |-> FALSE, out |-> d.out]
      BY <1>6, <3>1
    <3> QED
      BY <1>1, <3>2 DEF Decodings
  <2> QED
    BY <2>1, <2>2
<1> QED
  BY <1>3, <1>4, <1>5

\* UrlDecode is the end of as many rounds as there are characters.
LEMMA DecodeIsDecoding ==
  ASSUME NEW t \in Seq(Byte)
  PROVE  \E f : /\ IsDecoding(f, t)
                /\ Url!UrlDecode(t) = [ok |-> f[Len(t)].ok, out |-> f[Len(t)].out]
<1> DEFINE N == Len(t)
           step == [x \in (1..N) \X Decodings |-> Url!Decoded(x[2], t)]
<1>1. N \in Nat
  BY LenProperties
<1>2. \A d \in Decodings : Url!Decoded(d, t) \in Decodings
  BY DecodedIsDecoding
<1>3. Begun \in Decodings
  <2>1. <<>> \in Seq(Int)
    BY EmptySeq
  <2> QED
    BY <2>1 DEF Begun, Decodings
<1> HIDE DEF N
<1>5. step \in [(1..N) \X Decodings -> Decodings]
  <2>1. \A x \in (1..N) \X Decodings : x[2] \in Decodings
    OBVIOUS
  <2> QED
    BY <1>2, <2>1
<1>6. \A n \in 1..N : \A d \in Decodings : step[<<n, d>>] = Url!Decoded(d, t)
  OBVIOUS
<1> HIDE DEF step
<1>7. PICK f : Recurses(f, Decodings, Begun, N, step)
  BY <1>1, <1>3, <1>5, Recursion
<1> DEFINE G(g) == [n \in 0..N |-> IF n = 0 THEN [next |-> 1, ok |-> TRUE, out |-> <<>>]
                                   ELSE Url!Decoded(g[n - 1], t)]
<1>8. f = G(f)
  <2>1. ASSUME NEW n \in 0..N
        PROVE  f[n] = G(f)[n]
    <3>1. CASE n = 0
      BY <1>7, <3>1 DEF Recurses, Begun
    <3>2. CASE n # 0
      <4>1. n \in 1..N /\ n - 1 \in 0..N
        BY <1>1, <3>2
      <4>2. f[n - 1] \in Decodings /\ f[n] = step[<<n, f[n - 1]>>]
        BY <1>7, <4>1 DEF Recurses
      <4> QED
        BY <1>6, <3>2, <4>1, <4>2
    <3> QED
      BY <3>1, <3>2
  <2>2. f \in [0..N -> Decodings]
    BY <1>7 DEF Recurses
  <2> QED
    BY <2>1, <2>2
<1> DEFINE h == CHOOSE g : g = G(g)
<1>9. h = G(h)
  <2> HIDE DEF G
  <2> QED
    BY <1>8
<1>10. Url!UrlDecode(t) = [ok |-> h[N].ok, out |-> h[N].out]
  BY DEF Url!UrlDecode, N
<1> HIDE DEF h
<1>11. h[0] = Begun
  BY <1>1, <1>9 DEF Begun
<1>12. ASSUME NEW n \in 1..N
       PROVE  h[n] = Url!Decoded(h[n - 1], t)
  <2>1. n \in 0..N /\ n # 0
    BY <1>1
  <2>2. h[n] = G(h)[n]
    <3> HIDE DEF G
    <3> QED
      BY <1>9
  <2> QED
    BY <2>1, <2>2
<1> QED
  BY <1>10, <1>11, <1>12 DEF IsDecoding, N

\* One round takes back what one character was encoded to.
LEMMA DecodeChar ==
  ASSUME NEW s \in Seq(Byte), NEW c \in Byte, c # Url!Percent,
         NEW e \in Seq(Byte), NEW rest \in Seq(Byte)
  PROVE  Url!Decoded([next |-> Len(e) + 1, ok |-> TRUE, out |-> s],
                     e \o (Url!Encoded(c) \o rest))
           = [next |-> Len(e \o Url!Encoded(c)) + 1, ok |-> TRUE, out |-> Append(s, c)]
<1> DEFINE x == Url!Encoded(c)
           u == x \o rest
           t == e \o u
           n == Len(e) + 1
           d == [next |-> n, ok |-> TRUE, out |-> s]
<1>1. /\ x \in Seq(Byte)
      /\ c \in Url!Reserved => /\ Len(x) = 3 /\ x[1] = Url!Percent
                               /\ Url!ReadHex(x[2], x[3]) = <<c>>
      /\ c \notin Url!Reserved => Len(x) = 1 /\ x[1] = c
  BY EncodedChar
<1>2. Len(e) \in Nat /\ Len(rest) \in Nat
  BY LenProperties
<1> HIDE DEF x
<1>3. /\ u \in Seq(Byte) /\ Len(u) = Len(x) + Len(rest)
      /\ \A i \in 1..(Len(x) + Len(rest)) : u[i] = IF i <= Len(x) THEN x[i] ELSE rest[i - Len(x)]
  BY <1>1, ConcatProperties
<1>4. u \in Seq(Byte)
  BY <1>3
<1> HIDE DEF u
<1>5. /\ Len(t) = Len(e) + Len(u)
      /\ \A i \in 1..(Len(e) + Len(u)) : t[i] = IF i <= Len(e) THEN e[i] ELSE u[i - Len(e)]
  BY <1>4, ConcatProperties
<1>6. Len(e \o x) = Len(e) + Len(x)
  BY <1>1, ConcatProperties
<1>7. Len(x) = 1 \/ Len(x) = 3
  BY <1>1
<1> HIDE DEF t
<1>8. Len(t) = Len(e) + Len(x) + Len(rest)
  BY <1>2, <1>3, <1>5, <1>7
<1>9. ASSUME NEW i \in 1..Len(x)
      PROVE  t[Len(e) + i] = x[i]
  <2>1. /\ Len(e) + i \in 1..(Len(e) + Len(u)) /\ ~(Len(e) + i <= Len(e))
        /\ (Len(e) + i) - Len(e) = i /\ i \in 1..(Len(x) + Len(rest)) /\ i <= Len(x)
    BY <1>2, <1>3, <1>7
  <2>2. t[Len(e) + i] = u[i]
    BY <1>5, <2>1
  <2> QED
    BY <1>3, <2>1, <2>2
<1>10. ~(n > Len(t))
  <2> HIDE DEF d
  <2>0. Len(x) \in Nat
    BY <1>1, LenProperties
  <2>1. n \in Nat /\ Len(x) \in Nat /\ Len(x) >= 1 /\ n = Len(e) + 1
    <3>1. \A m \in Nat : m = 1 \/ m = 3 => m >= 1
      OBVIOUS
    <3>2. Len(x) >= 1
      BY <1>7, <2>0, <3>1, Zenon
    <3>3. n \in Nat
      BY <1>2
    <3> QED
      BY <2>0, <3>2, <3>3
  <2>2. Len(t) >= n
    BY <1>2, <1>8, <2>1
  <2>3. Len(t) \in Nat
    BY <1>2, <1>8, <2>1
  <2> HIDE DEF n
  <2> QED
    BY <2>1, <2>2, <2>3
<1>13. d.next = n /\ d.ok = TRUE /\ d.out = s
  OBVIOUS
<1>11. CASE c \in Url!Reserved
  <2>1. /\ Len(x) = 3 /\ t[n] = Url!Percent /\ t[n + 1] = x[2] /\ t[n + 2] = x[3]
        /\ n + 2 <= Len(t)
    <3>1. Len(x) = 3 /\ x[1] = Url!Percent
      BY <1>1, <1>11
    <3>2. t[Len(e) + 1] = x[1] /\ t[Len(e) + 2] = x[2] /\ t[Len(e) + 3] = x[3]
      BY <1>9, <3>1
    <3>3. n + 1 = Len(e) + 2 /\ n + 2 = Len(e) + 3 /\ n + 2 <= Len(t)
      BY <1>2, <1>8, <3>1
    <3> HIDE DEF n
    <3> QED
      BY <3>1, <3>2, <3>3 DEF n
  <2>2. Url!ReadHex(t[n + 1], t[n + 2]) = <<c>> /\ <<c>> # <<>>
    BY <1>1, <1>11, <2>1
  <2> HIDE DEF d, n
  <2>3. Url!Decoded(d, t) = [d EXCEPT !.next = @ + 3, !.out = @ \o <<c>>]
    BY <1>10, <1>13, <2>1, <2>2 DEF Url!Decoded
  <2>4. s \o <<c>> = Append(s, c)
    BY AppendIsConcat
  <2>5. Url!Decoded(d, t) = [next |-> n + 3, ok |-> TRUE, out |-> Append(s, c)]
    BY <2>3, <2>4 DEF d
  <2>6. n + 3 = Len(e \o x) + 1
    BY <1>2, <1>6, <2>1 DEF n
  <2> QED
    BY <2>5, <2>6 DEF d, n, t, u, x
<1>12. CASE c \notin Url!Reserved
  <2>1. Len(x) = 1 /\ t[n] = c
    <3>1. Len(x) = 1 /\ x[1] = c
      BY <1>1, <1>12
    <3>2. t[Len(e) + 1] = x[1]
      BY <1>9, <3>1
    <3> QED
      BY <3>1, <3>2
  <2>2. c # Url!Plus
    BY <1>12 DEF Url!Reserved, Url!Plus
  <2> HIDE DEF d, n
  <2>3. Url!Decoded(d, t) = [d EXCEPT !.next = @ + 1, !.out = Append(@, c)]
    BY <1>10, <1>13, <2>1, <2>2 DEF Url!Decoded
  <2>5. Url!Decoded(d, t) = [next |-> n + 1, ok |-> TRUE, out |-> Append(s, c)]
    BY <2>3 DEF d
  <2>6. n + 1 = Len(e \o x) + 1
    BY <1>2, <1>6, <2>1 DEF n
  <2> QED
    BY <2>5, <2>6 DEF d, n, t, u, x
<1> QED
  BY <1>11, <1>12

\* Concatenation is associative.
LEMMA ConcatThree ==
  \A s, t, u \in Seq(Byte) : (s \o t) \o u = s \o (t \o u)
BY ConcatAssociative

\* As many rounds as there are characters take back what they were encoded to.
LEMMA DecodeRounds ==
  ASSUME NEW s \in Seq(Byte \ {Url!Percent}), NEW rest \in Seq(Byte), NEW f,
         IsDecoding(f, Url!UrlEncode(s) \o rest)
  PROVE  /\ Len(s) <= Len(Url!UrlEncode(s))
         /\ f[Len(s)] = [next |-> Len(Url!UrlEncode(s)) + 1, ok |-> TRUE, out |-> s]
<1> DEFINE C == Byte \ {Url!Percent}
           Good(u) == /\ Len(u) <= Len(Url!UrlEncode(u))
                      /\ \A r \in Seq(Byte) : \A g : IsDecoding(g, Url!UrlEncode(u) \o r) =>
                           g[Len(u)] = [next |-> Len(Url!UrlEncode(u)) + 1,
                                        ok |-> TRUE, out |-> u]
           T == {u \in Seq(C) : Good(u)}
<1>1. <<>> \in T
  <2>1. <<>> \in Seq(C) /\ Len(<<>>) = 0
    BY EmptySeq
  <2> HIDE DEF C
  <2>2. ASSUME NEW r \in Seq(Byte), NEW g, IsDecoding(g, Url!UrlEncode(<<>>) \o r)
        PROVE  g[0] = [next |-> 0 + 1, ok |-> TRUE, out |-> <<>>]
    BY <2>2 DEF IsDecoding, Begun
  <2>3. Len(Url!UrlEncode(<<>>)) = 0
    BY <2>1, EncodeAppend
  <2>4. Good(<<>>)
    <3>1. Len(<<>>) <= Len(Url!UrlEncode(<<>>))
      BY <2>1, <2>3
    <3>2. \A r \in Seq(Byte) : \A g : IsDecoding(g, Url!UrlEncode(<<>>) \o r) =>
            g[Len(<<>>)] = [next |-> Len(Url!UrlEncode(<<>>)) + 1, ok |-> TRUE, out |-> <<>>]
      BY <2>1, <2>2, <2>3
    <3> QED
      BY <3>1, <3>2, Zenon
  <2> HIDE DEF Good
  <2> QED
    BY <2>1, <2>4
<1>2. ASSUME NEW u \in T, NEW c \in C
      PROVE  Append(u, c) \in T
  <2> DEFINE e == Url!UrlEncode(u)
             x == Url!Encoded(c)
             v == Append(u, c)
  <2>1. /\ u \in Seq(Byte) /\ c \in Byte /\ c # Url!Percent
        /\ v \in Seq(C) /\ Len(v) = Len(u) + 1 /\ Len(u) \in Nat
    <3>1. u \in Seq(C)
      OBVIOUS
    <3>2. u \in Seq(Byte)
      BY <3>1
    <3> HIDE DEF C
    <3>3. v \in Seq(C) /\ Len(v) = Len(u) + 1 /\ Len(u) \in Nat
      BY <3>1, AppendProperties, LenProperties
    <3> QED
      BY <3>2, <3>3 DEF C
  <2>2. e \in Seq(Byte) /\ x \in Seq(Byte) /\ Url!UrlEncode(v) = e \o x
    BY <2>1, EncodeAppend, EncodedChar
  <2>3. Good(u)
    OBVIOUS
  <2>4. /\ Len(e) \in Nat /\ Len(x) \in Nat \ {0} /\ Len(e \o x) = Len(e) + Len(x)
    <3>1. Len(x) = 1 \/ Len(x) = 3
      BY <2>1, EncodedChar
    <3>2. Len(e) \in Nat /\ Len(e \o x) = Len(e) + Len(x)
      <4> HIDE DEF e, x
      <4> QED
        BY <2>2, LenProperties, ConcatProperties
    <3>3. Len(x) \in Nat \ {0}
      <4> HIDE DEF x
      <4>1. Len(x) \in Nat
        BY <2>2, LenProperties
      <4> HIDE DEF T, Good, C
      <4>2. \A n \in Nat : n = 1 \/ n = 3 => n \in Nat \ {0}
        OBVIOUS
      <4> QED
        BY <3>1, <4>1, <4>2, Zenon
    <3> QED
      BY <3>2, <3>3, Zenon
  <2>8. e \in Seq(Byte) /\ x \in Seq(Byte)
    BY <2>2
  <2>5. ASSUME NEW r \in Seq(Byte), NEW g, IsDecoding(g, (e \o x) \o r)
        PROVE  g[Len(v)] = [next |-> Len(e \o x) + 1, ok |-> TRUE, out |-> v]
    <3> DEFINE t == e \o (x \o r)
    <3>1. (e \o x) \o r = t
      <4>1. r \in Seq(Byte)
        OBVIOUS
      <4> HIDE DEF e, x, T, Good, C
      <4> QED
        BY <2>8, <4>1, ConcatThree
    <3>2. x \o r \in Seq(Byte)
      <4> HIDE DEF x
      <4> QED
        BY <2>2, ConcatProperties
    <3>3. g[Len(u)] = [next |-> Len(e) + 1, ok |-> TRUE, out |-> u]
      BY <2>3, <2>5, <3>1, <3>2
    <3>4. Len(u) + 1 \in 1..Len(t)
      <4>1. Len(t) = Len(e) + Len(x) + Len(r) /\ Len(r) \in Nat
        <5> HIDE DEF e, x
        <5>1. Len(x \o r) = Len(x) + Len(r) /\ Len(r) \in Nat
          BY <2>2, ConcatProperties, LenProperties
        <5>2. Len(t) = Len(e) + Len(x \o r)
          BY <2>2, <3>2, ConcatProperties
        <5> QED
          BY <2>4, <5>1, <5>2
      <4>2. Len(u) <= Len(e)
        BY <2>3
      <4> HIDE DEF t, e, x
      <4> QED
        BY <2>1, <2>4, <4>1, <4>2
    <3>5. g[Len(u) + 1] = Url!Decoded(g[Len(u)], t)
      <4>1. (Len(u) + 1) - 1 = Len(u)
        BY <2>1
      <4> HIDE DEF t
      <4> QED
        BY <2>5, <3>1, <3>4, <4>1 DEF IsDecoding
    <3>6. Url!Decoded([next |-> Len(e) + 1, ok |-> TRUE, out |-> u], t)
            = [next |-> Len(e \o x) + 1, ok |-> TRUE, out |-> v]
      BY <2>1, <2>2, DecodeChar
    <3> HIDE DEF t, e, x
    <3> QED
      BY <2>1, <3>3, <3>5, <3>6
  <2>6. Len(v) <= Len(e \o x)
    <3>1. Len(u) <= Len(e)
      BY <2>3
    <3> HIDE DEF e, x, v
    <3> QED
      BY <2>1, <2>4, <3>1
  <2> HIDE DEF e, x
  <2>7. Good(v)
    BY <2>2, <2>5, <2>6
  <2> HIDE DEF Good
  <2> QED
    BY <2>1, <2>7
<1>3. T \in SUBSET Seq(C)
  OBVIOUS
<1>4. T = Seq(C)
  <2> HIDE DEF T, C
  <2> QED
    BY <1>1, <1>2, <1>3, SeqInduction
<1> QED
  BY <1>4

\* The rounds after the last character change nothing.
LEMMA NameIsDecoded ==
  ASSUME NEW s \in Seq(Byte \ {Url!Percent})
  PROVE  Url!UrlDecode(Url!UrlEncode(s)) = [ok |-> TRUE, out |-> s]
<1> DEFINE t == Url!UrlEncode(s)
           D == [next |-> Len(t) + 1, ok |-> TRUE, out |-> s]
<1>1. s \in Seq(Byte)
  OBVIOUS
<1>2. t \in Seq(Byte) /\ Len(t) \in Nat /\ Len(s) \in Nat
  BY <1>1, EncodeAppend, LenProperties
<1>3. PICK f : /\ IsDecoding(f, t)
               /\ Url!UrlDecode(t) = [ok |-> f[Len(t)].ok, out |-> f[Len(t)].out]
  BY <1>2, DecodeIsDecoding
<1>4. Len(s) <= Len(t) /\ f[Len(s)] = D
  <2>1. t \o <<>> = t /\ <<>> \in Seq(Byte)
    BY <1>2, ConcatEmptySeq, EmptySeq
  <2> QED
    BY <1>3, <2>1, DecodeRounds
<1> HIDE DEF t
<1> DEFINE T == {n \in Nat : n + Len(s) <= Len(t) => f[n + Len(s)] = D}
<1>5. 0 \in T
  BY <1>2, <1>4
<1>6. ASSUME NEW n \in T
      PROVE  n + 1 \in T
  <2> HIDE DEF D
  <2> SUFFICES ASSUME (n + 1) + Len(s) <= Len(t)
               PROVE  f[(n + 1) + Len(s)] = D
    OBVIOUS
  <2>0. n \in Nat
    OBVIOUS
  <2>1. f[n + Len(s)] = D
    BY <1>2, <2>0
  <2>2. (n + 1) + Len(s) \in 1..Len(t) /\ ((n + 1) + Len(s)) - 1 = n + Len(s)
    BY <1>2, <2>0
  <2>3. f[(n + 1) + Len(s)] = Url!Decoded(D, t)
    BY <1>3, <2>1, <2>2 DEF IsDecoding
  <2>4. Url!Decoded(D, t) = D
    BY <1>2 DEF Url!Decoded, D
  <2> QED
    BY <2>3, <2>4
<1>7. T = Nat
  <2> HIDE DEF T
  <2>1. T \in SUBSET Nat
    BY DEF T
  <2> QED
    BY <1>5, <1>6, <2>1, Induction
<1>8. f[Len(t)] = D
  <2>1. Len(t) - Len(s) \in Nat /\ (Len(t) - Len(s)) + Len(s) = Len(t)
    BY <1>2, <1>4
  <2>2. Len(t) - Len(s) \in T
    BY <1>7, <2>1
  <2> HIDE DEF D
  <2> QED
    BY <1>2, <2>1, <2>2
<1> QED
  BY <1>3, <1>8 DEF t

(***************************************************************************)
(* The invariant.  While the parser reads, its state tells what it has     *)
(* read, and what it has extracted was made of names it had completed.     *)
(***************************************************************************)
IInv ==
  /\ seen \in Seq(Chars)
  /\ phase \in {"reading", "complete", "extracted"}
  /\ phase = "reading"   => Well(parser) /\ Tracks(parser, seen)
  /\ phase = "complete"  => Done(parser) /\ AreNamesOf(NamesRead(parser), seen)
  /\ phase = "extracted" => parser \in Parsers /\ parser.path \in Seq(Components)
  /\ \E q : Done(q) /\ result = Extracted(q)

\* The empty path is what a parser with no names makes.
LEMMA NoPathIsMade == Done(Fresh) /\ NoPath = Extracted(Fresh)
BY FreshIsWell DEF Well, Done, NoPath, Extracted

\* The invariant holds at the start.
LEMMA InitIInv == Init => IInv
<1> SUFFICES ASSUME Init
             PROVE  IInv
  OBVIOUS
<1>1. parser = Fresh /\ seen = <<>> /\ phase = "reading" /\ result = NoPath
  BY DEF Init
<1>2. seen \in Seq(Chars)
  BY <1>1, EmptySeq
<1>3. Well(parser) /\ Tracks(parser, seen)
  BY <1>1, FreshIsWell, FreshTracks
<1>4. Done(Fresh) /\ result = Extracted(Fresh)
  BY <1>1, NoPathIsMade
<1> QED
  BY <1>1, <1>2, <1>3, <1>4 DEF IInv

\* Every step keeps the invariant.
LEMMA NextIInv == IInv /\ [Next]_vars => IInv'
<1> SUFFICES ASSUME IInv, [Next]_vars
             PROVE  IInv'
  OBVIOUS
<1>1. ASSUME NEW c \in Chars, ReadChar(c)
      PROVE  IInv'
  <2>1. /\ phase = "reading" /\ phase' = "reading" /\ result' = result
        /\ parser' = ParseChar(parser, c) /\ seen' = Append(seen, c)
    BY <1>1 DEF ReadChar
  <2>2. /\ Well(parser) /\ Tracks(parser, seen) /\ seen \in Seq(Chars)
        /\ \E q : Done(q) /\ result = Extracted(q)
    BY <2>1 DEF IInv
  <2>3. seen' \in Seq(Chars)
    BY <2>1, <2>2, AppendProperties
  <2>4. Well(parser') /\ Tracks(parser', seen')
    BY <2>1, <2>2, ParseKeepsWell, ParseTracks DEF Read
  <2>5. \E q : Done(q) /\ result' = Extracted(q)
    BY <2>1, <2>2
  <2> QED
    BY <2>1, <2>3, <2>4, <2>5 DEF IInv
<1>2. CASE ParseComplete
  <2>1. /\ phase = "reading" /\ phase' = "complete"
        /\ parser' = Complete(parser) /\ seen' = seen /\ result' = result
    BY <1>2 DEF ParseComplete
  <2>2. /\ Well(parser) /\ Tracks(parser, seen) /\ seen \in Seq(Chars)
        /\ \E q : Done(q) /\ result = Extracted(q)
    BY <2>1 DEF IInv
  <2>3. Done(parser') /\ AreNamesOf(NamesRead(parser'), seen')
    BY <2>1, <2>2, CompleteIsDone DEF Tracks
  <2> QED
    BY <2>1, <2>2, <2>3 DEF IInv
<1>3. CASE ExtractPath
  <2> DEFINE rest == IF parser.path = <<>> THEN parser.path ELSE Front(parser.path)
  <2>1. /\ phase = "complete" /\ phase' = "extracted" /\ seen' = seen
        /\ result' = Extracted(parser)
        /\ parser' = [parser EXCEPT !.owner = <<>>, !.wsname = <<>>, !.path = rest]
    BY <1>3 DEF ExtractPath
  <2>2. Done(parser) /\ seen \in Seq(Chars)
    BY <2>1 DEF IInv
  <2>3. rest \in Seq(Components) /\ rest \in Seq(Names) /\ <<>> \in Names
    BY <2>2, FrontIsSeq, EmptySeq DEF Done, Parsers, Names
  <2> HIDE DEF rest
  <2>4. parser' \in Parsers /\ parser'.path = rest
    BY <2>1, <2>2, <2>3 DEF Done, Parsers
  <2> QED
    BY <2>1, <2>2, <2>3, <2>4 DEF IInv
<1>4. CASE InitParse
  <2>1. parser' = Fresh /\ seen' = <<>> /\ phase' = "reading" /\ result' = NoPath
    BY <1>4 DEF InitParse
  <2>2. seen' \in Seq(Chars)
    BY <2>1, EmptySeq
  <2>3. Well(parser') /\ Tracks(parser', seen')
    BY <2>1, FreshIsWell, FreshTracks
  <2>4. Done(Fresh) /\ result' = Extracted(Fresh)
    BY <2>1, NoPathIsMade
  <2> QED
    BY <2>1, <2>2, <2>3, <2>4 DEF IInv
<1>5. CASE UNCHANGED vars
  BY <1>5 DEF vars, IInv
<1> QED
  BY <1>1, <1>2, <1>3, <1>4, <1>5 DEF Next

\* The invariant always holds.
LEMMA Invariance == Spec => []IInv
BY InitIInv, NextIInv, PTL DEF Spec

(***************************************************************************)
(* The theorems.                                                           *)
(***************************************************************************)

\* The variables keep their types: no member of the parser has a slash in it.
THEOREM TypeCorrect == Spec => []TypeOK
<1>1. IInv => TypeOK
  <2> SUFFICES ASSUME IInv
               PROVE  TypeOK
    OBVIOUS
  <2>1. parser \in Parsers
    BY DEF IInv, Well, Done
  <2>2. result \in Paths
    BY ExtractedIsPath DEF IInv
  <2> QED
    BY <2>1, <2>2 DEF IInv, TypeOK
<1> QED
  BY <1>1, Invariance, PTL

\* Every path the parser makes is canonical (the comment at WSPath::path).
THEOREM PathsAreCanonical == Spec => []Canonical
<1>1. IInv => Canonical
  <2>1. ASSUME Well(parser)
        PROVE  Canonical
    BY <2>1 DEF Well, Canonical, Parsers, States
  <2>2. ASSUME Done(parser)
        PROVE  Canonical
    BY <2>2 DEF Done, Canonical
  <2>3. ASSUME phase = "extracted", parser.path \in Seq(Components)
        PROVE  Canonical
    BY <2>3 DEF Canonical
  <2> QED
    BY <2>1, <2>2, <2>3 DEF IInv
<1> QED
  BY <1>1, Invariance, PTL

\* At every character the parser has the names of what it has read, those that
\* the positions of the slashes give, in their order (parse_char,
\* parse_complete, init_parse).
THEOREM NamesAreThoseOfTheText == Spec => []PrefixIsParsed
<1>1. IInv => PrefixIsParsed
  BY DEF IInv, Tracks, PrefixIsParsed
<1> QED
  BY <1>1, Invariance, PTL

\* What extract_path makes is parsed to itself, whatever was read: a path that
\* is answered can be asked for.
THEOREM PathsAreReadToThemselves == Spec => []CanonicalText
<1>1. IInv => CanonicalText
  <2> SUFFICES ASSUME IInv
               PROVE  CanonicalText
    OBVIOUS
  <2>1. PICK q : Done(q) /\ result = Extracted(q)
    BY DEF IInv
  <2>2. result.path # <<>> => result.path[1] # Slash /\ Last(result.path) # Slash
    BY <2>1, ExtractedIsPath
  <2>3. Extracted(Parse(<<Slash>> \o result.owner \o <<Slash>> \o result.wsname
                        \o <<Slash>> \o FullPath(result))) = result
    BY <2>1, PathIsReadToItself
  <2> QED
    BY <2>2, <2>3 DEF CanonicalText
<1> QED
  BY <1>1, Invariance, PTL

\* url_decode takes back what url_encode has done to a name of any characters
\* but "%", of any length.
THEOREM NamesAreDecoded == Spec => []UrlNameIsDecoded
<1>1. TypeOK => UrlNameIsDecoded
  <2> SUFFICES ASSUME TypeOK, Url!Percent \notin Range(seen)
               PROVE  Url!UrlDecode(Url!UrlEncode(seen)) = [ok |-> TRUE, out |-> seen]
    BY DEF UrlNameIsDecoded
  <2>1. seen \in Seq(Chars)
    BY DEF TypeOK
  <2>2. /\ Len(seen) \in Nat /\ DOMAIN seen = 1..Len(seen)
        /\ \A i \in 1..Len(seen) : seen[i] \in Chars
    BY <2>1, LenProperties, ElementOfSeq
  <2>3. \A i \in 1..Len(seen) : seen[i] \in Byte \ {Url!Percent}
    BY <2>2, CharsAssumption DEF Range, Byte
  <2>4. seen \in Seq(Byte \ {Url!Percent})
    <3>1. seen = [i \in 1..Len(seen) |-> seen[i]]
      BY <2>1, <2>2, LenProperties
    <3>2. [i \in 1..Len(seen) |-> seen[i]] \in Seq(Byte \ {Url!Percent})
      BY <2>2, <2>3
    <3> QED
      BY <3>1, <3>2
  <2> QED
    BY <2>4, NameIsDecoded
<1> QED
  BY <1>1, TypeCorrect, PTL
=============================================================================
