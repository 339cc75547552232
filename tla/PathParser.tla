----------------------------- MODULE PathParser -----------------------------
(***************************************************************************)
(* WSPathParser (PathParser.h): the state machine that makes a WSPath of   *)
(* the text a request has, one character at a time.  A character is its    *)
(* code, and a name a sequence of characters.                              *)
(*                                                                         *)
(* WSPath (WorkspaceTypes.h) says that paths are canonical, and all the    *)
(* look-ups by path and name rely on that.                                 *)
(***************************************************************************)
EXTENDS Naturals, FiniteSets, SequencesExt

CONSTANTS
  Chars,      \* what is read
  MaxLength   \* bound on the length of the text

ASSUME CharsAssumption == Chars \subseteq 0..255
ASSUME LengthAssumption == MaxLength \in Nat

VARIABLES
  parser,   \* the members of the WSPathParser
  seen,     \* history: what has been read since init_parse
  phase,    \* "reading", "complete" or, after extract_path, "extracted"
  result    \* the WSPath made of it

vars == <<parser, seen, phase, result>>

Url == INSTANCE UrlCoding

Slash == 47
Hex   == (48..57) \union (65..70) \union (97..102)

States == {"start", "uuid", "owner_start", "owner", "wsname_start", "wsname",
           "path_start", "path"}

Texts == Seq(Chars \union {Slash})
\* What has no slash, and what a component of a path is to be.
Names      == Seq(Chars \ {Slash})
Components == Names \ {<<>>}

Parsers == [state : States, owner : Names, wsname : Names,
            path : Seq(Names), component : Names]
Paths   == [owner : Texts, wsname : Texts, path : Texts, name : Texts]

Fresh == [state |-> "start", owner |-> <<>>, wsname |-> <<>>,
          path |-> <<>>, component |-> <<>>]
NoPath == [owner |-> <<>>, wsname |-> <<>>, path |-> <<>>, name |-> <<>>]

TypeOK ==
  /\ parser \in Parsers
  /\ seen \in Seq(Chars)
  /\ phase \in {"reading", "complete", "extracted"}
  /\ result \in Paths

Init ==
  /\ parser = Fresh
  /\ seen = <<>>
  /\ phase = "reading"
  /\ result = NoPath

(***************************************************************************)
(* parse_char.  What comes before the first slash is skipped, unless it    *)
(* begins a uuid: that state is never left.                                *)
(***************************************************************************)
AfterSlash ==
  [start        |-> "owner_start",  uuid       |-> "uuid",
   owner_start  |-> "owner_start",  owner      |-> "wsname_start",
   wsname_start |-> "wsname_start", wsname     |-> "path_start",
   path_start   |-> "path_start",   path       |-> "path_start"]

AfterChar(c) ==
  [start        |-> IF c \in Hex THEN "uuid" ELSE "start",
   uuid         |-> "uuid",
   owner_start  |-> "owner",  owner  |-> "owner",
   wsname_start |-> "wsname", wsname |-> "wsname",
   path_start   |-> "path",   path   |-> "path"]

\* path_.emplace_back(std::move(path_component_))
Pushed(p) == [p EXCEPT !.path = Append(@, p.component), !.component = <<>>]

\* Variant of OnSlash: every slash ends a component.
OnSlashAlwaysPushes(p) ==
  [(IF p.state \in {"path", "path_start"} THEN Pushed(p) ELSE p)
     EXCEPT !.state = AfterSlash[p.state]]

OnSlash(p) ==
  [(IF p.state = "path" THEN Pushed(p) ELSE p) EXCEPT !.state = AfterSlash[p.state]]

OnChar(p, c) ==
  LET s == AfterChar(c)[p.state] IN
  [p EXCEPT !.state = s,
            !.owner     = IF s = "owner"  THEN Append(@, c) ELSE @,
            !.wsname    = IF s = "wsname" THEN Append(@, c) ELSE @,
            !.component = IF s = "path"   THEN Append(@, c) ELSE @]

\* Variant of ParseChar: what follows the workspace is not split.
ParseCharInOne(p, c) ==
  IF c = Slash /\ p.state # "path" THEN OnSlash(p) ELSE OnChar(p, c)

ParseChar(p, c) == IF c = Slash THEN OnSlash(p) ELSE OnChar(p, c)

\* parse_complete: the last component of a path has no slash after it.
Complete(p) == IF p.state = "path" THEN Pushed(p) ELSE p

\* The parser p after the characters of a text.
After(p, text) ==
  LET at[n \in 0..Len(text)] == IF n = 0 THEN p ELSE ParseChar(at[n - 1], text[n])
  IN  at[Len(text)]

Parse(text) == Complete(After(Fresh, text))

(***************************************************************************)
(* extract_path: the last component is the name, the others are joined.    *)
(***************************************************************************)
\* Variant of Joined: a slash before each name.
JoinedLeading(names) ==
  LET upto[n \in 0..Len(names)] ==
        IF n = 0 THEN <<>> ELSE upto[n - 1] \o <<Slash>> \o names[n]
  IN  upto[Len(names)]

Joined(names) ==
  LET upto[n \in 0..(Len(names) - 1)] ==
        IF n = 0 THEN names[1] ELSE upto[n - 1] \o <<Slash>> \o names[n + 1]
  IN  IF names = <<>> THEN <<>> ELSE upto[Len(names) - 1]

Extracted(p) ==
  [owner |-> p.owner, wsname |-> p.wsname,
   path |-> IF p.path = <<>> THEN <<>> ELSE Joined(Front(p.path)),
   name |-> IF p.path = <<>> THEN <<>> ELSE Last(p.path)]

\* WSPath::full_path.
FullPath(w) == IF w.path = <<>> THEN w.name ELSE w.path \o <<Slash>> \o w.name

(***************************************************************************)
(* The parser at work.  The same parser can be used again.                 *)
(***************************************************************************)
ReadChar(c) ==
  /\ phase = "reading"
  /\ Len(seen) < MaxLength
  /\ parser' = ParseChar(parser, c)
  /\ seen' = Append(seen, c)
  /\ UNCHANGED <<phase, result>>

ParseComplete ==
  /\ phase = "reading"
  /\ parser' = Complete(parser)
  /\ phase' = "complete"
  /\ UNCHANGED <<seen, result>>

\* The strings of the workspace are moved out, and the name is taken off.
ExtractPath ==
  /\ phase = "complete"
  /\ result' = Extracted(parser)
  /\ parser' = [parser EXCEPT !.owner = <<>>, !.wsname = <<>>,
                              !.path = IF @ = <<>> THEN @ ELSE Front(@)]
  /\ phase' = "extracted"
  /\ UNCHANGED seen

\* Variant of InitParse: the components of the path before are kept.
InitParseKeepsPath ==
  /\ phase # "reading"
  /\ parser' = [Fresh EXCEPT !.path = parser.path]
  /\ seen' = <<>>
  /\ phase' = "reading"
  /\ result' = NoPath

InitParse ==
  /\ phase # "reading"
  /\ parser' = Fresh
  /\ seen' = <<>>
  /\ phase' = "reading"
  /\ result' = NoPath

Next ==
  \/ \E c \in Chars : ReadChar(c)
  \/ ParseComplete
  \/ ExtractPath
  \/ InitParse

Spec == Init /\ [][Next]_vars

(***************************************************************************)
(* What a path is, without the machine: the names of a text are its        *)
(* longest parts without a slash that follow a slash, unless there is a    *)
(* hexadecimal digit before the first slash.                               *)
(***************************************************************************)
IsUuid(text) ==
  \E i \in DOMAIN text : text[i] \in Hex /\ \A j \in 1..i : text[j] # Slash

Starts(text) == {i \in 2..Len(text) : text[i] # Slash /\ text[i - 1] = Slash}

\* How many names have begun up to position i.
Rank(text, i) == Cardinality({j \in Starts(text) : j <= i})

IsNameAt(name, text, i) ==
  \E j \in i..Len(text) :
    /\ name = SubSeq(text, i, j)
    /\ \A k \in i..j : text[k] # Slash
    /\ j = Len(text) \/ text[j + 1] = Slash

AreNamesOf(names, text) ==
  IF IsUuid(text) THEN names = <<>>
  ELSE /\ Len(names) = Cardinality(Starts(text))
       /\ \A i \in Starts(text) : IsNameAt(names[Rank(text, i)], text, i)

\* The names that a parser has read, without the members it has not begun.
IfBegun(name) == IF name = <<>> THEN <<>> ELSE <<name>>

NamesRead(p) ==
  IfBegun(p.owner) \o IfBegun(p.wsname) \o p.path \o IfBegun(p.component)

(***************************************************************************)
(* Properties.                                                             *)
(***************************************************************************)

\* At every character the parser has the names of what it has read, in their
\* order, and those of no text that it has read before (parse_char,
\* parse_complete, init_parse).
PrefixIsParsed ==
  phase # "extracted" => AreNamesOf(NamesRead(parser), seen)

\* A path is canonical: no component of it is empty or has a slash, and it has
\* components only in a workspace that has an owner and a name (the comment at
\* WSPath::path, WorkspaceTypes.h).
Canonical ==
  /\ parser.path \in Seq(Components)
  /\ phase # "extracted" =>
       /\ parser.component # <<>> => parser.state = "path"
       /\ parser.path # <<>> => parser.wsname # <<>>
       /\ parser.wsname # <<>> => parser.owner # <<>>

\* The path that extract_path makes neither begins nor ends with a slash, and
\* its full_path is parsed to the same path: what is answered can be asked for.
CanonicalText ==
  /\ result.path # <<>> => result.path[1] # Slash /\ Last(result.path) # Slash
  /\ Extracted(Parse(<<Slash>> \o result.owner \o <<Slash>> \o result.wsname
                     \o <<Slash>> \o FullPath(result))) = result

\* The name in a download URL is decoded to the name that was encoded, whatever
\* characters it has but "%" (url_encode leaves that as it is).
UrlNameIsDecoded ==
  Url!Percent \notin Range(seen) =>
    Url!UrlDecode(Url!UrlEncode(seen)) = [ok |-> TRUE, out |-> seen]
=============================================================================
