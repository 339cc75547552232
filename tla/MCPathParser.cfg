SPECIFICATION Spec
CONSTANTS
  Chars <- FourChars
  MaxLength = 9
INVARIANTS
  TypeOK
  PrefixIsParsed
  Canonical
  CanonicalText
  UrlNameIsDecoded
