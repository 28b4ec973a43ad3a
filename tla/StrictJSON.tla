----------------------------- MODULE StrictJSON -----------------------------
(***************************************************************************)
(* The parser for response documents (internal/strictjson/parser.go) as a  *)
(* machine that reads a document one lexeme at a time: the recursive       *)
(* descent of value, object and array with its call stack made explicit.   *)
(*                                                                         *)
(* A string is a name that fits everywhere or "long", too long for a field *)
(* name; the other scalars are "atom" (a number within its limit, true,    *)
(* false or null) and "huge" (a number past its limit, or a string that    *)
(* even as a value is too long); "cut" is a string that breaks off or has  *)
(* an invalid escape, "bad" what begins no lexeme or no valid number.      *)
(***************************************************************************)
EXTENDS Naturals, Sequences, FiniteSets, SequencesExt, FiniteSetsExt

CONSTANTS
  Names,                          \* short strings
  MaxNestingDepth, MaxTokens, MaxMembersPerObject

VARIABLES
  lexemes,                        \* what has been read
  goal,                           \* what the parser looks for next
  nesting,                        \* the open containers, innermost last, each with its keys
  tokens,                         \* s.tokens
  verdict                         \* FailureNone once accepted, or why it was rejected

parserVars == <<lexemes, goal, nesting, tokens, verdict>>

Strings == Names \cup {"long"}
Scalars == Strings \cup {"atom", "huge"}
Lexemes == Scalars \cup {"{", "}", "[", "]", ":", ",", "cut", "bad"}

ParserInit ==
  /\ lexemes = <<>> /\ goal = "value" /\ nesting = <<>> /\ tokens = 0 /\ verdict = "reading"
-----------------------------------------------------------------------------
Inside(bracket) == nesting # <<>> /\ Last(nesting).bracket = bracket

Fail(kind) == verdict' = kind /\ UNCHANGED <<goal, nesting>>

\* token: every lexeme but ':' and ',' counts.
CountToken == tokens' = tokens + 1
TooMany == tokens + 1 > MaxTokens

\* Seeded fault: the limit itself is taken to be too deep.
OpenTooSoon(x) ==
  /\ x \in {"{", "["} /\ goal \in {"value", "first"} /\ CountToken
  /\ IF Len(nesting) + 1 >= MaxNestingDepth \/ TooMany THEN Fail("limit")
     ELSE /\ nesting' = Append(nesting, [bracket |-> x, keys |-> {}])
          /\ goal' = IF x = "{" THEN "firstKey" ELSE "first"
          /\ UNCHANGED verdict

Open(x) ==
  /\ x \in {"{", "["} /\ goal \in {"value", "first"} /\ CountToken
  /\ IF Len(nesting) + 1 > MaxNestingDepth \/ TooMany THEN Fail("limit")
     ELSE /\ nesting' = Append(nesting, [bracket |-> x, keys |-> {}])
          /\ goal' = IF x = "{" THEN "firstKey" ELSE "first"
          /\ UNCHANGED verdict

AfterValue(stack) == IF stack = <<>> THEN "end" ELSE "next"

Close(x) ==
  /\ \/ x = "}" /\ Inside("{") /\ goal \in {"firstKey", "next"}
     \/ x = "]" /\ Inside("[") /\ goal \in {"first", "next"}
  /\ CountToken
  /\ IF TooMany THEN Fail("limit")
     ELSE /\ nesting' = Front(nesting) /\ goal' = AfterValue(Front(nesting))
          /\ UNCHANGED verdict

Scalar(x) ==
  /\ x \in Scalars /\ goal \in {"value", "first"} /\ CountToken
  /\ IF TooMany \/ x = "huge" THEN Fail("limit")
     ELSE goal' = AfterValue(nesting) /\ UNCHANGED <<nesting, verdict>>

\* A duplicate is found before the number of members is looked at.
Key(x) ==
  /\ x \in Strings /\ goal \in {"firstKey", "key"} /\ CountToken
  /\ LET keys == Last(nesting).keys
     IN CASE TooMany \/ x = "long" -> Fail("limit")
          [] ~TooMany /\ x \in keys -> Fail("protocol")
          [] ~TooMany /\ x \in Names \ keys /\ Cardinality(keys) + 1 > MaxMembersPerObject -> Fail("limit")
          [] OTHER -> /\ nesting' = [nesting EXCEPT ![Len(nesting)].keys = @ \cup {x}]
                      /\ goal' = "colon" /\ UNCHANGED verdict

\* A string counts before it is read.
Cut(x) ==
  /\ x = "cut" /\ goal \in {"value", "first", "firstKey", "key"} /\ CountToken
  /\ Fail(IF TooMany THEN "limit" ELSE "protocol")

Colon(x) ==
  /\ x = ":" /\ goal = "colon" /\ goal' = "value"
  /\ UNCHANGED <<nesting, tokens, verdict>>

Comma(x) ==
  /\ x = "," /\ goal = "next"
  /\ goal' = IF Inside("{") THEN "key" ELSE "value"
  /\ UNCHANGED <<nesting, tokens, verdict>>

Expected(x) ==
  CASE goal = "value"    -> x \in Scalars \cup {"cut", "{", "["}
    [] goal = "first"    -> x \in Scalars \cup {"cut", "{", "[", "]"}
    [] goal = "firstKey" -> x \in Strings \cup {"cut", "}"}
    [] goal = "key"      -> x \in Strings \cup {"cut"}
    [] goal = "colon"    -> x = ":"
    [] goal = "next"     -> x \in {",", IF Inside("{") THEN "}" ELSE "]"}
    [] goal = "end"      -> FALSE

Unexpected(x) == ~Expected(x) /\ Fail("protocol") /\ UNCHANGED tokens

Read(x) ==
  /\ verdict = "reading" /\ lexemes' = Append(lexemes, x)
  /\ Open(x) \/ Close(x) \/ Scalar(x) \/ Key(x) \/ Cut(x) \/ Colon(x) \/ Comma(x) \/ Unexpected(x)

\* parse: nothing may follow the value, and nothing of it may be missing.
EndOfDocument ==
  /\ verdict = "reading"
  /\ verdict' = IF goal = "end" THEN "accepted" ELSE "protocol"
  /\ lexemes' = Append(lexemes, "end") /\ UNCHANGED <<goal, nesting, tokens>>

\* As a value a short string is treated like a long one: only the latter is fed in.
Inputs == IF goal \in {"value", "first"} THEN Lexemes \ Names ELSE Lexemes

ParserNext == EndOfDocument \/ \E x \in Inputs : Read(x)

ParserSpec == ParserInit /\ [][ParserNext]_parserVars
-----------------------------------------------------------------------------
(* The reference: the documents of the grammar by their number of tokens,  *)
(* and the limits and the duplicates as measures of a lexeme sequence.     *)

Phrases[kind \in {"value", "elements", "members"}, n \in 0..MaxTokens] ==
  LET Lists(first) ==
        IF n = 0 THEN {<<>>}
        ELSE first[n] \cup UNION {{f \o <<",">> \o rest : f \in first[k], rest \in Phrases[kind, n - k]} :
                                    k \in 1..(n - 1)}
  IN CASE kind = "value" /\ n = 0 -> {}
       [] kind = "value" /\ n = 1 -> {<<"long">>, <<"atom">>}
       [] kind = "value" /\ n > 1 -> {<<"[">> \o e \o <<"]">> : e \in Phrases["elements", n - 2]}
                                       \cup {<<"{">> \o e \o <<"}">> : e \in Phrases["members", n - 2]}
       [] kind = "elements" -> Lists([k \in 1..n |-> Phrases["value", k]])
       [] kind = "members" -> Lists([k \in 1..n |-> {<<x, ":">> \o v : x \in Names, v \in Phrases["value", k - 1]}])

Depth(w, i) ==
  Cardinality({j \in 1..i : w[j] \in {"{", "["}}) - Cardinality({j \in 1..i : w[j] \in {"}", "]"}})

\* The bracket that is open at i, and whether the string at i is a field name.
Enclosing(w, i) == Max({j \in 1..(i - 1) : w[j] \in {"{", "["} /\ \A k \in j..(i - 1) : Depth(w, k) >= Depth(w, j)})
IsKey(w, i) == i > 1 /\ w[i] \in Strings /\ w[i - 1] \in {"{", ","} /\ Depth(w, i) > 0 /\ w[Enclosing(w, i)] = "{"
KeysIn(w, j) == {i \in j + 1..Len(w) : IsKey(w, i) /\ Enclosing(w, i) = j}
Objects(w) == {j \in 1..Len(w) : w[j] = "{"}

Repeats(w) == \E j \in Objects(w) : \E i, k \in KeysIn(w, j) : i < k /\ w[i] = w[k]

PastLimit(w) ==
  \/ \E i \in 1..Len(w) : Depth(w, i) > MaxNestingDepth \/ w[i] = "huge"
                            \/ (IsKey(w, i) /\ w[i] = "long")
  \/ Cardinality({i \in 1..Len(w) : w[i] \notin {":", ","}}) > MaxTokens
  \/ \E j \in Objects(w) : Cardinality(KeysIn(w, j)) > MaxMembersPerObject

Documents == {w \in UNION {Phrases["value", n] : n \in 1..MaxTokens} : ~Repeats(w) /\ ~PastLimit(w)}
Beginnings == UNION {{SubSeq(w, 1, n) : n \in 0..Len(w)} : w \in Documents}
-----------------------------------------------------------------------------
(* Properties                                                              *)

\* The parser accepts exactly the documents of the grammar within every limit: it rejects
\* at the first lexeme that no such document can have there, says "limit" only when a limit
\* is exceeded and "protocol" only when no document within the limits begins like this.
ParserAgrees ==
  /\ verdict = "reading" => ~PastLimit(lexemes) /\ (goal = "end" <=> lexemes \in Documents)
  /\ verdict = "accepted" => Front(lexemes) \in Documents
  /\ verdict = "protocol" => lexemes \notin Beginnings /\ Front(lexemes) \notin {w \in Documents : Last(lexemes) = "end"}
  /\ verdict = "limit" => PastLimit(lexemes)
=============================================================================
