----------------------------- MODULE Selectors -----------------------------
(***************************************************************************)
(* The path selectors of responseFields (src/select.rs).  A selector is    *)
(* text, given as a sequence of lexemes: white space, dots, bracketed      *)
(* numerals and words.  Words do not stand next to each other.             *)
(***************************************************************************)
EXTENDS Naturals, JsonTree

Blank == " "
Dot   == "."

(* Bracketed numerals, what parse::<usize> takes, and the array step each  *)
(* stands for.                                                             *)
Indices    == {"[0]", "[+0]", "[00]", "[1]"}
IndexOf(x) == IF x \in {"[+0]", "[00]"} THEN "[0]" ELSE x

(* Other brackets: without a numeral, or not closed. *)
Broken == {"[abc]", "[-1]", "["}

Lexeme == Step \cup {Blank, Dot, "payload"} \cup Indices \cup Broken

Trim(text) ==
  LET ink == {j \in DOMAIN text : text[j] # Blank}
  IN  IF ink = {} THEN <<>> ELSE SubSeq(text, Min(ink), Max(ink))

(* Slip of WithoutPayload: the prefix is stripped as often as it is there. *)
WithoutPayloads(text) ==
  CASE IsPrefix(<<"payload", Dot, "payload", Dot>>, text) -> SubSeq(text, 5, Len(text))
    [] IsPrefix(<<"payload", Dot>>, text)                 -> SubSeq(text, 3, Len(text))
    [] text = <<"payload">>                               -> <<>>
    [] OTHER                                              -> text

WithoutPayload(text) ==
  CASE IsPrefix(<<"payload", Dot>>, text) -> SubSeq(text, 3, Len(text))
    [] text = <<"payload">>               -> <<>>
    [] OTHER                              -> text

(* str::split('.'): a dot ends a token, and the next begins. *)
Tokens[text \in Seq(Lexeme)] ==
  IF text = <<>> THEN << <<>> >>
  ELSE LET tokens == Tokens[Front(text)]
       IN  IF Last(text) = Dot THEN Append(tokens, <<>>)
           ELSE Append(Front(tokens), Append(Last(tokens), Last(text)))

(* resolve_token: the key runs up to the first bracket; an empty one stays *)
(* where it is.                                                            *)
KeyOf(token) ==
  LET brackets == {j \in DOMAIN token : token[j] \in Indices \cup Broken}
  IN  SubSeq(token, 1, Min(brackets \cup {Len(token) + 1}) - 1)

BracketsOf(token) == SubSeq(token, Len(KeyOf(token)) + 1, Len(token))

(* A word is the name of a member; several lexemes are the name of none.   *)
WellFormed(token) == Len(KeyOf(token)) <= 1 /\ Range(BracketsOf(token)) \subseteq Indices

StepsOf(token) ==
  LET brackets == BracketsOf(token)
  IN  KeyOf(token) \o [j \in DOMAIN brackets |-> IndexOf(brackets[j])]

(* The loop over the tokens: where it gets. *)
PathOf[tokens \in Seq(Seq(Lexeme))] ==
  IF tokens = <<>> THEN <<>> ELSE PathOf[Front(tokens)] \o StepsOf(Last(tokens))

(* select: what a selector that does not resolve contributes is null.      *)
Selected(root, selector) ==
  LET tokens == Tokens[WithoutPayload(Trim(selector))]
      path   == PathOf[tokens]
  IN  IF (\A j \in DOMAIN tokens : WellFormed(tokens[j])) /\ path \in DOMAIN root
      THEN Subtree(root, path) ELSE Null

-----------------------------------------------------------------------------
(* The grammar of select.rs:15-22: how a path is written *)

(* Member names a segment can be.  A name is one lexeme, and one that is   *)
(* also a lexeme of another kind, or empty, cannot be written.  Step is    *)
(* taken to have no other names with dots, brackets or white space around  *)
(* them, which select.rs would take apart.                                 *)
Word == Step \ ({"", Blank, Dot} \cup Indices \cup Broken)

Spellable(path) == \A j \in DOMAIN path : path[j] \in Word \cup {IndexOf(x) : x \in Indices}

Spelling[path \in Path] ==
  IF path = <<>> THEN <<>>
  ELSE LET text == Spelling[Front(path)]
           step == Last(path)
       IN  text \o IF text = <<>> \/ step \in Indices THEN <<step>> ELSE <<Dot, step>>

(* With `payload.` in front, or without it where the path does not begin   *)
(* with a member of that name; a lone `payload` is the root.               *)
Spellings(path) ==
  LET text   == Spelling[path]
      spaced == <<Blank>> \o text \o <<Blank>>
  IN  {<<"payload", Dot>> \o text}
      \cup (IF IsPrefix(<<"payload">>, path) THEN {} ELSE {text, spaced})
      \cup (IF path = <<>> THEN {<<"payload">>} ELSE {})

=============================================================================
