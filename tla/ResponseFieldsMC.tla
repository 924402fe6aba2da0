------------------------- MODULE ResponseFieldsMC -------------------------
(* Small instances of ResponseFields for TLC.                             *)
EXTENDS ResponseFields

AStep == STRING

(* {"b": "s", "payload": {"b": ["t", ["u"]]}} and a bare string. *)
ARoots ==
  { EmptyObject @@ (<<"b">> :> "s") @@ (<<"payload">> :> "object") @@ (<<"payload", "b">> :> "array")
      @@ (<<"payload", "b", "[0]">> :> "t") @@ (<<"payload", "b", "[1]">> :> "array")
      @@ (<<"payload", "b", "[1]", "[0]">> :> "u"),
    Scalar("s") }

Names == { <<"a">>, <<"b">>, <<"a", "b">>, <<"b", "a">>, <<"a", "c">>, <<"a", "b", "c">>,
           <<"a", "", "c">> }

(* The string, an array item, a malformed token, the whole result. *)
Selectors == { <<"b">>, <<"payload", ".", "payload", ".", "b", "[1]", "[+0]">>,
               <<"payload", ".", "b", "[abc]">>, <<Blank>> }

AllFields == [name : Names, selector : Selectors]
=============================================================================
