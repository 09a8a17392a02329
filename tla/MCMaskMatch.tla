------------------------------ MODULE MCMaskMatch ------------------------------
EXTENDS MaskMatch

Letters == {"a", "A", "b"}
UpTo(S, n) == UNION {[1 .. k -> S] : k \in 0 .. n}
LowerVal == [c \in {"A", "a", "b", "1", "*", "$", "!", "@", ".", "~", NUL} |->
               IF c = "A" THEN "a" ELSE c]
MasksVal == UpTo(Letters \cup {"*"}, 4) \cup {<<"$">>, <<"*", "a", "*", "b", "a">>}
ValuesVal == UpTo(Letters, 4)
IdentsVal ==
  [nick : {<<"b">>}, user : {<<"a">>, <<"~", "a">>, <<"a", "a">>},
   host : {h \in UpTo({"a", "1", "."}, 6) : h # <<>>}]
=============================================================================
