---------------------------- MODULE MCHttpRequest ----------------------------
(* Methods the parser knows and words that look like them, and the lists   *)
(* of parameters: none, one, two, three of which two have the same name    *)
(* and which just fit into t_content, and four, which do not.              *)
EXTENDS HttpRequest

MethodWords == {Word("GET"), Word("POST"), <<"x", "x">>, <<"GE", "T", "x">>, <<"x", "GE", "T">>}

ParamLists == {<<>>, <<<<"a", "v">>>>, <<<<"a", "v">>, <<"a", "w">>>>,
               <<<<"a", "v">>, <<"a", "w">>, <<"a", "v">>>>,
               <<<<"a", "v">>, <<"b", "w">>, <<"a", "v">>, <<"b", "v">>>>}
=============================================================================
