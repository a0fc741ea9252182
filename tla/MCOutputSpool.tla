---------------------------- MODULE MCOutputSpool ----------------------------
(* OutputSpool on short texts: characters of every width next to a page's  *)
(* end, and bytes that are no UTF-8 at all.                                *)
EXTENDS OutputSpool

MixedTexts == {
    [stdout |-> <<"one", "four", "cont", "cont", "cont", "two", "cont">>,
     stderr |-> <<"one">>],
    [stdout |-> <<"cont", "cont", "cont", "cont", "three", "cont">>,
     stderr |-> <<"two", "cont">>] }

(* An accented letter between two plain ones.                              *)
AccentedText == { [stdout |-> <<"one", "two", "cont", "one">>, stderr |-> <<>>] }
=============================================================================
