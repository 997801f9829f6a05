----------------------------- MODULE MCMemeForm -----------------------------
(***************************************************************************)
(* MemeForm with short texts: letters and spaces, one with a character the *)
(* browser writes as an escape, one with the text of a marker.             *)
(***************************************************************************)
EXTENDS MemeForm

MCTemplates == <<"2", "3">>

MCNewMemes == {Row("2", <<"a">>, <<" ", "b", " ">>),
               Row("3", <<"a", "'">>, <<Marker("top_text")>>)}

MCRetyped == {<<"b">>}
=============================================================================
