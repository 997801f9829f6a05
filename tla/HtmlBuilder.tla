----------------------------- MODULE HtmlBuilder ----------------------------
(***************************************************************************)
(* HtmlBuilder, as operators: html is a sequence of words, some of which   *)
(* are markers that are to be replaced.                                    *)
(***************************************************************************)
EXTENDS Naturals, Sequences, SequencesExt

\* generateMarker
Marker(name) == "<!-- " \o name \o " -->"

\* The search goes on behind the replacement, which is not searched.
Inject(html, name, replacement) ==
  FlattenSeq([i \in DOMAIN html |->
                IF html[i] = Marker(name) THEN replacement ELSE <<html[i]>>])

\* A std::map, whose keys come in alphabetical order.  The keys of a meme:
MemeKeys == <<"bottom_text", "meme_id", "template_id", "top_text">>
InjectMap(html, map) ==
  LET with1 == Inject(html, MemeKeys[1], map[MemeKeys[1]])
      with2 == Inject(with1, MemeKeys[2], map[MemeKeys[2]])
      with3 == Inject(with2, MemeKeys[3], map[MemeKeys[3]])
  IN  Inject(with3, MemeKeys[4], map[MemeKeys[4]])

\* Mutant of InjectList: each copy is made from the one before.
InjectListInPlace(html, maps) ==
  IF maps = <<>> THEN <<>>
  ELSE LET copies[k \in DOMAIN maps] ==
             InjectMap(IF k = 1 THEN html ELSE copies[k - 1], maps[k])
       IN  FlattenSeq([k \in DOMAIN maps |-> IF k = 1 THEN copies[k] ELSE <<"\n">> \o copies[k]])

\* A copy of html for each map, on lines of their own; without maps, nothing.
InjectList(html, maps) ==
  FlattenSeq([k \in DOMAIN maps |->
                IF k = 1 THEN InjectMap(html, maps[k])
                ELSE <<"\n">> \o InjectMap(html, maps[k])])

\* What a marker names that stands where two things are equal.
Equality(prefix, value) == prefix \o " == " \o value

\* The marker of the value is replaced, those of other numbers disappear.
EqualityInject(html, value, prefix, replacement, numbers) ==
  LET injected == Inject(html, Equality(prefix, value), replacement)
      others == {Marker(Equality(prefix, n)) : n \in numbers}
  IN  FlattenSeq([i \in DOMAIN injected |->
                    IF injected[i] \in others THEN <<>> ELSE <<injected[i]>>])
=============================================================================
