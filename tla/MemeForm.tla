------------------------------- MODULE MemeForm -----------------------------
(***************************************************************************)
(* The texts of a meme on their way from the form in the browser through   *)
(* the message, Request::ParseRequest and the table back into the pages.   *)
(* One browser fills in the form for a new meme, or gets the one to edit a *)
(* meme and sends it, changed or not; it deletes and lists memes.          *)
(*                                                                         *)
(* Session::start waits for the end of the headers or for an error, and    *)
(* handle_request is not told which.  Nothing waits for the body: what is  *)
(* handled is what has arrived by then.                                    *)
(***************************************************************************)
EXTENDS RequestParser, HtmlBuilder, TLC

CONSTANTS
  NewMemes,   \* what is typed and selected in the form for a new meme
  Retyped,    \* texts that are typed in the form of an edit
  Templates,  \* the options of the form, a sequence
  MaxId,      \* bound
  MaxLength   \* bound, of a text that is sent

VARIABLES
  table,    \* the rows of MEMES, by rowid, a row as a map of strings
  form,     \* what the form in the browser holds, or NoForm
  message,  \* what was sent, and is on its way
  handled,  \* history: the part of it that the server has handled
  sent      \* history: the message, and the form and the table at that time

vars == <<table, form, message, handled, sent>>

Ids == 1..MaxId
NoRow == <<>>
NoForm == <<>>
Rows == {i \in Ids : table[i] # NoRow}

\* to_string
IdText == [i \in Ids |-> ToString(i)]

Markers == {Marker(name) : name \in ToSet(MemeKeys)}
\* A template as it is stored: "0" is what is left of one that is not a number.
StoredTemplates == ToSet(Templates) \cup {"0"}
OptionMarkers == {Marker(Equality("template_id", t)) : t \in StoredTemplates}

\* What a browser makes of a marker that is typed, behind the first %.
MarkerCode == "3C!-- marker --%3E"

\* The words that stand in a message, or in a text when it is sent.
Syntax ==
  {"GET", "POS", "T", SP, "/meme/create", "/meme/delete", "?", "id", "HTTP/1.1",
   "Host", "\r", "\n", "template_id", "top_text", "bottom_text", "update", "=", "&",
   "+", "%", "27", "25", MarkerCode, "cut", "0", "a", "b", "'"}
Typed ==
  UNION ({ToSet(row.top_text) \cup ToSet(row.bottom_text) : row \in NewMemes}
           \cup {ToSet(text) : text \in Retyped})
Numbers == {IdText[i] : i \in Ids}
MessageWords ==
  Syntax \cup ToSet(Templates) \cup Numbers \cup (Typed \ (Markers \cup OptionMarkers))

ASSUME FormAssumption ==
  /\ MaxId \in Nat /\ MaxLength \in Nat
  /\ Templates \in Seq(STRING) \ {<<>>}
  /\ NewMemes \subseteq [template_id : ToSet(Templates),
                         top_text : Seq(STRING), bottom_text : Seq(STRING)]
  /\ Retyped \subseteq Seq(STRING)

\* Numbers are written in digits, and each in its own way.
ASSUME NumbersAssumption ==
  /\ (Numbers \cup ToSet(Templates)) \cap (Syntax \cup {"selected"}) \subseteq {"0"}
  /\ \A i, j \in Ids : IdText[i] = IdText[j] => i = j

\* A marker is a text of its own: it is the marker of one name, and no other
\* word of the pages or the messages.
ASSUME MarkersAssumption ==
  /\ \A m, n \in ToSet(MemeKeys) : Marker(m) = Marker(n) => m = n
  /\ \A t, u \in StoredTemplates :
       Marker(Equality("template_id", t)) = Marker(Equality("template_id", u)) => t = u
  /\ Markers \cap OptionMarkers = {}
  /\ (Markers \cup OptionMarkers)
       \cap (Syntax \cup ToSet(Templates) \cup Numbers \cup {"selected"}) = {}

NothingSent == [message |-> <<>>, form |-> NoForm, table |-> <<>>]

Row(template, top, bottom) ==
  [template_id |-> template, top_text |-> top, bottom_text |-> bottom]

Init ==
  /\ table = [i \in Ids |-> NoRow]
  /\ form = NoForm /\ message = <<>> /\ handled = <<>> /\ sent = NothingSent

-----------------------------------------------------------------------------
\* The forms new.html and edit.html, one field after the other.
Options(template) == <<template, Marker(Equality("template_id", template))>>
EditForm == [update      |-> <<Marker("meme_id")>>,
             top_text    |-> <<Marker("top_text")>>,
             bottom_text |-> <<Marker("bottom_text")>>,
             template_id |-> FlattenSeq([k \in DOMAIN Templates |-> Options(Templates[k])])]

\* A meme as viewMeme returns it.
MemeMap(i) ==
  [meme_id |-> <<IdText[i]>>, template_id |-> <<table[i].template_id>>,
   top_text |-> table[i].top_text, bottom_text |-> table[i].bottom_text]

\* A browser selects the option after which it says so, or else the first.
Selected(options) ==
  LET marked == {k \in DOMAIN options : options[k] = "selected"}
  IN  IF marked = {} THEN options[1] ELSE options[Min(marked) - 1]

\* Mutant of EditPage: the template of the meme is not selected.
EditPageUnselected(i) ==
  LET filled(field) == InjectMap(EditForm[field], MemeMap(i)) IN
  [update      |-> filled("update"),
   top_text    |-> filled("top_text"),
   bottom_text |-> filled("bottom_text"),
   template_id |-> Selected(EqualityInject(filled("template_id"), "0",
                              "template_id", <<"selected">>, ToSet(Templates)))]

\* /meme/new?update=: the form is filled with the row.
EditPage(i) ==
  LET filled(field) == InjectMap(EditForm[field], MemeMap(i)) IN
  [update      |-> filled("update"),
   top_text    |-> filled("top_text"),
   bottom_text |-> filled("bottom_text"),
   template_id |-> Selected(EqualityInject(filled("template_id"), table[i].template_id,
                              "template_id", <<"selected">>, ToSet(Templates)))]

Open ==
  /\ form = NoForm /\ message = <<>>
  /\ handled' = <<>> /\ sent' = NothingSent
  /\ UNCHANGED <<table, message>>

OpenNew ==
  /\ Open
  /\ \E row \in NewMemes :
       form' = [update |-> <<>>, template_id |-> row.template_id,
                top_text |-> row.top_text, bottom_text |-> row.bottom_text]

OpenEdit(i) ==
  /\ Open /\ i \in Rows
  /\ form' = EditPage(i)

\* Another text is typed in the form of an edit.
Retype(top) ==
  /\ form # NoForm /\ message = <<>> /\ form.update # <<>>
  /\ form' = [form EXCEPT !.top_text = top]
  /\ UNCHANGED <<table, message, handled, sent>>

\* The browser encodes what is typed, and writes the fields in the order of
\* the form.
Encode(text) ==
  FlattenSeq([k \in DOMAIN text |->
    CASE text[k] = SP -> <<"+">>
      [] text[k] = "'" -> <<"%", "27">>
      [] text[k] = "%" -> <<"%", "25">>
      [] text[k] \in Markers \cup OptionMarkers -> <<"%", MarkerCode>>
      [] OTHER         -> <<text[k]>>])

Headers == <<SP, "HTTP/1.1", "\r", "\n", "Host", "\r", "\n", "\r", "\n">>

FormMessage ==
  Post \o <<SP, "/meme/create">> \o Headers
    \o <<"template_id", "=", form.template_id>>
    \o <<"&", "top_text", "=">> \o Encode(form.top_text)
    \o <<"&", "bottom_text", "=">> \o Encode(form.bottom_text)
    \o IF form.update = <<>> THEN <<>> ELSE <<"&", "update", "=">> \o form.update

Send(text) ==
  /\ message' = text /\ handled' = <<>>
  /\ sent' = [message |-> text, form |-> form, table |-> table]

Submit ==
  /\ form # NoForm /\ message = <<>>
  /\ Len(Encode(form.top_text)) <= MaxLength /\ Len(Encode(form.bottom_text)) <= MaxLength
  /\ Send(FormMessage)
  /\ UNCHANGED <<table, form>>

ClickDelete(i) ==
  /\ form = NoForm /\ message = <<>> /\ i \in Rows
  /\ Send(Get \o <<SP, "/meme/delete", "?", "id", "=", IdText[i]>> \o Headers)
  /\ UNCHANGED <<table, form>>

-----------------------------------------------------------------------------
\* pseudoDecode
PseudoDecode(text) == [k \in DOMAIN text |-> IF text[k] = "+" THEN SP ELSE text[k]]

\* atoi: no number is 0.
Atoi(text) ==
  IF \E n \in Ids : text = <<IdText[n]>>
  THEN CHOOSE n \in Ids : text = <<IdText[n]>> ELSE 0

\* The template as it is stored: atoi, written by to_string.
AtoiTemplate(text) == IF text \in {<<n>> : n \in ToSet(Templates)} THEN text[1] ELSE "0"

NewRowid == IF Rows = {} THEN 1 ELSE Max(Rows) + 1

\* /meme/create: with an update it is an edit, of a row if there is one.
Create(params) ==
  LET row == Row(AtoiTemplate(Param(params, "template_id")),
                 PseudoDecode(Param(params, "top_text")),
                 PseudoDecode(Param(params, "bottom_text")))
      id == Atoi(Param(params, "update"))
  IN  IF Param(params, "update") = <<>>
      THEN NewRowid \in Ids /\ table' = [table EXCEPT ![NewRowid] = row]
      ELSE table' = [i \in Ids |-> IF i = id /\ i \in Rows THEN row ELSE table[i]]

Delete(params) ==
  table' = [table EXCEPT ![Atoi(Param(params, "id"))] = NoRow]

\* What part of the message the server may find in its buffer: as far as the
\* end of the headers at least, or anything if the browser gives up.  A cut
\* can fall inside a word, of which some other word is left.
Arrived ==
  LET prefixes == {SubSeq(message, 1, n) : n \in 1..Len(message)}
  IN  prefixes \cup {Front(p) \o <<"cut">> : p \in prefixes}

\* handle_request, for the two actions that change memes.
Handle(m) ==
  /\ message # <<>> /\ m \in Arrived
  /\ handled' = m
  /\ IF ~Valid(m) THEN UNCHANGED table
     ELSE IF Uri(m) = <<"/meme/create">> THEN
            IF Method(m) = Post THEN Create(Params(Body(m))) ELSE UNCHANGED table
     ELSE IF Contains(Uri(m), "?") /\ Before(Uri(m), "?") = <<"/meme/delete">>
          THEN LET params == Params(After(Uri(m), "?")) IN
               IF Atoi(Param(params, "id")) = 0 THEN UNCHANGED table ELSE Delete(params)
     ELSE UNCHANGED table
  /\ message' = <<>> /\ form' = NoForm
  /\ UNCHANGED sent

\* /meme/list, without what is around the memes.
Partial == <<Marker("meme_id"), Marker("template_id"), Marker("top_text"),
             Marker("bottom_text"), Marker("meme_id"), Marker("meme_id")>>

\* The rows as SELECT returns them: in the order of their ids.
RowsInOrder == FlattenSeq([i \in Ids |-> IF i \in Rows THEN <<i>> ELSE <<>>])

ListPage ==
  InjectList(Partial, [k \in DOMAIN RowsInOrder |-> MemeMap(RowsInOrder[k])])

-----------------------------------------------------------------------------
Next ==
  \/ OpenNew \/ Submit
  \/ \E i \in Ids : OpenEdit(i) \/ ClickDelete(i)
  \/ \E top \in Retyped : Retype(top)
  \/ \E m \in Arrived : Handle(m)

Spec == Init /\ [][Next]_vars

-----------------------------------------------------------------------------
\* The message was handled, with all of its body.
Whole == handled # <<>> /\ handled = sent.message

\* Letters and spaces, the only characters that come back as they were typed.
Plain(text) == \A k \in DOMAIN text : text[k] \in {"a", "b", SP}

\* Wherever a message is cut off, a request line that still passes as valid
\* has the method and the URI that were sent, so that no part of a request
\* deletes another meme or is another action (request.cc 21-66 after
\* session.cc 43-46, which takes what has arrived).
CutMessageKeepsUri ==
  handled # <<>> /\ Valid(handled) =>
    Method(handled) = Method(sent.message) /\ Uri(handled) = Uri(sent.message)

\* A form that arrives whole is the row it becomes: the texts, the template
\* and the hidden id each get through the encoding, the message, the two
\* parsers and the table (meme_handler.cc 113-130 and 526-535;
\* request.cc 71-111).
FormRoundTrip ==
  Whole /\ sent.form # NoForm =>
    LET row == Row(sent.form.template_id, sent.form.top_text, sent.form.bottom_text)
        full == MaxId \in {i \in Ids : sent.table[i] # NoRow}
        changed == {i \in Ids : table[i] # sent.table[i]}
    IN  Plain(sent.form.top_text) /\ Plain(sent.form.bottom_text) =>
          IF sent.form.update = <<>>
          THEN full \/ \E i \in Ids : changed = {i} /\ sent.table[i] = NoRow /\ table[i] = row
          ELSE LET i == Atoi(sent.form.update) IN table[i] = row /\ changed \subseteq {i}

\* The edit form of a meme that is sent as it came changes nothing: its page
\* selects the template and fills in the texts so that they survive another
\* round (html_builder.cc 17-42 and 77-85; meme_handler.cc 77-92).
EditKeepsMeme ==
  /\ Whole /\ sent.form # NoForm /\ sent.form.update # <<>>
  /\ LET row == sent.table[Atoi(sent.form.update)] IN
     /\ sent.form.top_text = row.top_text
     /\ Plain(row.top_text) /\ Plain(row.bottom_text)
     /\ row.template_id \in ToSet(Templates)
  => table = sent.table

\* The list shows every meme, with its own id, template and texts word for
\* word and in the places they belong to, whatever memes come before it and
\* whatever was typed: no text that was stored is taken for a marker
\* (html_builder.cc 44-58 and 87-104; meme_handler.cc 332-346).
ListShowsMemes ==
  LET shown(i) == <<IdText[i], table[i].template_id>> \o table[i].top_text
                    \o table[i].bottom_text \o <<IdText[i], IdText[i]>>
  IN  ListPage = FlattenSeq([k \in DOMAIN RowsInOrder |->
                   (IF k = 1 THEN <<>> ELSE <<"\n">>) \o shown(RowsInOrder[k])])
=============================================================================
