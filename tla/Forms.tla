------------------------------- MODULE Forms --------------------------------
(***************************************************************************)
(* What happens to a text between the form and the table: SanitizeInput    *)
(* and the validators of validation.go, parseHTMLStrict of parser.go, the  *)
(* CHECK of the column, and back into the form.  One member writes and     *)
(* edits the subject of a thread, or edits a profile.  The body of a post, *)
(* which is stored as the HTML that two libraries make of it, is left out. *)
(*                                                                         *)
(* A text is a sequence of characters of which only the kinds matter.  A   *)
(* tag (<b>) is one element, and so is a character reference (&lt;b&gt;,   *)
(* &#13;), as wide as they are written; a byte that is not UTF-8 counts as *)
(* one rune.                                                               *)
(***************************************************************************)
EXTENDS Integers, Sequences, FiniteSets, Functions

CONSTANTS
  MaxText,   \* bound on the elements of the first text that is typed
  Retyped,   \* what is typed into a form that is already filled in
  MaxLength, \* MaxSubjectLength, MaxBioLength
  Photo,     \* complete http(s) addresses without "<" or "&"
  MarkedPhoto, \* complete http(s) addresses with one of them
  NoPhoto,   \* the field left empty
  BadPhoto   \* anything else

VARIABLES
  field,   \* the column: a thread's subject or a member's bio
  stored,  \* what it holds, NoText before there is a row
  photo,   \* member_profile.photo_url
  typed,   \* whether what is stored was typed with markup, NULs or bad bytes
  pc,      \* what the request is about to do
  form     \* what the form shows and, once sent, says

vars == <<field, stored, photo, typed, pc, form>>

-----------------------------------------------------------------------------
Char ==
  {"letter", "space", "lf", "cr", "nul", "badByte", "tag", "reference"}
White == {"space", "lf", "cr"}
Text == Seq(Char)
Texts == UNION {[1 .. n -> Char] : n \in 0 .. MaxText}
NoText == <<"none">>

Complete == Photo \cup MarkedPhoto
AnyPhoto == Complete \cup {NoPhoto, BadPhoto}

FormsAssumption ==
  /\ MaxText \in Nat /\ MaxLength \in Nat /\ Retyped \subseteq Text
  /\ NoPhoto \notin Complete /\ BadPhoto \notin Complete \cup {NoPhoto}
ASSUME FormsAssumption

(* A tag is three wide and a reference nine.                               *)
Count(s, c) == Cardinality({i \in DOMAIN s : s[i] = c})
RuneCount(s) == Len(s) + 2 * Count(s, "tag") + 8 * Count(s, "reference")

(* The elements of s at the positions of I, and s with c made d.           *)
Rank(K, i) == Cardinality({j \in K : j <= i})
Keep(s, I) ==
  LET K == I \cap DOMAIN s
  IN  [n \in 1 .. Cardinality(K) |-> s[CHOOSE i \in K : Rank(K, i) = n]]
Make(s, c, d) == [i \in DOMAIN s |-> IF s[i] = c THEN d ELSE s[i]]

-----------------------------------------------------------------------------
(* SanitizeInput, replacement by replacement.  Variant: without the one of *)
(* "\r\n".                                                                 *)
LineEndingsOneByOne(s) == Make(s, "cr", "lf")
LineEndings(s) ==
  Make(Keep(s, {i \in DOMAIN s : ~(s[i] = "lf" /\ i > 1 /\ s[i - 1] = "cr")}),
       "cr", "lf")

TrimSpace(s) ==
  Keep(s, {i \in DOMAIN s : /\ \E j \in 1 .. i : s[j] \notin White
                            /\ \E j \in i .. Len(s) : s[j] \notin White})

OneSpace(s) ==
  Keep(s, {i \in DOMAIN s : ~(s[i] = "space" /\ i > 1 /\ s[i - 1] = "space")})

(* Variant: `\n{4,}`.                                                      *)
ThreeNewlines(s) ==
  Keep(s, {i \in DOMAIN s : ~(i > 3 /\ \A j \in i - 3 .. i : s[j] = "lf")})
TwoNewlines(s) ==
  Keep(s, {i \in DOMAIN s : ~(i > 2 /\ \A j \in i - 2 .. i : s[j] = "lf")})

NoNul(s) == Keep(s, {i \in DOMAIN s : s[i] # "nul"})

SanitizeInput(s) ==
  NoNul(TwoNewlines(OneSpace(TrimSpace(LineEndings(s)))))

(* html.UnescapeString: a reference becomes what it stands for, white      *)
(* space, a tag or (&amp;lt;) another reference; &#0; is U+FFFD.           *)
Meaning == Char \ {"nul", "badByte"}
Unescaped(s) ==
  LET refs == {i \in DOMAIN s : s[i] = "reference"}
  IN  {[i \in DOMAIN s |-> IF i \in refs THEN m[i] ELSE s[i]] :
         m \in [refs -> Meaning]}

(* bluemonday.StrictPolicy: tags go, some with what follows them (<script> *)
(* with its contents, an open "<b" with the rest of the text).             *)
Stripped(s) ==
  LET tags == {i \in DOMAIN s : s[i] = "tag"}
      before == {i \in DOMAIN s : \A j \in 1 .. i : j \notin tags}
  IN  {before \cup K : K \in SUBSET (DOMAIN s \ (tags \cup before))}

(* The texts that parseHTMLStrict may return.                              *)
ParseHTMLStrict(s) == {Keep(t, I) : t \in Unescaped(s), I \in Stripped(s)}

(* What parseHTMLStrict may make of an address that has been validated.    *)
ParsePhoto(u) ==
  IF u \in MarkedPhoto THEN Complete \cup {BadPhoto} ELSE {u}

-----------------------------------------------------------------------------
(* Variant: the value is not trimmed first.                                *)
RequiredAsTyped(s) == s # <<>>
Required(s) == TrimSpace(s) # <<>>

(* Variant: without ValidateMaxLength.                                     *)
ThreadFormOfAnyLength(s) == Required(s) /\ RuneCount(s) >= 3
ThreadFormIsValid(s) ==
  Required(s) /\ RuneCount(s) <= MaxLength /\ RuneCount(s) >= 3
UrlIsValid(u) == u \in Complete \cup {NoPhoto}
ProfileFormIsValid(s, u) == RuneCount(s) <= MaxLength /\ UrlIsValid(u)

IsValid(text, u) ==
  IF field = "bio" THEN ProfileFormIsValid(text, u)
                   ELSE ThreadFormIsValid(text)

-----------------------------------------------------------------------------
NoForm == [text |-> <<>>, photo |-> NoPhoto, typed |-> "plain"]
Form(text, u, how) == [text |-> text, photo |-> u, typed |-> how]

(* A profile is there from the first visit on.                             *)
Init ==
  /\ field \in {"subject", "bio"}
  /\ stored = IF field = "bio" THEN <<>> ELSE NoText
  /\ photo = NoPhoto
  /\ typed = "plain"
  /\ pc = "idle"
  /\ form = NoForm

Goto(label) == pc' = label /\ UNCHANGED field

Answer ==
  /\ Goto("idle")
  /\ form' = NoForm

(* An empty form, or one filled in from the table.                         *)
NewThread ==
  /\ pc = "idle" /\ stored = NoText
  /\ Goto("form")
  /\ UNCHANGED <<stored, photo, typed, form>>

EditGET ==
  /\ pc = "idle" /\ stored # NoText
  /\ form' = Form(stored, photo, typed)
  /\ Goto("form")
  /\ UNCHANGED <<stored, photo, typed>>

(* s with a carriage return before each line feed: element i is at Place.  *)
Place(s, i) == i + Cardinality({j \in 1 .. i : s[j] = "lf"})
WithReturns(s) ==
  [n \in 1 .. Place(s, Len(s)) |->
     IF \E i \in DOMAIN s : Place(s, i) = n
     THEN s[CHOOSE i \in DOMAIN s : Place(s, i) = n]
     ELSE "cr"]

(* What a browser sends for a text it shows: an input has no line breaks,  *)
(* a textarea has every one as "\r\n".                                     *)
Sent(s) ==
  IF field = "bio" THEN WithReturns(LineEndings(s))
                   ELSE Keep(s, {i \in DOMAIN s : s[i] \notin {"lf", "cr"}})

SendAsShown ==
  /\ pc = "form" /\ stored # NoText
  /\ form' = Form(Sent(form.text), form.photo, form.typed)
  /\ Goto("shown")
  /\ UNCHANGED <<stored, photo, typed>>

How(s) ==
  CASE "badByte" \in Range(s) -> "bytes"
    [] "badByte" \notin Range(s) /\ Range(s) \cap {"tag", "reference"} # {} ->
         "markup"
    [] Range(s) \cap {"badByte", "tag", "reference"} = {} ->
         IF "nul" \in Range(s) THEN "nul" ELSE "plain"

SendTyped ==
  /\ pc = "form"
  /\ \E text \in IF form.text = <<>> THEN Texts ELSE Retyped,
        u \in IF field = "bio" THEN AnyPhoto ELSE {NoPhoto} :
       form' = Form(text, u, How(text))
  /\ Goto("typed")
  /\ UNCHANGED <<stored, photo, typed>>

-----------------------------------------------------------------------------
(* SanitizeInput, then the validators, then the filter, of the address     *)
(* too: what the filter makes of it is not looked at again.                *)
Validate(clean) ==
  /\ IsValid(clean, form.photo)
  /\ \E text \in ParseHTMLStrict(clean), u \in ParsePhoto(form.photo) :
       form' = Form(text, u, form.typed)
  /\ Goto(IF pc = "shown" THEN "saveShown" ELSE "save")
  /\ UNCHANGED <<stored, photo, typed>>

(* 400: this field of the form does not validate, or another one.          *)
Refuse ==
  /\ Answer
  /\ UNCHANGED <<stored, photo, typed>>

Handle ==
  /\ pc \in {"shown", "typed"}
  /\ LET clean == SanitizeInput(form.text)
     IN  Validate(clean) \/ Refuse

(* PostgreSQL stores neither NULs nor what is not UTF-8;                   *)
(* CHECK(subject <> '').                                                   *)
Accepted(s) ==
  /\ Range(s) \cap {"nul", "badByte"} = {}
  /\ field = "subject" => s # <<>>

(* The INSERT, or the UPDATE, which writes every column of the profile.    *)
(* Whether an UPDATE comes in time is a matter for Editing.                *)
Save ==
  /\ pc \in {"save", "saveShown"} /\ Accepted(form.text)
  /\ stored' = form.text /\ photo' = form.photo /\ typed' = form.typed
  /\ Answer

(* The database refuses the text, or fails: a 500.                         *)
Fail ==
  /\ pc \in {"save", "saveShown"}
  /\ Answer
  /\ UNCHANGED <<stored, photo, typed>>

Next ==
  \/ NewThread \/ EditGET \/ SendAsShown \/ SendTyped
  \/ Handle \/ Save \/ Fail

Spec == Init /\ [][Next]_vars

-----------------------------------------------------------------------------
(* Every variable has its type; what is stored fits the limit that was     *)
(* checked before the filter rewrote it.                                   *)
TypeOK ==
  /\ field \in {"subject", "bio"}
  /\ stored # NoText =>
       /\ Range(stored) \subseteq Char \ {"nul", "badByte"}
       /\ RuneCount(stored) <= MaxLength
  /\ {typed, form.typed} \subseteq {"plain", "nul", "markup", "bytes"}
  /\ photo \in AnyPhoto
  /\ pc \in {"idle", "form", "shown", "typed", "save", "saveShown"}
  /\ Range(form.text) \subseteq Char
  /\ form.photo \in AnyPhoto

(* A subject or a bio that validation lets through is one that the table   *)
(* takes and, of a subject, somebody can read, whatever NULs and spaces    *)
(* were typed.  The exceptions: bytes that are not UTF-8, which no         *)
(* validator looks for, and markup, of which the filter may leave nothing  *)
(* of a subject, or only white space.                                      *)
ValidIsStorable ==
  pc = "save" /\ form.typed # "bytes" =>
    /\ Accepted(form.text) \/ (form.typed = "markup" /\ form.text = <<>>)
    /\ form.typed # "markup" /\ field = "subject" =>
         TrimSpace(form.text) # <<>>

(* Of a subject or a bio without markup: between two paragraphs there is   *)
(* one empty line, between two words one space, around the text none.      *)
Normal(s) ==
  /\ s # <<>> => s[1] \notin White /\ s[Len(s)] \notin White
  /\ \A i \in 2 .. Len(s) : ~(s[i] = "space" /\ s[i - 1] = "space")
  /\ \A i \in 3 .. Len(s) : \E j \in i - 2 .. i : s[j] # "lf"
PlainIsNormal == typed = "plain" /\ stored # NoText => Normal(stored)

(* A form that is sent back as it was shown changes nothing, although the  *)
(* browser has rewritten its line breaks: unless there was markup or a NUL *)
(* in the text, or a line break in a subject.                              *)
ResendChangesNothing ==
  [][pc = "saveShown" /\ typed = "plain" =>
       \/ stored' = stored
       \/ field = "subject" /\ "lf" \in Range(stored)]_vars
=============================================================================
