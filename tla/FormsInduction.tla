--------------------------- MODULE FormsInduction ---------------------------
(* The inductive invariant of Forms: what a text is known to be at each    *)
(* step between the form and the table.                                    *)
EXTENDS Forms

(* A text that SanitizeInput has been through, and one that the filter has *)
(* been through as well: a reference may have become a "\r".               *)
Clean(s) == s \in Seq(Char \ {"nul", "cr"})
Storable(s) == s \in Seq(Char \ {"nul", "badByte"})

(* Nothing for the filter to do and nothing for the table to refuse.       *)
Plain(s) == s \in Seq({"letter", "space", "lf"})

Typed == {"plain", "nul", "markup", "bytes"}

(* What is stored has passed its validators, and the filter has only made  *)
(* it shorter.                                                             *)
StoredInv ==
  /\ photo \in AnyPhoto /\ (field # "bio" => photo = NoPhoto)
  /\ typed \in Typed
  /\ stored # NoText =>
       /\ Storable(stored) /\ RuneCount(stored) <= MaxLength
       /\ typed = "plain" => Plain(stored) /\ Normal(stored)

FormInv ==
  /\ form.text \in Text /\ form.photo \in AnyPhoto
  /\ field # "bio" => form.photo = NoPhoto
  /\ form.typed \in Typed
  /\ form = Form(form.text, form.photo, form.typed)

(* What the form shows, and what of it is on its way back.                 *)
ShownInv ==
  /\ pc = "idle" => form = NoForm
  /\ pc = "form" => form = IF stored = NoText THEN NoForm
                                              ELSE Form(stored, photo, typed)
  /\ pc \in {"shown", "saveShown"} => stored # NoText /\ form.typed = typed
  /\ pc = "shown" => form.text = Sent(stored)
  /\ pc = "typed" => form.typed = How(form.text)

(* What a validated text is.  What was shown comes out as it was stored.   *)
SaveInv ==
  pc \in {"save", "saveShown"} =>
    /\ form.text \in Seq(Char \ {"nul"}) /\ RuneCount(form.text) <= MaxLength
    /\ form.typed = "plain" => Plain(form.text) /\ Normal(form.text)
    /\ pc = "save" /\ form.typed # "bytes" => Storable(form.text)
    /\ pc = "save" /\ form.typed \in {"plain", "nul"} /\ field # "bio" =>
         TrimSpace(form.text) # <<>>
    /\ pc = "saveShown" /\ typed = "plain" =>
         \/ form.text = stored
         \/ field = "subject" /\ "lf" \in Range(stored)

IInv ==
  /\ field \in {"subject", "bio"}
  /\ pc \in {"idle", "form", "shown", "typed", "save", "saveShown"}
  /\ StoredInv /\ FormInv /\ ShownInv /\ SaveInv
=============================================================================
