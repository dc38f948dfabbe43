\* Every text of five elements, typed and sent back as shown.
CONSTANTS
  MaxText = 5
  Retyped <- SomeTexts
  MaxLength = 10
  Photo = {url}
  MarkedPhoto = {marked}
  NoPhoto = none
  BadPhoto = bad
SPECIFICATION Spec
INVARIANTS
  TypeOK
  ValidIsStorable
  PlainIsNormal
PROPERTIES ResendChangesNothing
