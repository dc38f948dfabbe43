------------------------------- MODULE MCForms ------------------------------
(* Forms with every text of at most MaxText elements.                      *)
EXTENDS FormsInduction

(* What a form that already says something is changed to.                  *)
SomeTexts == {<<>>, <<"space">>, <<"nul">>, <<"badByte">>, <<"tag">>,
              <<"reference">>, <<"letter", "lf", "letter">>,
              <<"tag", "letter">>}
=============================================================================
