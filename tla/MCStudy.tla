------------------------------- MODULE MCStudy ------------------------------
(***************************************************************************)
(* Instances of Study for TLC: the studies the runs make.                  *)
(***************************************************************************)
EXTENDS StudyProperties

Clean == <<Piece("plain", 40)>>
Personal == <<Piece("personal", 18), Piece("plain", 20), Piece("personal", 12)>>
Secret == <<Piece("plain", 8), Piece("secret", 33)>>

\* Longer than the bound: the credential is cut in two, the address is cut off.
Overlong == <<Piece("plain", 3990), Piece("secret", 33), Piece("personal", 18)>>

\* Within the bound, and beyond it once the address is replaced by a longer text.
Lengthened == <<Piece("plain", 3990), Piece("personal", 10)>>

Of(objective, providers, validationOnly) ==
  [objective |-> objective, providers |-> providers, validationOnly |-> validationOnly]

\* A study that names one provider twice, a validation by two providers, a study of
\* nobody, one that is refused, and one of a single provider whose objective is cut
\* and then refused or not.
EveryStudy ==
  {Of(Clean, <<"a", "a">>, FALSE),
   Of(Personal, <<"a", "b">>, TRUE),
   Of(Clean, << >>, FALSE),
   Of(Secret, <<"a">>, FALSE),
   Of(Overlong, <<"a">>, FALSE)}

\* A caller that waits for two providers leaves one of them in its options, and takes
\* back that the study is validation only.
OneProvider == {Of(Overlong, <<"a">>, FALSE)}

LongStudy == {Of(Lengthened, <<"a", "b">>, FALSE), Of(Clean, <<"a">>, TRUE)}

\* A text, and an exception.  A provider that answers an empty text is unavailable as
\* one that throws is, by the rules of StudyRules.
EveryAnswer == {Text(30), Failure}
=============================================================================
