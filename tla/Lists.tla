-------------------------------- MODULE Lists --------------------------------
(***************************************************************************)
(* Removal from the std::lists of the repository, written as a recursive   *)
(* function so that it can be reasoned about.                              *)
(***************************************************************************)
EXTENDS Integers, SequencesExt

\* The list s after a walk that erases the elements of D.
Without(s, D) ==
    LET rest[i \in 0 .. Len(s)] ==
            IF i = 0 THEN <<>>
            ELSE IF s[i] \in D THEN rest[i - 1] ELSE Append(rest[i - 1], s[i])
    IN  rest[Len(s)]
=============================================================================
