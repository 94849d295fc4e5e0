---------------------------------- MODULE Lists ----------------------------------
(***************************************************************************)
(* Filtering a list, written as a recursive function so that what it       *)
(* leaves can be proved (ListLemmas) and not only computed.                *)
(***************************************************************************)
EXTENDS Naturals, Sequences, SequencesExt

\* The list s without the members of S.
Without(s, S) ==
  LET kept[i \in 0 .. Len(s)] ==
        IF i = 0 THEN <<>>
        ELSE IF s[i] \in S THEN kept[i - 1] ELSE Append(kept[i - 1], s[i])
  IN  kept[Len(s)]
==================================================================================
