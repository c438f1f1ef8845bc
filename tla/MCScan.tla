------------------------------- MODULE MCScan -------------------------------
(***************************************************************************)
(* One package of two files, two targets, and configurations of up to two  *)
(* contracts whose policies were reviewed for one or for both targets.     *)
(***************************************************************************)
EXTENDS Scan

CONSTANTS
  PS1001, PS6140, (* other checks                                          *)
  go125, go126

MCFile == <<"owner.go", "kernel.go">>
Reviewed == [ast |-> "reviewed", trivia |-> "same"]
Blank == [ast |-> "reviewed", trivia |-> "other"]
Changed == [ast |-> "changed", trivia |-> "same"]
MCContent == {Reviewed, Blank, Changed}

PolicyFor(t) == [fits |-> TRUE, target |-> t, sources |-> [f \in Files |-> Reviewed]]
Misfit == [fits |-> FALSE, target |-> go126, sources |-> [f \in Files |-> Reviewed]]
Contract(claim, valid, form, policies) ==
  [claim |-> claim, valid |-> valid, form |-> form, policies |-> policies]
MCConfigs ==
  LET full == Contract("dot", TRUE, TRUE, <<PolicyFor(go126)>>)
      both == Contract("dot", TRUE, TRUE, <<Misfit, PolicyFor(go125), PolicyFor(go126)>>)
      bare == Contract("sum", TRUE, TRUE, <<>>)
      self == Contract("self", TRUE, FALSE, <<PolicyFor(go126)>>)
      wrong == Contract("dot", FALSE, TRUE, <<PolicyFor(go126)>>)
  IN  {<<>>, <<full>>, <<bare, both>>, <<self, full>>, <<wrong, full>>, <<wrong>>}

Token(neg, exact, all, ids) == [neg |-> neg, exact |-> exact, all |-> all, ids |-> ids]
All == Token(FALSE, FALSE, TRUE, Check)
Named(neg, c) == Token(neg, TRUE, FALSE, {c})
Sixes(neg) == Token(neg, FALSE, FALSE, {PS6140, PS6141})
Missing == Token(FALSE, TRUE, FALSE, {})
MCSelectors ==
  {{All}, {All, Named(TRUE, PS6141)}, {Named(FALSE, PS6141)}, {Sixes(FALSE), Named(FALSE, PS1001)},
   {Sixes(TRUE)}, {All, Missing}}
MCRank == [c \in Check |-> IF c = PS1001 THEN 1 ELSE 3]
=============================================================================
