------------------------------- MODULE MCGzll -------------------------------
(***************************************************************************)
(* Two ranks, two applications.  "sender-10" runs on rank 1, "sender-0"    *)
(* and "sender-1" are the instances of a task mapped everywhere: their     *)
(* names fill two words.  A word with the final zero ends with a dot.      *)
(***************************************************************************)
EXTENDS Gzll

Mapping(rank, names) == [rank |-> rank, names |-> names, pages |-> 1]

Same(name) == [r \in Rank |-> name]

MCApps ==
  << << Mapping(1, Same(<<"send", "er-1", "0.">>)),
        Mapping(EVERYWHERE, (0 :> <<"send", "er-0">>) @@ (1 :> <<"send", "er-1">>)),
        Mapping(0, Same(<<"rec.">>)) >>,
     << Mapping(ANYWHERE, Same(<<"rec.">>)) >> >>

MCWords == {"send", "er-0", "er-1", "0.", "rec."}

MCEndWords == {"0.", "rec."}

MCStale == {<<>>}
=============================================================================
