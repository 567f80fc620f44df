--------------------------- MODULE MCModelCatalog ---------------------------
(* A small catalog: p1 and p2 are of one family, q of another; upstream     *)
(* retires p1 and publishes p2, and the built-in list knows p1 and q.       *)
EXTENDS ModelCatalog

MCFamily == [p1 |-> "p*", p2 |-> "p*", q |-> "q*"]
MCPublished == << <<"p1", "q">>, <<"q", "p2", "q">> >>
MCFallback == <<"p1", "q">>
\* A list that repeats itself, with an entry that is no scalar and one that is
\* malformed; an empty one; a payload that cannot be read.
MCConfigs == {<<"p*", "map", "*p", "p*">>, <<>>, None}

Edit(kind, id) == [NoCall EXCEPT !.kind = kind, !.id = id]
Refresh == [NoCall EXCEPT !.kind = "panel", !.force = TRUE]
Edits ==
    {Edit("hide", "*p")} \union {Edit("restore", id) : id \in {"p1", "p*"}}
      \union {Edit("add", "p2")}
      \union {[Edit("move", "q") EXCEPT !.before = "p1"]}
      \union {[NoCall EXCEPT !.kind = "put",
                   !.overlay = [hide |-> <<"p2">>, order |-> <<"q", "p1">>, add |-> <<"p2">>]]}

\* One page of the panel edits and refreshes; the host asks for lists, and another
\* page hides a model meanwhile.
Lists == {[NoCall EXCEPT !.kind = k] : k \in {"list", "auth"}}
MCCalls == [panel |-> Edits \union {Refresh}, other |-> Lists \union {Edit("hide", "p1")}]
Refreshes == [panel |-> {Refresh}, other |-> {[NoCall EXCEPT !.kind = "auth"]}]
=============================================================================
