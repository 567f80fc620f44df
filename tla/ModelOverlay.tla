---------------------------- MODULE ModelOverlay ----------------------------
(***************************************************************************)
(* The overlay of the model catalog: its checks and what it makes of a     *)
(* catalog (model_config.go), and the edits of the panel (the tail of      *)
(* handleModelAction, management.go).                                      *)
(*                                                                         *)
(* A catalog is a sequence of model ids. An entry of the deny list is an   *)
(* id or a family, which hides every id of that prefix, those included     *)
(* that upstream has yet to publish.                                       *)
(***************************************************************************)
EXTENDS SequencesExt

CONSTANTS
    Family,     \* the prefix of each model id: a function from ids to families
    Malformed   \* entries whose star is not a single trailing one

ModelIds == DOMAIN Family
Families == {Family[id] : id \in ModelIds}

Entries == ModelIds \union Families \union Malformed
Overlays == [hide : Seq(Entries), order : Seq(Entries), add : Seq(ModelIds)]

ASSUME EntriesAssumption ==
    /\ ModelIds \intersect Families = {}
    /\ Malformed \intersect (ModelIds \union Families) = {}

-----------------------------------------------------------------------------
(* The loops over a list. They are recursive functions, not the folds of the *)
(* library, so that ModelOverlayProofs can reason about them.                *)

\* The items at the positions I, in their order.
picked(items, I) ==
    LET upTo[n \in 0..Len(items)] ==
            IF n = 0 THEN <<>>
            ELSE IF n \in I THEN Append(upTo[n - 1], items[n]) ELSE upTo[n - 1]
    IN  upTo[Len(items)]

without(items, values) == picked(items, {n \in DOMAIN items : items[n] \notin values})

\* catalogMerger.add: what is there already, or was there a moment ago, is skipped.
appendNew(items, more) ==
    items \o picked(more, {n \in DOMAIN more :
                             /\ ~Contains(items, more[n])
                             /\ \A m \in 1..(n - 1) : more[m] # more[n]})

-----------------------------------------------------------------------------
(* The deny list *)

hides(hide, id) == Contains(hide, id) \/ Contains(hide, Family[id])
hidden(overlay) == {id \in ModelIds : hides(overlay.hide, id)}

\* sanitizeHideList keeps what is unambiguous.
sanitizeHideList(hide) == without(hide, Malformed)

\* Bug: the checks are left to the caller.
storableUnchecked(overlay) == TRUE

\* storeModelOverlay takes an overlay whose lists repeat nothing and whose deny
\* list is well formed, and refuses any other as a whole.
storable(overlay) ==
    /\ IsInjective(overlay.hide) /\ IsInjective(overlay.order) /\ IsInjective(overlay.add)
    /\ sanitizeHideList(overlay.hide) = overlay.hide

-----------------------------------------------------------------------------
(* What an overlay makes of a catalog *)

\* Bug: what the user added is shown whether or not it is hidden.
applyModelOverlayAddAll(base, overlay) == without(base, hidden(overlay)) \o overlay.add

\* Bug: what was put first is not taken out of the rest.
applyModelOverlayTwice(base, overlay) ==
    LET visible == without(base, hidden(overlay))
        Named(i) == picked(visible, {n \in DOMAIN visible : visible[n] = overlay.order[i]})
    IN  FlattenSeq([i \in DOMAIN overlay.order |-> Named(i)])
        \o visible
        \o without(overlay.add, hidden(overlay))

\* What is hidden goes, what is ordered comes first, what was added comes last.
applyModelOverlay(base, overlay) ==
    LET visible == without(base, hidden(overlay))
        Named(i) == picked(visible, {n \in DOMAIN visible : visible[n] = overlay.order[i]})
    IN  FlattenSeq([i \in DOMAIN overlay.order |-> Named(i)])
        \o without(visible, ToSet(overlay.order))
        \o without(overlay.add, hidden(overlay))

\* Bug: the panel is shown what clients are shown.
applyModelOverlayForAdminVisible(base, overlay) == applyModelOverlay(base, overlay)

\* The panel also lists what is hidden, once each, so that it can be restored.
applyModelOverlayForAdmin(base, overlay) ==
    appendNew(applyModelOverlay(base, overlay), without(base, ModelIds \ hidden(overlay)))

-----------------------------------------------------------------------------
(* The edits of the panel *)

appendUnique(items, value) == IF Contains(items, value) THEN items ELSE Append(items, value)

\* Bug: a family goes with any of its members.
removePrefix(items, value) ==
    without(items, {value} \union {Family[id] : id \in {value} \intersect ModelIds})

removeString(items, value) == without(items, {value})

\* Bug: the place is looked up before the value is taken out of its old one.
moveStringStale(items, value, before) ==
    LET rest == removeString(items, value)
    IN  IF Contains(rest, before)
        THEN InsertAt(rest, SelectInSeq(items, LAMBDA item : item = before), value)
        ELSE Append(rest, value)

moveString(items, value, before) ==
    LET rest == removeString(items, value)
    IN  IF Contains(rest, before)
        THEN InsertAt(rest, SelectInSeq(rest, LAMBDA item : item = before), value)
        ELSE Append(rest, value)

\* What an action makes of the overlay it loaded; "add" looks at the catalog, and
\* a PUT brings its own.
edited(overlay, action, base) ==
    LET id == action.id
    IN  CASE action.kind = "hide" ->
               [overlay EXCEPT !.hide = appendUnique(@, id), !.order = removeString(@, id)]
          [] action.kind = "restore" ->
               [overlay EXCEPT !.hide = removeString(@, id)]
          [] action.kind = "add" ->
               [overlay EXCEPT !.add = IF Contains(base, id) THEN @ ELSE appendUnique(@, id),
                               !.hide = removeString(@, id)]
          [] action.kind = "move" ->
               [overlay EXCEPT !.order = moveString(@, id, action.before)]
          [] action.kind = "put" -> action.overlay
=============================================================================
