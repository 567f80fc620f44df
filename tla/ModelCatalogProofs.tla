------------------------ MODULE ModelCatalogProofs ------------------------
(***************************************************************************)
(* What holds of the catalog for any number of goroutines and accounts,    *)
(* for catalogs and overlays of any length, and for any sequence of        *)
(* editions, edits and configurations.                                     *)
(*                                                                         *)
(* What is shown was computed some steps earlier, from an overlay that was *)
(* loaded and catalogs that were pulled earlier still. CatalogInv says of  *)
(* each call what of that it still holds in hand. Edits and the            *)
(* configuration may overlap in any way: no theorem assumes an order.      *)
(***************************************************************************)
EXTENDS ModelCatalog, ModelOverlayProofs

-----------------------------------------------------------------------------
(* The invariant *)

\* What was asked is one of the calls, or what the answer to an edit has become.
Asked(p) ==
    /\ call[p].kind = "add" => call[p].id \in ModelIds
    /\ call[p].kind \in EditKinds \ {"put"} => call[p].id \in Entries
    /\ call[p].before # "" => call[p].kind \in {"move", "panel"}
    /\ pc[p] # "idle" => call[p].kind # "none"
    /\ pc[p] = "store" => call[p].kind \in EditKinds

\* A call starts with nothing in hand.
Rested(p) == pc[p] = "idle" => merged[p] = <<>> /\ ~failed[p]

\* An overlay that was loaded repeats nothing, other than in its deny list.
Loaded(p) == IsInjective(seen[p].order) /\ IsInjective(seen[p].add)

\* A list is shown what the overlay makes of what was merged.
Shown(p) ==
    /\ Answered(p, "list") => result[p] = applyModelOverlay(base(p), seen[p])
    /\ Answered(p, "panel") => result[p] = applyModelOverlayForAdmin(base(p), seen[p])

\* What a forced call has pulled, upstream has published since it began.
Since(p) == began[p]..edition
Fetched(p) ==
    pc[p] # "idle" /\ call[p].force =>
        /\ began[p] <= edition
        /\ ~failed[p] =>
              /\ pc[p] = "keep" => pulled[p] \in Since(p)
              /\ ToSet(merged[p]) \subseteq UNION {ToSet(Catalog(e)) : e \in Since(p)}

\* A model that was moved is in the order, and what it was dropped on is not before it.
Moved(p) ==
    LET c == call[p]
    IN  pc[p] # "idle" /\ c.kind = "panel" /\ c.before # "" /\ c.before # c.id =>
            LiesBefore(seen[p].order, c.id, c.before)

InHand(p) == Asked(p) /\ Rested(p) /\ Loaded(p) /\ Shown(p) /\ Fetched(p) /\ Moved(p)

CatalogInv == TypeOK /\ \A p \in Procs : InHand(p)

-----------------------------------------------------------------------------
(* What the operators return *)

LEMMA Nothing == NoOverlay \in Overlays /\ NoCall \in Requests
<1>1. \A S : <<>> \in Seq(S)
  OBVIOUS
<1>2. NoOverlay \in Overlays
  BY <1>1 DEF NoOverlay, Overlays
<1> QED
  BY <1>2 DEF NoCall, Requests

LEMMA EmptyList == <<>> \in Seq(ModelIds) /\ IsInjective(<<>>) /\ ToSet(<<>>) = {}
BY DEF IsInjective, ToSet

LEMMA CatalogType == \A e \in Editions : Catalog(e) \in Seq(ModelIds)
<1> SUFFICES ASSUME NEW e \in Editions
             PROVE  Catalog(e) \in Seq(ModelIds)
  OBVIOUS
<1>1. CASE e = 0
  BY <1>1, CatalogAssumption DEF Catalog
<1>2. CASE e # 0
  <2> DEFINE Lists == Seq(ModelIds) \ {<<>>}
  <2>1. Published \in Seq(Lists)
    BY CatalogAssumption
  <2> HIDE DEF Lists
  <2>2. e \in 1..Len(Published)
    BY <1>2, <2>1 DEF Editions
  <2>3. Published[e] \in Lists
    BY <2>1, <2>2
  <2> QED
    BY <1>2, <2>3 DEF Catalog, Lists
<1> QED
  BY <1>1, <1>2

\* A configuration yields a deny list of models and families.
LEMMA HiddenModelsType ==
    ASSUME NEW raw \in Configs \ {None}
    PROVE  /\ hiddenModels(raw) \in Seq(Entries)
           /\ ToSet(hiddenModels(raw)) \subseteq ModelIds \union Families
<1> DEFINE texts == yamlStringList(raw)
           E == Entries \union Nested
<1>1. raw \in Seq(E)
  BY CatalogAssumption
<1>2. ToSet(raw) \subseteq E
  BY <1>1, ItemsOf
<1> HIDE DEF E
<1>3. texts \in Seq(E) /\ ToSet(texts) = ToSet(raw) \ Nested
  BY <1>1, WithoutItems DEF yamlStringList
<1> HIDE DEF texts
<1>4. /\ sanitizeHideList(texts) \in Seq(E)
      /\ ToSet(sanitizeHideList(texts)) = ToSet(texts) \ Malformed
  BY <1>3, WithoutItems DEF sanitizeHideList
<1>5. ToSet(sanitizeHideList(texts)) \subseteq ModelIds \union Families
  BY <1>2, <1>3, <1>4 DEF E, Entries
<1>6. ModelIds \union Families \subseteq Entries
  BY DEF Entries
<1>7. sanitizeHideList(texts) \in Seq(Entries)
  <2> DEFINE s == sanitizeHideList(texts)
  <2>1. s \in Seq(E) /\ ToSet(s) \subseteq Entries
    BY <1>4, <1>5, <1>6
  <2> HIDE DEF s
  <2>2. s \in Seq(Entries)
    BY <2>1, ItemsOf
  <2> QED
    BY <2>2 DEF s
<1> QED
  BY <1>5, <1>7 DEF hiddenModels, texts

\* A merge brings in nothing but what it is given, and nothing twice.
LEMMA MergeItems ==
    ASSUME TypeOK, NEW p \in Procs, NEW models \in Seq(ModelIds)
    PROVE  /\ merge(p, models) \in Seq(ModelIds)
           /\ call[p].kind # "auth" => IsInjective(merge(p, models))
           /\ ToSet(merge(p, models)) \subseteq ToSet(merged[p]) \union ToSet(models)
<1> DEFINE s == merged[p]
<1>1. s \in Seq(ModelIds) /\ (call[p].kind # "auth" => IsInjective(s))
  BY DEF TypeOK
<1> HIDE DEF s
<1>2. /\ appendNew(s, models) \in Seq(ModelIds)
      /\ ToSet(appendNew(s, models)) = ToSet(s) \union ToSet(models)
      /\ IsInjective(s) => IsInjective(appendNew(s, models))
  BY <1>1, AppendNewItems
<1> QED
  BY <1>1, <1>2 DEF merge, s

LEMMA BaseType ==
    ASSUME TypeOK, NEW p \in Procs
    PROVE  base(p) \in Seq(ModelIds)
BY CatalogAssumption DEF TypeOK, base

\* What is stored is an overlay that hides by models and families, and repeats nothing.
LEMMA StorableType ==
    ASSUME NEW next \in Overlays, storable(next)
    PROVE  /\ ToSet(next.hide) \subseteq ModelIds \union Families
           /\ IsInjective(next.order) /\ IsInjective(next.add)
<1> DEFINE hide == next.hide
<1>1. hide \in Seq(Entries) /\ sanitizeHideList(hide) = hide
  BY DEF Overlays, storable
<1> HIDE DEF hide
<1>2. ToSet(hide) \subseteq Entries
  BY <1>1, ItemsOf
<1>3. ToSet(sanitizeHideList(hide)) = ToSet(hide) \ Malformed
  BY <1>1, WithoutItems DEF sanitizeHideList
<1>4. ToSet(hide) \subseteq ModelIds \union Families
  BY <1>1, <1>2, <1>3 DEF Entries
<1> QED
  BY <1>4 DEF hide, storable

LEMMA RequestFields ==
    ASSUME NEW c \in Requests
    PROVE  /\ c.kind \in EditKinds \union {"list", "auth", "panel", "none"}
           /\ c.overlay \in Overlays /\ c.force \in BOOLEAN
           /\ [c EXCEPT !.kind = "panel"] \in Requests
           /\ [c EXCEPT !.kind = "panel"].kind = "panel"
           /\ [c EXCEPT !.kind = "panel"].id = c.id
           /\ [c EXCEPT !.kind = "panel"].before = c.before
           /\ [c EXCEPT !.kind = "panel"].force = c.force
BY DEF Requests

\* What an edit makes of an overlay, and of its deny list: only "put" may take more
\* away than the entry that was named.
LEMMA EditedItems ==
    ASSUME NEW overlay0 \in Overlays, NEW c \in Requests, NEW models,
           c.kind \in EditKinds,
           c.kind \in EditKinds \ {"put"} => c.id \in Entries,
           c.kind = "add" => c.id \in ModelIds
    PROVE  LET next == edited(overlay0, c, models)
           IN  /\ next \in Overlays
               /\ c.kind = "put" => next = c.overlay
               /\ c.kind \in {"restore", "add"} =>
                     ToSet(next.hide) = ToSet(overlay0.hide) \ {c.id}
               /\ c.kind \in {"hide", "move"} => ToSet(overlay0.hide) \subseteq ToSet(next.hide)
               /\ c.kind = "move" => next.order = moveString(overlay0.order, c.id, c.before)
<1> DEFINE next == edited(overlay0, c, models)
           hide == overlay0.hide
           order == overlay0.order
           add == overlay0.add
<1>1. hide \in Seq(Entries) /\ order \in Seq(Entries) /\ add \in Seq(ModelIds)
  BY DEF Overlays
<1> HIDE DEF hide, order, add
<1>2. CASE c.kind = "hide"
  <2> DEFINE h == appendUnique(hide, c.id)
             o == removeString(order, c.id)
  <2>1. h \in Seq(Entries) /\ ToSet(h) = ToSet(hide) \union {c.id}
    BY <1>1, <1>2, AppendUniqueItems DEF EditKinds
  <2>2. o \in Seq(Entries)
    BY <1>1, WithoutItems DEF removeString
  <2>3. next = [overlay0 EXCEPT !.hide = h, !.order = o]
    BY <1>2 DEF edited, hide, order
  <2> HIDE DEF h, o, next
  <2>4. next \in Overlays /\ next.hide = h
    BY <2>1, <2>2, <2>3 DEF Overlays
  <2>5. ToSet(hide) \subseteq ToSet(next.hide)
    BY <2>1, <2>4
  <2> QED
    BY <1>2, <2>4, <2>5 DEF next, hide
<1>3. CASE c.kind = "restore"
  <2> DEFINE h == removeString(hide, c.id)
  <2>1. h \in Seq(Entries) /\ ToSet(h) = ToSet(hide) \ {c.id}
    BY <1>1, WithoutItems DEF removeString
  <2>2. next = [overlay0 EXCEPT !.hide = h]
    BY <1>3 DEF edited, hide
  <2> HIDE DEF h, next
  <2>3. next \in Overlays /\ next.hide = h
    BY <2>1, <2>2 DEF Overlays
  <2> QED
    BY <1>3, <2>1, <2>3 DEF next, hide
<1>4. CASE c.kind = "add"
  <2> DEFINE h == removeString(hide, c.id)
             a == IF Contains(models, c.id) THEN add ELSE appendUnique(add, c.id)
  <2>1. h \in Seq(Entries) /\ ToSet(h) = ToSet(hide) \ {c.id}
    BY <1>1, WithoutItems DEF removeString
  <2>2. a \in Seq(ModelIds)
    BY <1>1, <1>4, AppendUniqueItems
  <2>3. next = [overlay0 EXCEPT !.add = a, !.hide = h]
    BY <1>4 DEF edited, hide, add
  <2> HIDE DEF h, a, next
  <2>4. next \in Overlays /\ next.hide = h
    BY <2>1, <2>2, <2>3 DEF Overlays
  <2> QED
    BY <1>4, <2>1, <2>4 DEF next, hide
<1>5. CASE c.kind = "move"
  <2> DEFINE o == moveString(order, c.id, c.before)
  <2>1. o \in Seq(Entries)
    BY <1>1, <1>5, MoveStringPlaces DEF EditKinds
  <2>2. next = [overlay0 EXCEPT !.order = o]
    BY <1>5 DEF edited, order
  <2> HIDE DEF o, next
  <2>3. next \in Overlays /\ next.hide = overlay0.hide /\ next.order = o
    BY <2>1, <2>2 DEF Overlays
  <2> QED
    BY <1>5, <2>3 DEF next, o, order
<1>6. CASE c.kind = "put"
  <2>1. next = c.overlay
    BY <1>6 DEF edited
  <2>2. c.overlay \in Overlays
    BY DEF Requests
  <2> HIDE DEF next
  <2> QED
    BY <1>6, <2>1, <2>2 DEF next
<1> QED
  BY <1>2, <1>3, <1>4, <1>5, <1>6 DEF EditKinds

-----------------------------------------------------------------------------
(* Types *)

LEMMA InitType == Init => TypeOK
<1> SUFFICES ASSUME Init
             PROVE  TypeOK
  OBVIOUS
<1>1. PICK raw \in Configs \ {None} : overlay = [NoOverlay EXCEPT !.hide = hiddenModels(raw)]
  BY DEF Init
<1>2. /\ overlay \in Overlays /\ overlay.hide = hiddenModels(raw)
      /\ overlay.order = <<>> /\ overlay.add = <<>>
  BY <1>1, HiddenModelsType, Nothing DEF NoOverlay, Overlays
<1>3. /\ ToSet(overlay.hide) \subseteq ModelIds \union Families
      /\ IsInjective(overlay.order) /\ IsInjective(overlay.add)
  BY <1>2, HiddenModelsType, EmptyList
<1>4. 1 \in 1..Len(Published) /\ 0 \in Editions
  <2> DEFINE Lists == Seq(ModelIds) \ {<<>>}
  <2>1. Published \in Seq(Lists) /\ Published # <<>>
    BY CatalogAssumption
  <2> HIDE DEF Lists
  <2> QED
    BY <2>1 DEF Editions
<1>5. at \in [Procs -> Accounts]
  BY DEF Init
<1> QED
  BY <1>2, <1>3, <1>4, <1>5, EmptyList, Nothing DEF Init, TypeOK

\* The types need CatalogInv: a refused edit, and what a call is asked, are typed by it.
LEMMA TypeStep ==
    ASSUME CatalogInv, [Next]_vars
    PROVE  TypeOK'
<1> USE DEF CatalogInv
<1>1. ASSUME NEW p \in Procs, NEW c \in Calls[p], Begin(p, c)
      PROVE  TypeOK'
  <2>1. c \in Requests
    BY CatalogAssumption
  <2>2. /\ call' \in [Procs -> Requests] /\ call'[p] = c
        /\ \A q \in Procs \ {p} : call'[q] = call[q]
    BY <1>1, <2>1 DEF Begin, TypeOK
  <2>3. merged[p] = <<>>
    BY <1>1 DEF InHand, Rested, Begin
  <2>4. \A q \in Procs : call'[q].kind # "auth" => IsInjective(merged'[q])
    BY <1>1, <2>2, <2>3, EmptyList DEF Begin, TypeOK
  <2>5. {edition, 0} \subseteq Editions
    BY DEF TypeOK, Editions
  <2>6. /\ pc' \in [Procs -> {"idle", "collect", "pull", "keep", "store", "done"}]
        /\ seen' \in [Procs -> Overlays]
        /\ began' \in [Procs -> Editions]
    BY <1>1, <2>5 DEF Begin, TypeOK
  <2>7. left' \in [Procs -> SUBSET Accounts]
    <3> DEFINE Asks == CASE c.kind = "auth" -> {{a} : a \in Accounts}
                         [] c.kind \in EditKinds \ {"add"} -> {{}}
                         [] OTHER -> SUBSET Accounts
    <3>1. Asks \subseteq SUBSET Accounts
      OBVIOUS
    <3>2. \E accounts \in Asks : left' = [left EXCEPT ![p] = accounts]
      BY <1>1 DEF Begin
    <3> HIDE DEF Asks
    <3> QED
      BY <3>1, <3>2 DEF TypeOK
  <2> QED
    BY <1>1, <2>2, <2>4, <2>6, <2>7 DEF Begin, TypeOK, store
<1>2. ASSUME NEW p \in Procs, NEW a \in Accounts, TakeCached(p, a)
      PROVE  TypeOK'
  <2> DEFINE m == merge(p, Catalog(modelCache[a].edition))
  <2>1. modelCache[a].edition \in Editions
    BY <1>2 DEF TakeCached, warm, TypeOK
  <2>2. m \in Seq(ModelIds) /\ (call[p].kind # "auth" => IsInjective(m))
    BY <2>1, CatalogType, MergeItems
  <2> HIDE DEF m
  <2>3. merged' = [merged EXCEPT ![p] = m]
    BY <1>2 DEF TakeCached, m
  <2>4. merged' \in [Procs -> Seq(ModelIds)]
        /\ \A q \in Procs : call[q].kind # "auth" => IsInjective(merged'[q])
    BY <2>2, <2>3 DEF TypeOK
  <2> QED
    BY <1>2, <2>4 DEF TakeCached, TypeOK, store
<1>3. ASSUME NEW p \in Procs, NEW a \in Accounts, Pull(p, a)
      PROVE  TypeOK'
  BY <1>3 DEF Pull, TypeOK, store
<1>4. ASSUME NEW p \in Procs, FetchAnswers(p)
      PROVE  TypeOK'
  <2>1. edition \in Editions
    BY DEF TypeOK, Editions
  <2> QED
    BY <1>4, <2>1 DEF FetchAnswers, TypeOK, store
<1>5. ASSUME NEW p \in Procs, FetchFails(p)
      PROVE  TypeOK'
  <2> DEFINE previous == modelCache[at[p]]
             m == merge(p, Catalog(previous.edition))
  <2>1. CASE previous # None
    <3>1. previous.edition \in Editions
      BY <2>1 DEF TypeOK
    <3>2. m \in Seq(ModelIds) /\ (call[p].kind # "auth" => IsInjective(m))
      BY <3>1, CatalogType, MergeItems
    <3> HIDE DEF m
    <3>3. merged' = [merged EXCEPT ![p] = m] /\ pulled' = pulled
      BY <1>5, <2>1 DEF FetchFails, m
    <3>4. merged' \in [Procs -> Seq(ModelIds)]
          /\ \A q \in Procs : call[q].kind # "auth" => IsInjective(merged'[q])
      BY <3>2, <3>3 DEF TypeOK
    <3> QED
      BY <1>5, <2>1, <3>3, <3>4 DEF FetchFails, TypeOK, store
  <2>2. CASE previous = None
    <3>1. 0 \in Editions
      BY DEF TypeOK, Editions
    <3> QED
      BY <1>5, <2>2, <3>1 DEF FetchFails, TypeOK, store
  <2> QED
    BY <2>1, <2>2
<1>6. ASSUME NEW p \in Procs, Keep(p)
      PROVE  TypeOK'
  <2> DEFINE m == merge(p, Catalog(pulled[p]))
  <2>1. pulled[p] \in Editions /\ at[p] \in Accounts /\ 0 \in Editions
    BY DEF TypeOK, Editions
  <2>2. m \in Seq(ModelIds) /\ (call[p].kind # "auth" => IsInjective(m))
    BY <2>1, CatalogType, MergeItems
  <2> HIDE DEF m
  <2>3. merged' = [merged EXCEPT ![p] = m]
    BY <1>6 DEF Keep, m
  <2>4. merged' \in [Procs -> Seq(ModelIds)]
        /\ \A q \in Procs : call[q].kind # "auth" => IsInjective(merged'[q])
    BY <2>2, <2>3 DEF TypeOK
  <2>5. modelCache' \in [Accounts -> [edition : Editions, fresh : BOOLEAN] \union {None}]
    BY <1>6, <2>1 DEF Keep, TypeOK
  <2> QED
    BY <1>6, <2>1, <2>4, <2>5 DEF Keep, TypeOK, store
<1>7. ASSUME NEW p \in Procs, Answer(p)
      PROVE  TypeOK'
  <2>1. /\ applyModelOverlay(base(p), seen[p]) \in Seq(ModelIds)
        /\ applyModelOverlay(merged[p], overlay) \in Seq(ModelIds)
        /\ applyModelOverlayForAdmin(base(p), seen[p]) \in Seq(ModelIds)
    BY BaseType, ApplyItems, AdminItems DEF TypeOK
  <2>2. call[p].kind \in {"list", "auth", "panel"}
    BY <1>7 DEF Answer, Collected, InHand, Asked, TypeOK, Requests, EditKinds
  <2>3. \E l \in Seq(ModelIds) : result' = [result EXCEPT ![p] = l]
    BY <1>7, <2>1, <2>2 DEF Answer
  <2>4. result' \in [Procs -> Seq(ModelIds)]
    BY <2>3 DEF TypeOK
  <2> QED
    BY <1>7, <2>4 DEF Answer, TypeOK, store
<1>8. ASSUME NEW p \in Procs, Looked(p)
      PROVE  TypeOK'
  BY <1>8 DEF Looked, TypeOK, store
<1>9. ASSUME NEW p \in Procs, Store(p)
      PROVE  TypeOK'
  <2> DEFINE next == edited(seen[p], call[p], base(p))
  <2>1. next \in Overlays
    BY <1>9, EditedItems DEF Store, InHand, Asked, TypeOK
  <2>2. merged' \in [Procs -> Seq(ModelIds)]
        /\ \A q \in Procs : merged'[q] = IF q = p THEN <<>> ELSE merged[q]
    BY <1>9, EmptyList DEF Store, TypeOK
  <2> HIDE DEF next
  <2>3. CASE storable(next)
    <3>1. /\ ToSet(next.hide) \subseteq ModelIds \union Families
          /\ IsInjective(next.order) /\ IsInjective(next.add)
      BY <2>1, <2>3, StorableType
    <3>2. /\ overlay' = next /\ revision' = revision + 1
          /\ seen' = [seen EXCEPT ![p] = next]
          /\ call' = [call EXCEPT ![p].kind = "panel"]
          /\ \E accounts \in SUBSET Accounts : left' = [left EXCEPT ![p] = accounts]
          /\ pc' = [pc EXCEPT ![p] = "collect"]
      BY <1>9, <2>3 DEF Store, next
    <3>3. call' \in [Procs -> Requests] /\ \A q \in Procs \ {p} : call'[q] = call[q]
      BY <3>2, RequestFields DEF TypeOK
    <3>4. \A q \in Procs : call'[q].kind # "auth" => IsInjective(merged'[q])
      BY <2>2, <3>3, EmptyList DEF TypeOK
    <3>5. left' \in [Procs -> SUBSET Accounts] /\ seen' \in [Procs -> Overlays]
      BY <2>1, <3>2 DEF TypeOK
    <3> QED
      BY <1>9, <2>1, <2>2, <3>1, <3>2, <3>3, <3>4, <3>5 DEF Store, TypeOK
  <2>4. CASE ~storable(next)
    <3>1. pc' = [pc EXCEPT ![p] = "done"] /\ UNCHANGED <<overlay, revision, seen, call, left>>
      BY <1>9, <2>4 DEF Store, next, store
    <3>2. \A q \in Procs : call'[q].kind # "auth" => IsInjective(merged'[q])
      BY <2>2, <3>1, EmptyList DEF TypeOK
    <3> QED
      BY <1>9, <2>2, <3>1, <3>2 DEF Store, TypeOK
  <2> QED
    BY <2>3, <2>4
<1>10. ASSUME NEW p \in Procs, Deliver(p)
       PROVE  TypeOK'
  <2>1. 0 \in Editions
    BY DEF TypeOK, Editions
  <2>2. /\ merged' \in [Procs -> Seq(ModelIds)] /\ result' \in [Procs -> Seq(ModelIds)]
        /\ \A q \in Procs : merged'[q] = IF q = p THEN <<>> ELSE merged[q]
    BY <1>10, EmptyList DEF Deliver, TypeOK
  <2>3. /\ call' \in [Procs -> Requests] /\ seen' \in [Procs -> Overlays]
        /\ \A q \in Procs \ {p} : call'[q] = call[q]
    BY <1>10, Nothing DEF Deliver, TypeOK
  <2>4. \A q \in Procs : call'[q].kind # "auth" => IsInjective(merged'[q])
    BY <2>2, <2>3, EmptyList DEF TypeOK
  <2> QED
    BY <1>10, <2>1, <2>2, <2>3, <2>4 DEF Deliver, TypeOK, store
<1>11. ASSUME NEW raw \in Configs, Reconfigure(raw)
       PROVE  TypeOK'
  <2>1. raw \in Configs \ {None} /\ overlay' = [overlay EXCEPT !.hide = hiddenModels(raw)]
    BY <1>11 DEF Reconfigure
  <2>2. /\ overlay' \in Overlays /\ overlay'.hide = hiddenModels(raw)
        /\ overlay'.order = overlay.order /\ overlay'.add = overlay.add
    BY <2>1, HiddenModelsType DEF TypeOK, Overlays
  <2>3. ToSet(overlay'.hide) \subseteq ModelIds \union Families
    BY <2>1, <2>2, HiddenModelsType
  <2> QED
    BY <1>11, <2>2, <2>3 DEF Reconfigure, TypeOK
<1>12. ASSUME NEW a \in Accounts, Expire(a)
       PROVE  TypeOK'
  <2>1. modelCache' \in [Accounts -> [edition : Editions, fresh : BOOLEAN] \union {None}]
    BY <1>12 DEF Expire, TypeOK
  <2> QED
    BY <1>12, <2>1 DEF Expire, TypeOK, store
<1>13. ASSUME Publish
       PROVE  TypeOK'
  <2>1. edition' \in 1..Len(Published)
    <3> DEFINE Lists == Seq(ModelIds) \ {<<>>}
    <3>1. Published \in Seq(Lists)
      BY CatalogAssumption
    <3> HIDE DEF Lists
    <3> QED
      BY <1>13, <3>1 DEF Publish, TypeOK
  <2> QED
    BY <1>13, <2>1 DEF Publish, TypeOK, store
<1>14. CASE UNCHANGED vars
  BY <1>14 DEF vars, TypeOK
<1> QED
  BY <1>1, <1>2, <1>3, <1>4, <1>5, <1>6, <1>7, <1>8, <1>9, <1>10, <1>11, <1>12, <1>13, <1>14
     DEF Next, Work

-----------------------------------------------------------------------------
(* What a call has in hand *)

Hands(q) == <<pc[q], call[q], seen[q], began[q], merged[q], failed[q], result[q], pulled[q]>>

\* Another call's step leaves it alone, and so does a new edition.
LEMMA Aside ==
    ASSUME TypeOK, NEW q \in Procs, InHand(q), Hands(q)' = Hands(q),
           edition' \in Nat, edition <= edition'
    PROVE  InHand(q)'
<1>1. /\ pc'[q] = pc[q] /\ call'[q] = call[q] /\ seen'[q] = seen[q] /\ began'[q] = began[q]
      /\ merged'[q] = merged[q] /\ failed'[q] = failed[q] /\ result'[q] = result[q]
      /\ pulled'[q] = pulled[q]
  BY DEF Hands
<1>2. Asked(q)' /\ Rested(q)' /\ Loaded(q)' /\ Moved(q)'
  BY <1>1 DEF InHand, Asked, Rested, Loaded, Moved
<1>3. Shown(q)'
  BY <1>1 DEF InHand, Shown, Answered, base
<1>4. Fetched(q)'
  <2>1. began[q] \in Nat /\ edition \in Nat /\ pulled[q] \in Nat
    BY DEF TypeOK, Editions
  <2>2. Since(q)' = began[q]..edition' /\ Since(q) = began[q]..edition
    BY <1>1 DEF Since
  <2>3. Since(q) \subseteq Since(q)'
    BY <2>1, <2>2
  <2> SUFFICES ASSUME pc'[q] # "idle", call'[q].force
               PROVE  /\ began'[q] <= edition'
                      /\ ~failed'[q] =>
                            /\ pc'[q] = "keep" => pulled'[q] \in Since(q)'
                            /\ ToSet(merged'[q])
                                  \subseteq UNION {ToSet(Catalog(e)) : e \in Since(q)'}
    BY DEF Fetched
  <2>4. /\ began[q] <= edition
        /\ ~failed[q] =>
              /\ pc[q] = "keep" => pulled[q] \in Since(q)
              /\ ToSet(merged[q]) \subseteq UNION {ToSet(Catalog(e)) : e \in Since(q)}
    BY <1>1 DEF InHand, Fetched
  <2> HIDE DEF Since
  <2> QED
    BY <1>1, <2>1, <2>3, <2>4
<1> QED
  BY <1>2, <1>3, <1>4 DEF InHand

LEMMA NoOverlayFields == IsInjective(NoOverlay.order) /\ IsInjective(NoOverlay.add)
<1>1. NoOverlay.order = <<>> /\ NoOverlay.add = <<>>
  BY DEF NoOverlay
<1> QED
  BY <1>1, EmptyList

LEMMA NoCallFields == NoCall.kind = "none" /\ NoCall.before = ""
BY DEF NoCall

\* Nothing is in the hands of a goroutine that serves no call.
LEMMA IdleHands ==
    ASSUME NEW p \in Procs, pc[p] = "idle", call[p] = NoCall,
           seen[p] = NoOverlay, merged[p] = <<>>, failed[p] = FALSE
    PROVE  InHand(p)
<1>1. call[p].kind = "none" /\ call[p].before = ""
  BY NoCallFields
<1>2. Asked(p)
  BY <1>1 DEF Asked, EditKinds
<1>3. Rested(p) /\ Shown(p) /\ Fetched(p) /\ Moved(p)
  BY DEF Rested, Shown, Answered, Fetched, Moved
<1>4. Loaded(p)
  BY NoOverlayFields DEF Loaded
<1> QED
  BY <1>2, <1>3, <1>4 DEF InHand

LEMMA InitHands == Init => \A p \in Procs : InHand(p)
<1> SUFFICES ASSUME Init, NEW p \in Procs
             PROVE  InHand(p)
  OBVIOUS
<1>1. /\ pc[p] = "idle" /\ call[p] = NoCall /\ seen[p] = NoOverlay
      /\ merged[p] = <<>> /\ failed[p] = FALSE
  BY DEF Init
<1> QED
  BY <1>1, IdleHands

\* The editions of a forced call grow by what it merges.
LEMMA MergeFetched ==
    ASSUME TypeOK, NEW p \in Procs, NEW e \in Since(p), e \in Editions,
           ToSet(merged[p]) \subseteq UNION {ToSet(Catalog(i)) : i \in Since(p)}
    PROVE  ToSet(merge(p, Catalog(e))) \subseteq UNION {ToSet(Catalog(i)) : i \in Since(p)}
<1>1. ToSet(merge(p, Catalog(e))) \subseteq ToSet(merged[p]) \union ToSet(Catalog(e))
  BY CatalogType, MergeItems
<1> HIDE DEF Since
<1> QED
  BY <1>1

LEMMA HandsStep ==
    ASSUME CatalogInv, [Next]_vars, NEW q \in Procs
    PROVE  InHand(q)'
<1> USE DEF CatalogInv
<1>0. edition \in Nat /\ edition <= edition /\ InHand(q)
  BY DEF TypeOK
<1>1. ASSUME NEW p \in Procs, NEW c \in Calls[p], Begin(p, c)
      PROVE  InHand(q)'
  <2>1. CASE q # p
    <3>1. Hands(q)' = Hands(q) /\ edition' = edition
      BY <1>1, <2>1 DEF Begin, Hands, TypeOK
    <3> QED
      BY <1>0, <3>1, Aside
  <2>2. CASE q = p
    <3>1. /\ call'[q] = c /\ (c.force => began'[q] = edition) /\ edition' = edition
          /\ pc'[q] = IF c.kind \in EditKinds \ {"add"} THEN "store" ELSE "collect"
          /\ merged'[q] = <<>> /\ seen'[q] = overlay
      BY <1>1, <2>2 DEF Begin, TypeOK, InHand, Rested
    <3>2. /\ c.kind # "none"
          /\ c.kind \in EditKinds \ {"put"} => c.id \in Entries
          /\ c.kind = "add" => c.id \in ModelIds
          /\ c.before # "" => c.kind = "move"
      BY CatalogAssumption
    <3>3. Asked(q)' /\ Rested(q)' /\ Loaded(q)' /\ Shown(q)' /\ Moved(q)'
      BY <3>1, <3>2 DEF TypeOK, Asked, Rested, Loaded, Shown, Answered, Moved
    <3>4. Fetched(q)'
      BY <1>0, <3>1, EmptyList DEF Fetched
    <3> QED
      BY <3>3, <3>4 DEF InHand
  <2> QED
    BY <2>1, <2>2
<1>2. ASSUME NEW p \in Procs, NEW a \in Accounts, TakeCached(p, a)
      PROVE  InHand(q)'
  <2>1. CASE q # p
    <3>1. Hands(q)' = Hands(q) /\ edition' = edition
      BY <1>2, <2>1 DEF TakeCached, Hands, TypeOK
    <3> QED
      BY <1>0, <3>1, Aside
  <2>2. CASE q = p
    <3>1. /\ pc[q] = "collect" /\ ~call[q].force
          /\ UNCHANGED <<pc, call, seen, failed>>
      BY <1>2, <2>2 DEF TakeCached, warm
    <3>2. Asked(q)' /\ Rested(q)' /\ Loaded(q)' /\ Shown(q)' /\ Moved(q)' /\ Fetched(q)'
      BY <1>0, <3>1 DEF InHand, Asked, Rested, Loaded, Shown, Answered, Moved, Fetched
    <3> QED
      BY <3>2 DEF InHand
  <2> QED
    BY <2>1, <2>2
<1>3. ASSUME NEW p \in Procs, NEW a \in Accounts, Pull(p, a)
      PROVE  InHand(q)'
  <2>1. CASE q # p
    <3>1. Hands(q)' = Hands(q) /\ edition' = edition
      BY <1>3, <2>1 DEF Pull, Hands, TypeOK
    <3> QED
      BY <1>0, <3>1, Aside
  <2>2. CASE q = p
    <3>1. /\ pc[q] = "collect" /\ pc'[q] = "pull"
          /\ UNCHANGED <<edition, call, seen, began, merged, failed>>
      BY <1>3, <2>2 DEF Pull, TypeOK
    <3>2. Asked(q)' /\ Rested(q)' /\ Loaded(q)' /\ Shown(q)' /\ Moved(q)' /\ Fetched(q)'
      BY <1>0, <3>1 DEF InHand, Asked, Rested, Loaded, Shown, Answered, Moved, Fetched, Since
    <3> QED
      BY <3>2 DEF InHand
  <2> QED
    BY <2>1, <2>2
<1>4. ASSUME NEW p \in Procs, FetchAnswers(p)
      PROVE  InHand(q)'
  <2>1. CASE q # p
    <3>1. Hands(q)' = Hands(q) /\ edition' = edition
      BY <1>4, <2>1 DEF FetchAnswers, Hands, TypeOK
    <3> QED
      BY <1>0, <3>1, Aside
  <2>2. CASE q = p
    <3>1. /\ pc[q] = "pull" /\ pc'[q] = "keep" /\ pulled'[q] = edition
          /\ UNCHANGED <<edition, call, seen, began, merged, failed>>
      BY <1>4, <2>2 DEF FetchAnswers, TypeOK
    <3>2. Asked(q)' /\ Rested(q)' /\ Loaded(q)' /\ Shown(q)' /\ Moved(q)'
      BY <1>0, <3>1 DEF InHand, Asked, Rested, Loaded, Shown, Answered, Moved
    <3>3. Fetched(q)'
      <4>1. began[q] \in Nat
        BY DEF TypeOK, Editions
      <4> QED
        BY <1>0, <3>1, <4>1 DEF InHand, Fetched, Since
    <3> QED
      BY <3>2, <3>3 DEF InHand
  <2> QED
    BY <2>1, <2>2
<1>5. ASSUME NEW p \in Procs, FetchFails(p)
      PROVE  InHand(q)'
  <2>1. CASE q # p
    <3>1. Hands(q)' = Hands(q) /\ edition' = edition
      BY <1>5, <2>1 DEF FetchFails, Hands, TypeOK
    <3> QED
      BY <1>0, <3>1, Aside
  <2>2. CASE q = p
    <3>1. /\ pc[q] = "pull" /\ pc'[q] \in {"collect", "keep"} /\ failed'[q]
          /\ UNCHANGED <<edition, call, seen, began>>
      BY <1>5, <2>2 DEF FetchFails, TypeOK
    <3>2. Asked(q)' /\ Rested(q)' /\ Loaded(q)' /\ Shown(q)' /\ Moved(q)' /\ Fetched(q)'
      BY <1>0, <3>1 DEF InHand, Asked, Rested, Loaded, Shown, Answered, Moved, Fetched
    <3> QED
      BY <3>2 DEF InHand
  <2> QED
    BY <2>1, <2>2
<1>6. ASSUME NEW p \in Procs, Keep(p)
      PROVE  InHand(q)'
  <2>1. CASE q # p
    <3>1. Hands(q)' = Hands(q) /\ edition' = edition
      BY <1>6, <2>1 DEF Keep, Hands, TypeOK
    <3> QED
      BY <1>0, <3>1, Aside
  <2>2. CASE q = p
    <3>1. /\ pc[q] = "keep" /\ pc'[q] = "collect" /\ merged'[q] = merge(q, Catalog(pulled[q]))
          /\ UNCHANGED <<edition, call, seen, began, failed>>
      BY <1>6, <2>2 DEF Keep, TypeOK
    <3>2. Asked(q)' /\ Rested(q)' /\ Loaded(q)' /\ Shown(q)' /\ Moved(q)'
      BY <1>0, <3>1 DEF InHand, Asked, Rested, Loaded, Shown, Answered, Moved
    <3>3. Fetched(q)'
      <4> SUFFICES ASSUME call[q].force
                   PROVE  /\ began[q] <= edition
                          /\ ~failed[q] => ToSet(merge(q, Catalog(pulled[q])))
                                \subseteq UNION {ToSet(Catalog(e)) : e \in Since(q)}
        BY <3>1 DEF Fetched, Since
      <4>1. /\ began[q] <= edition
            /\ ~failed[q] =>
                  /\ pulled[q] \in Since(q)
                  /\ ToSet(merged[q]) \subseteq UNION {ToSet(Catalog(e)) : e \in Since(q)}
        BY <1>0, <3>1 DEF InHand, Fetched
      <4>2. pulled[q] \in Editions
        BY DEF TypeOK
      <4> QED
        BY <4>1, <4>2, MergeFetched
    <3> QED
      BY <3>2, <3>3 DEF InHand
  <2> QED
    BY <2>1, <2>2
<1>7. ASSUME NEW p \in Procs, Answer(p)
      PROVE  InHand(q)'
  <2>1. CASE q # p
    <3>1. Hands(q)' = Hands(q) /\ edition' = edition
      BY <1>7, <2>1 DEF Answer, Hands, TypeOK
    <3> QED
      BY <1>0, <3>1, Aside
  <2>2. CASE q = p
    <3>1. /\ pc[q] = "collect" /\ pc'[q] = "done"
          /\ UNCHANGED <<edition, call, seen, began, merged, failed>>
      BY <1>7, <2>2 DEF Answer, Collected, TypeOK
    <3>2. Asked(q)' /\ Rested(q)' /\ Loaded(q)' /\ Moved(q)' /\ Fetched(q)'
      BY <1>0, <3>1 DEF InHand, Asked, Rested, Loaded, Moved, Fetched, Since
    <3>3. Shown(q)'
      <4>1. /\ call[q].kind = "list" => result'[q] = applyModelOverlay(base(q), seen[q])
            /\ call[q].kind = "panel" =>
                  result'[q] = applyModelOverlayForAdmin(base(q), seen[q])
        BY <1>7, <2>2 DEF Answer, TypeOK
      <4> QED
        BY <3>1, <4>1 DEF Shown, Answered, base
    <3> QED
      BY <3>2, <3>3 DEF InHand
  <2> QED
    BY <2>1, <2>2
<1>8. ASSUME NEW p \in Procs, Looked(p)
      PROVE  InHand(q)'
  <2>1. CASE q # p
    <3>1. Hands(q)' = Hands(q) /\ edition' = edition
      BY <1>8, <2>1 DEF Looked, Hands, TypeOK
    <3> QED
      BY <1>0, <3>1, Aside
  <2>2. CASE q = p
    <3>1. /\ pc[q] = "collect" /\ pc'[q] = "store" /\ call[q].kind \in EditKinds
          /\ UNCHANGED <<edition, call, seen, began, merged, failed>>
      BY <1>8, <2>2 DEF Looked, Collected, TypeOK
    <3>2. Asked(q)' /\ Rested(q)' /\ Loaded(q)' /\ Shown(q)' /\ Moved(q)' /\ Fetched(q)'
      BY <1>0, <3>1 DEF InHand, Asked, Rested, Loaded, Shown, Answered, Moved, Fetched, Since
    <3> QED
      BY <3>2 DEF InHand
  <2> QED
    BY <2>1, <2>2
<1>9. ASSUME NEW p \in Procs, Store(p)
      PROVE  InHand(q)'
  <2>1. CASE q # p
    <3>1. Hands(q)' = Hands(q) /\ edition' = edition
      BY <1>9, <2>1 DEF Store, Hands, TypeOK, store
    <3> QED
      BY <1>0, <3>1, Aside
  <2>2. CASE q = p
    <3> DEFINE next == edited(seen[q], call[q], base(q))
    <3>1. /\ pc[q] = "store" /\ pc'[q] \in {"collect", "done"}
          /\ merged'[q] = <<>> /\ failed'[q] = FALSE
          /\ call[q] \in Requests /\ seen[q] \in Overlays /\ began[q] \in Nat
          /\ UNCHANGED <<edition, began>>
      BY <1>9, <2>2 DEF Store, TypeOK, Editions
    <3>2. /\ call[q].kind \in EditKinds
          /\ call[q].kind \in EditKinds \ {"put"} => call[q].id \in Entries
          /\ call[q].kind = "add" => call[q].id \in ModelIds
          /\ call[q].before # "" => call[q].kind = "move"
          /\ call[q].force => began[q] <= edition
      BY <1>0, <3>1 DEF InHand, Asked, Fetched, EditKinds
    <3>3. /\ next \in Overlays
          /\ call[q].kind = "move" =>
                next.order = moveString(seen[q].order, call[q].id, call[q].before)
      BY <3>1, <3>2, EditedItems
    <3> HIDE DEF next
    <3>4. CASE pc'[q] = "collect"
      <4>1. /\ seen'[q] = next
            /\ call'[q] = [call[q] EXCEPT !.kind = "panel"]
        BY <1>9, <2>2, <3>4 DEF Store, TypeOK, next
      <4>2. /\ call'[q].kind = "panel" /\ call'[q].id = call[q].id
            /\ call'[q].before = call[q].before /\ call'[q].force = call[q].force
        BY <3>1, <4>1, RequestFields
      <4>3. Asked(q)' /\ Rested(q)' /\ Shown(q)'
        BY <3>4, <4>2 DEF Asked, Rested, Shown, Answered, EditKinds
      <4>6. Loaded(q)'
        <5>1. storable(next)
          BY <1>9, <2>2, <3>4 DEF Store, TypeOK, next
        <5> QED
          BY <3>3, <4>1, <5>1, StorableType DEF Loaded
      <4>4. Fetched(q)'
        BY <3>1, <3>2, <3>4, <4>2, EmptyList DEF Fetched
      <4>5. Moved(q)'
        <5> SUFFICES ASSUME call[q].before # "", call[q].before # call[q].id
                     PROVE  LiesBefore(next.order, call[q].id, call[q].before)
          BY <4>1, <4>2 DEF Moved
        <5>1. seen[q].order \in Seq(Entries) /\ call[q].id \in Entries
          BY <3>1, <3>2 DEF Overlays, EditKinds
        <5> QED
          BY <3>2, <3>3, <5>1, MoveStringPlaces
      <4> QED
        BY <4>3, <4>4, <4>5, <4>6 DEF InHand
    <3>5. CASE pc'[q] = "done"
      <4>1. call' = call /\ seen' = seen
        BY <1>9, <2>2, <3>5 DEF Store, TypeOK
      <4>2. Asked(q)' /\ Rested(q)' /\ Loaded(q)' /\ Shown(q)' /\ Moved(q)'
        BY <1>0, <3>1, <3>2, <3>5, <4>1
           DEF InHand, Asked, Rested, Loaded, Shown, Answered, Moved, EditKinds
      <4>3. Fetched(q)'
        BY <3>1, <3>2, <3>5, <4>1, EmptyList DEF Fetched
      <4> QED
        BY <4>2, <4>3 DEF InHand
    <3> QED
      BY <3>1, <3>4, <3>5
  <2> QED
    BY <2>1, <2>2
<1>10. ASSUME NEW p \in Procs, Deliver(p)
       PROVE  InHand(q)'
  <2>1. CASE q # p
    <3>1. Hands(q)' = Hands(q) /\ edition' = edition
      BY <1>10, <2>1 DEF Deliver, Hands, TypeOK
    <3> QED
      BY <1>0, <3>1, Aside
  <2>2. CASE q = p
    <3>1. /\ pc'[q] = "idle" /\ call'[q] = NoCall /\ seen'[q] = NoOverlay
          /\ merged'[q] = <<>> /\ failed'[q] = FALSE
      BY <1>10, <2>2 DEF Deliver, TypeOK
    <3>2. call'[q].kind = "none" /\ call'[q].before = ""
      BY <3>1, NoCallFields
    <3>3. Asked(q)'
      BY <3>1, <3>2 DEF Asked, EditKinds
    <3>4. Rested(q)' /\ Shown(q)' /\ Fetched(q)' /\ Moved(q)'
      BY <3>1 DEF Rested, Shown, Answered, Fetched, Moved
    <3>5. Loaded(q)'
      BY <3>1, NoOverlayFields DEF Loaded
    <3> QED
      BY <3>3, <3>4, <3>5 DEF InHand
  <2> QED
    BY <2>1, <2>2
<1>11. CASE (\E raw \in Configs : Reconfigure(raw)) \/ (\E a \in Accounts : Expire(a))
            \/ UNCHANGED vars
  <2>1. Hands(q)' = Hands(q) /\ edition' = edition
    BY <1>11 DEF Reconfigure, Expire, vars, Hands
  <2> QED
    BY <1>0, <2>1, Aside
<1>12. CASE Publish
  <2>1. Hands(q)' = Hands(q) /\ edition' = edition + 1
    BY <1>12 DEF Publish, Hands
  <2> QED
    BY <1>0, <2>1, Aside
<1> QED
  BY <1>1, <1>2, <1>3, <1>4, <1>5, <1>6, <1>7, <1>8, <1>9, <1>10, <1>11, <1>12 DEF Next, Work

-----------------------------------------------------------------------------
(* Theorems *)

LEMMA InvHolds == Spec => []CatalogInv
<1>1. Init => CatalogInv
  BY InitType, InitHands DEF CatalogInv
<1>2. CatalogInv /\ [Next]_vars => CatalogInv'
  BY TypeStep, HandsStep DEF CatalogInv
<1> QED
  BY <1>1, <1>2, PTL DEF Spec

\* Every variable of the catalog keeps its type; no stored overlay orders or adds an
\* entry twice, and no merged catalog names a model twice (storeModelOverlay,
\* catalogMerger.add).
THEOREM TypeCorrect == Spec => []TypeOK
<1>1. CatalogInv => TypeOK
  BY DEF CatalogInv
<1> QED
  BY <1>1, InvHolds, PTL

\* Whatever edits and pulls overlap, the panel's answer lists every model the
\* accounts have, the hidden ones as well (models.go:157-162, applyModelOverlayForAdmin).
THEOREM PanelIsComplete == Spec => []PanelShowsAll
<1>1. CatalogInv => PanelShowsAll
  <2> SUFFICES ASSUME CatalogInv, NEW p \in Procs, Answered(p, "panel")
               PROVE  ToSet(base(p)) \subseteq ToSet(result[p])
    BY DEF PanelShowsAll
  <2>1. TypeOK /\ result[p] = applyModelOverlayForAdmin(base(p), seen[p])
    BY DEF CatalogInv, InHand, Shown
  <2>2. base(p) \in Seq(ModelIds) /\ seen[p] \in Overlays
    BY <2>1, BaseType DEF TypeOK
  <2> QED
    BY <2>1, <2>2, AdminItems
<1> QED
  BY <1>1, InvHolds, PTL

\* No list for CPA and no answer to the panel names a model twice, but one that the
\* user added and that is in the catalog by now (catalogMerger.add, applyModelOverlay).
\* It holds of catalogs and overlays of any length, as no overlay that is loaded
\* orders or adds a model twice.
THEOREM NamedOnce == Spec => []ListedOnce
<1>1. CatalogInv => ListedOnce
  <2> SUFFICES ASSUME CatalogInv, NEW p \in Procs,
                      Answered(p, "list") \/ Answered(p, "panel")
               PROVE  RepeatsOnly(result[p], ToSet(base(p)) \intersect ToSet(seen[p].add))
    BY DEF ListedOnce, RepeatsOnly
  <2> DEFINE o == seen[p]
             b == base(p)
             X == ToSet(b) \intersect ToSet(o.add)
  <2>1. /\ TypeOK /\ call[p].kind # "auth"
        /\ \/ result[p] = applyModelOverlay(b, o)
           \/ result[p] = applyModelOverlayForAdmin(b, o)
    BY DEF CatalogInv, InHand, Shown, Answered
  <2>2. IsInjective(b)
    BY <2>1, CatalogAssumption DEF TypeOK, base
  <2>3. b \in Seq(ModelIds) /\ o \in Overlays
    BY <2>1, BaseType DEF TypeOK
  <2>4. IsInjective(o.order) /\ IsInjective(o.add)
    BY DEF CatalogInv, InHand, Loaded
  <2> HIDE DEF o, b
  <2>5. RepeatsOnly(applyModelOverlay(b, o), X)
    BY <2>2, <2>3, <2>4, ApplyRepeats
  <2> HIDE DEF X
  <2>6. RepeatsOnly(applyModelOverlayForAdmin(b, o), X)
    BY <2>3, <2>5, AdminItems
  <2>7. RepeatsOnly(result[p], X)
    BY <2>1, <2>5, <2>6
  <2> QED
    BY <2>7 DEF X, o, b
<1> QED
  BY <1>1, InvHolds, PTL

\* After a move the panel's answer has the model before the one it was dropped on,
\* whatever other edits and pulls came in between (moveString, applyModelOverlay).
THEOREM MovesLand == Spec => []MoveLands
<1>1. CatalogInv => MoveLands
  <2> SUFFICES ASSUME CatalogInv, NEW p \in Procs,
                      Answered(p, "panel"), call[p].before # "", call[p].before # call[p].id,
                      {call[p].id, call[p].before} \subseteq ToSet(base(p)),
                      ~hides(seen[p].hide, call[p].id), ~hides(seen[p].hide, call[p].before)
               PROVE  Precedes(result[p], call[p].id, call[p].before)
    BY DEF MoveLands
  <2>1. TypeOK /\ result[p] = applyModelOverlayForAdmin(base(p), seen[p])
    BY DEF CatalogInv, InHand, Shown
  <2>2. base(p) \in Seq(ModelIds) /\ seen[p] \in Overlays
    BY <2>1, BaseType DEF TypeOK
  <2>3. /\ call[p].id \in ToSet(base(p)) \ hidden(seen[p])
        /\ call[p].before \in ToSet(base(p)) \ hidden(seen[p])
    BY DEF hidden
  <2>4. PICK k \in DOMAIN seen[p].order :
                /\ seen[p].order[k] = call[p].id
                /\ \A j \in 1..k : seen[p].order[j] # call[p].before
    BY DEF CatalogInv, InHand, Moved, Answered, LiesBefore
  <2>5. IndexOf(result[p], call[p].id) < IndexOf(result[p], call[p].before)
    BY <2>1, <2>2, <2>3, <2>4, OrderedFirst
  <2> QED
    BY <2>5 DEF Precedes, IndexOf
<1> QED
  BY <1>1, InvHolds, PTL

\* The answer to a forced refresh that reports no failed pull has nothing but what
\* upstream has published since it began and what the user added
\* (fetchModelsForAuthWithError, management.go:293-296).
THEOREM RefreshIsHonest == Spec => []RefreshTellsTheTruth
<1>1. CatalogInv => RefreshTellsTheTruth
  <2> SUFFICES ASSUME CatalogInv, NEW p \in Procs, Answered(p, "panel"), call[p].force,
                      merged[p] # <<>>, ~failed[p], NEW id \in ToSet(result[p])
               PROVE  \/ Contains(seen[p].add, id)
                      \/ \E e \in began[p]..edition : Contains(Catalog(e), id)
    BY DEF RefreshTellsTheTruth
  <2>1. TypeOK /\ result[p] = applyModelOverlayForAdmin(base(p), seen[p])
    BY DEF CatalogInv, InHand, Shown
  <2>2. base(p) \in Seq(ModelIds) /\ seen[p] \in Overlays /\ base(p) = merged[p]
    BY <2>1, BaseType DEF TypeOK, base
  <2>3. id \in ToSet(base(p)) \/ id \in ToSet(seen[p].add)
    BY <2>1, <2>2, AdminItems
  <2>4. CASE id \in ToSet(seen[p].add)
    <3>1. seen[p].add \in Seq(ModelIds)
      BY <2>2 DEF Overlays
    <3> QED
      BY <2>4, <3>1, ItemsOf
  <2>5. CASE id \in ToSet(merged[p])
    <3>1. ToSet(merged[p]) \subseteq UNION {ToSet(Catalog(e)) : e \in Since(p)}
      BY DEF CatalogInv, InHand, Fetched, Answered
    <3>2. PICK e \in Since(p) : id \in ToSet(Catalog(e))
      BY <2>5, <3>1
    <3>3. e \in Editions /\ e \in began[p]..edition
      BY <2>1, <3>2 DEF Since, TypeOK, Editions
    <3>4. Contains(Catalog(e), id)
      BY <3>2, <3>3, CatalogType, ItemsOf
    <3> QED
      BY <3>3, <3>4
  <2> QED
    BY <2>2, <2>3, <2>4, <2>5
<1> QED
  BY <1>1, InvHolds, PTL

\* A call is over when its list is answered or its edit refused.
LEMMA WhatAnswers ==
    ASSUME CatalogInv, [Next]_vars, NEW p \in Procs, pc[p] # "done", pc'[p] = "done"
    PROVE  Answer(p) \/ (Store(p) /\ call[p].kind \in EditKinds)
<1>1. TypeOK /\ (pc[p] = "store" => call[p].kind \in EditKinds)
  BY DEF CatalogInv, InHand, Asked
<1> USE DEF TypeOK
<1>2. ASSUME NEW q \in Procs, Work(q)
      PROVE  Answer(p) \/ Store(p)
  <2>1. ASSUME NEW c \in Calls[q], Begin(q, c)  PROVE FALSE
    BY <1>1, <2>1 DEF Begin
  <2>2. ASSUME NEW a \in Accounts, TakeCached(q, a) \/ Pull(q, a)  PROVE FALSE
    BY <1>1, <2>2 DEF TakeCached, Pull
  <2>3. ASSUME FetchAnswers(q) \/ FetchFails(q) \/ Keep(q)  PROVE FALSE
    BY <1>1, <2>3 DEF FetchAnswers, FetchFails, Keep
  <2>4. ASSUME Looked(q) \/ Deliver(q)  PROVE FALSE
    BY <1>1, <2>4 DEF Looked, Deliver
  <2>5. ASSUME Answer(q)  PROVE q = p
    BY <1>1, <2>5 DEF Answer
  <2>6. ASSUME Store(q)  PROVE q = p
    BY <1>1, <2>6 DEF Store
  <2> QED
    BY <1>2, <2>1, <2>2, <2>3, <2>4, <2>5, <2>6 DEF Work
<1>3. ASSUME \/ \E raw \in Configs : Reconfigure(raw)
             \/ \E a \in Accounts : Expire(a)
             \/ Publish
             \/ UNCHANGED vars
      PROVE  FALSE
  BY <1>3 DEF Reconfigure, Expire, Publish, vars
<1>4. Answer(p) \/ Store(p)
  BY <1>2, <1>3 DEF Next
<1> QED
  BY <1>1, <1>4 DEF Store

\* What applyModelOverlay returns holds nothing that the overlay it was given hides.
LEMMA NothingHidden ==
    ASSUME NEW list \in Seq(ModelIds), NEW o \in Overlays
    PROVE  \A id \in ToSet(applyModelOverlay(list, o)) : ~hides(o.hide, id)
<1>1. /\ applyModelOverlay(list, o) \in Seq(ModelIds)
      /\ ToSet(applyModelOverlay(list, o)) = (ToSet(list) \union ToSet(o.add)) \ hidden(o)
  BY ApplyItems
<1>2. ToSet(applyModelOverlay(list, o)) \subseteq ModelIds
  BY <1>1, ItemsOf
<1> QED
  BY <1>1, <1>2 DEF hidden

\* No list that CPA gets has a model that was hidden when the list was asked for and
\* is hidden when it is answered (README.md:62, applyModelOverlay). No assumption on
\* the order of edits is needed.
THEOREM HiddenIsNotListed == Spec => HiddenNeverListed
<1> DEFINE Clean(p) ==
        Answers(p, {"list", "auth"}) =>
          \A id \in ToSet(result'[p]) : ~(hides(seen[p].hide, id) /\ hides(overlay.hide, id))
           AllClean == \A p \in Procs : Clean(p)
<1>1. CatalogInv /\ [Next]_vars => [AllClean]_vars
  <2> SUFFICES ASSUME CatalogInv, [Next]_vars, NEW p \in Procs, Answers(p, {"list", "auth"}),
                      NEW id \in ToSet(result'[p])
               PROVE  ~(hides(seen[p].hide, id) /\ hides(overlay.hide, id))
    OBVIOUS
  <2>1. pc[p] # "done" /\ pc'[p] = "done" /\ call[p].kind \in {"list", "auth"}
    BY DEF Answers
  <2>2. Answer(p)
    BY <2>1, WhatAnswers DEF EditKinds
  <2>3. TypeOK
    BY DEF CatalogInv
  <2>4. CASE call[p].kind = "list"
    <3>1. result'[p] = applyModelOverlay(base(p), seen[p])
      BY <2>2, <2>3, <2>4 DEF Answer, TypeOK
    <3>2. base(p) \in Seq(ModelIds) /\ seen[p] \in Overlays
      BY <2>3, BaseType DEF TypeOK
    <3> QED
      BY <3>1, <3>2, NothingHidden
  <2>5. CASE call[p].kind = "auth"
    <3>1. result'[p] = applyModelOverlay(merged[p], overlay)
      BY <2>2, <2>3, <2>5 DEF Answer, TypeOK
    <3>2. merged[p] \in Seq(ModelIds) /\ overlay \in Overlays
      BY <2>3 DEF TypeOK
    <3> QED
      BY <3>1, <3>2, NothingHidden
  <2> QED
    BY <2>1, <2>4, <2>5
<1> QED
  BY <1>1, InvHolds, PTL DEF Spec, HiddenNeverListed

-----------------------------------------------------------------------------
(* Edits *)

LEMMA StoreSteps ==
    ASSUME CatalogInv, NEW p \in Procs, Store(p)
    PROVE  /\ pc[p] = "store"
           /\ \/ overlay' = edited(seen[p], call[p], base(p)) /\ pc'[p] = "collect"
              \/ overlay' = overlay
<1>1. TypeOK /\ pc[p] = "store"
  BY DEF CatalogInv, Store
<1>2. CASE storable(edited(seen[p], call[p], base(p)))
  BY <1>1, <1>2 DEF Store, TypeOK
<1>3. CASE ~storable(edited(seen[p], call[p], base(p)))
  BY <1>1, <1>3 DEF Store, store
<1> QED
  BY <1>2, <1>3

\* Only a store and the configuration change the overlay.
LEMMA WhatEdits ==
    ASSUME [Next]_vars, overlay' # overlay
    PROVE  \/ \E p \in Procs : Store(p)
           \/ \E raw \in Configs : Reconfigure(raw)
<1>1. ASSUME NEW p \in Procs, Work(p)
      PROVE  Store(p)
  BY <1>1 DEF Work, Begin, TakeCached, Pull, FetchAnswers, FetchFails, Keep, Answer, Looked,
              Deliver, store
<1>2. ~((\E a \in Accounts : Expire(a)) \/ Publish \/ UNCHANGED vars)
  BY DEF Expire, Publish, vars, store
<1> QED
  BY <1>1, <1>2 DEF Next

\* Whatever edits, reloads and pulls overlap, a hidden model comes back by an act that
\* names what hides it, by an overlay put in its place, by the configuration, or by an
\* edit that had loaded the overlay before the model was hidden, and by nothing else
\* (handleModelAction, storeModelOverlay, configureModels).
THEOREM HiddenIsKept == Spec => HiddenStaysHidden
<1> DEFINE Undone(id) ==
        hides(overlay.hide, id) /\ ~hides(overlay'.hide, id) =>
          \/ \E p \in Procs :
                /\ pc[p] = "store" /\ pc'[p] = "collect"
                /\ \/ call[p].kind \in {"restore", "add"} /\ call[p].id \in {id, Family[id]}
                   \/ call[p].kind = "put" /\ ~hides(call[p].overlay.hide, id)
                   \/ call[p].kind # "put" /\ ~hides(seen[p].hide, id)
          \/ \E raw \in Configs : Reconfigure(raw)
           AllUndone == \A id \in ModelIds : Undone(id)
<1>1. CatalogInv /\ [Next]_vars => [AllUndone]_vars
  <2> SUFFICES ASSUME CatalogInv, [Next]_vars, NEW id \in ModelIds,
                      hides(overlay.hide, id), ~hides(overlay'.hide, id)
               PROVE  Undone(id)
    OBVIOUS
  <2>1. overlay' # overlay
    OBVIOUS
  <2>2. CASE \E raw \in Configs : Reconfigure(raw)
    BY <2>2
  <2>3. ASSUME NEW p \in Procs, Store(p)
        PROVE  Undone(id)
    <3> DEFINE next == edited(seen[p], call[p], base(p))
               c == call[p]
    <3>1. /\ pc[p] = "store" /\ pc'[p] = "collect" /\ overlay' = next
      BY <2>1, <2>3, StoreSteps
    <3>2. /\ c \in Requests /\ seen[p] \in Overlays /\ c.kind \in EditKinds
          /\ c.kind \in EditKinds \ {"put"} => c.id \in Entries
          /\ c.kind = "add" => c.id \in ModelIds
      BY <3>1 DEF CatalogInv, TypeOK, InHand, Asked
    <3>3. /\ next \in Overlays
          /\ c.kind = "put" => next = c.overlay
          /\ c.kind \in {"restore", "add"} => ToSet(next.hide) = ToSet(seen[p].hide) \ {c.id}
          /\ c.kind \in {"hide", "move"} => ToSet(seen[p].hide) \subseteq ToSet(next.hide)
      BY <3>2, EditedItems
    <3> HIDE DEF next
    <3>4. seen[p].hide \in Seq(Entries) /\ next.hide \in Seq(Entries)
      BY <3>2, <3>3 DEF Overlays
    <3>5. CASE c.kind = "put"
      <4>1. ~hides(c.overlay.hide, id)
        BY <3>1, <3>3, <3>5
      <4> QED
        BY <3>1, <3>5, <4>1
    <3>6. CASE c.kind # "put" /\ ~hides(seen[p].hide, id)
      BY <3>1, <3>6
    <3>7. CASE c.kind # "put" /\ hides(seen[p].hide, id)
      <4>1. /\ id \in ToSet(seen[p].hide) \/ Family[id] \in ToSet(seen[p].hide)
            /\ id \notin ToSet(next.hide) /\ Family[id] \notin ToSet(next.hide)
        BY <3>1, <3>4, <3>7, HidesItems
      <4>2. c.kind \in {"restore", "add"}
        BY <3>2, <3>3, <3>7, <4>1 DEF EditKinds
      <4>3. c.id \in {id, Family[id]}
        BY <3>3, <4>1, <4>2
      <4> QED
        BY <3>1, <4>2, <4>3
    <3> QED
      BY <3>5, <3>6, <3>7
  <2> QED
    BY <2>1, <2>2, <2>3, WhatEdits
<1> QED
  BY <1>1, InvHolds, PTL DEF Spec, HiddenStaysHidden
=============================================================================
