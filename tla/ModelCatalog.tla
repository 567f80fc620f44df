---------------------------- MODULE ModelCatalog ----------------------------
(***************************************************************************)
(* The model catalog (models.go) and the routes and methods that serve it: *)
(* the lists CPA registers, the list of one account, the panel's catalog   *)
(* and the panel's edits of the overlay (management.go:291-383).           *)
(*                                                                         *)
(* A call pulls the catalog of each account through modelCache, merges     *)
(* what it got and applies an overlay. No lock spans any two of its steps. *)
(* Upstream publishes one edition of its catalog after another; the list   *)
(* the plugin was built with stands in where a pull fails.                 *)
(***************************************************************************)
EXTENDS ModelOverlay

CONSTANTS
    Procs,          \* goroutines that serve calls
    Accounts,       \* the plugin's accounts
    None,           \* no cache entry; a configuration that cannot be read
    Calls,          \* the calls each of them may serve
    Configs,        \* what the host configures: a list of hidden_models, or None
    Nested,         \* items of such a list that are not scalars
    Published,      \* the catalog of each edition: a sequence of sequences
    fallbackModels, \* the built-in list
    MaxRevision     \* bound: changes of the overlay

EditKinds == {"hide", "restore", "add", "move", "put"}
Requests ==
    [kind : EditKinds \union {"list", "auth", "panel", "none"}, id : Entries \union {""},
     before : Entries \union {""}, force : BOOLEAN, overlay : Overlays]

\* An action names an entry, and "add" a model; only "move" has a place to name,
\* and only the panel's refresh skips the cache.
ASSUME CatalogAssumption ==
    /\ fallbackModels \in Seq(ModelIds) /\ IsInjective(fallbackModels)
    /\ Published \in Seq(Seq(ModelIds) \ {<<>>}) /\ Published # <<>>
    /\ Configs \ {None} \subseteq Seq(Entries \union Nested)
    /\ \A p \in Procs : \A c \in Calls[p] :
          /\ c \in Requests /\ c.kind # "none"
          /\ c.kind \in EditKinds \ {"put"} => c.id \in Entries
          /\ c.kind = "add" => c.id \in ModelIds
          /\ c.before # "" => c.kind = "move"
          /\ c.force => c.kind = "panel"
    /\ MaxRevision \in Nat

VARIABLES
    edition,        \* what upstream publishes now
    modelCache,     \* per account: the edition it holds (0: built in) and if it is fresh
    overlay, revision,  \* currentModelOverlayState
    pc, call,       \* where each call is, and what was asked
    seen,           \* the overlay the call loaded
    began,          \* the edition upstream published when a forced call began
    left,           \* accounts it has yet to look at
    at,             \* the account it is pulling
    pulled,         \* the edition it got
    merged,         \* catalogMerger.merged
    failed,         \* refreshErr
    result          \* the list it answers with

vars == <<edition, modelCache, overlay, revision,
          pc, call, seen, began, left, at, pulled, merged, failed, result>>
store == <<overlay, revision>>

Editions == 0..Len(Published)
Catalog(e) == IF e = 0 THEN fallbackModels ELSE Published[e]
NoOverlay == [hide |-> <<>>, order |-> <<>>, add |-> <<>>]
NoCall == [kind |-> "none", id |-> "", before |-> "", force |-> FALSE, overlay |-> NoOverlay]

\* yamlStringList takes the scalars of the list; without a payload, the key or a
\* list there are none. An entry that is repeated stays repeated.
yamlStringList(raw) == without(raw, Nested)
hiddenModels(raw) == sanitizeHideList(yamlStringList(raw))

TypeOK ==
    /\ edition \in 1..Len(Published)
    /\ modelCache \in [Accounts -> [edition : Editions, fresh : BOOLEAN] \union {None}]
    /\ overlay \in Overlays /\ ToSet(overlay.hide) \subseteq ModelIds \union Families
    /\ IsInjective(overlay.order) /\ IsInjective(overlay.add)
    /\ revision \in Nat
    /\ pc \in [Procs -> {"idle", "collect", "pull", "keep", "store", "done"}]
    /\ call \in [Procs -> Requests]
    /\ seen \in [Procs -> Overlays]
    /\ began \in [Procs -> Editions]
    /\ left \in [Procs -> SUBSET Accounts]
    /\ at \in [Procs -> Accounts]
    /\ pulled \in [Procs -> Editions]
    /\ merged \in [Procs -> Seq(ModelIds)]
    /\ failed \in [Procs -> BOOLEAN]
    /\ result \in [Procs -> Seq(ModelIds)]
    /\ \A p \in Procs : call[p].kind # "auth" => IsInjective(merged[p])

Init ==
    /\ edition = 1
    /\ modelCache = [a \in Accounts |-> None]
    /\ \E raw \in Configs \ {None} : overlay = [NoOverlay EXCEPT !.hide = hiddenModels(raw)]
    /\ revision = 0
    /\ pc = [p \in Procs |-> "idle"]
    /\ call = [p \in Procs |-> NoCall]
    /\ seen = [p \in Procs |-> NoOverlay]
    /\ began = [p \in Procs |-> 0]
    /\ left = [p \in Procs |-> {}]
    /\ at \in {[p \in Procs |-> a] : a \in Accounts}
    /\ pulled = [p \in Procs |-> 0]
    /\ merged = [p \in Procs |-> <<>>]
    /\ failed = [p \in Procs |-> FALSE]
    /\ result = [p \in Procs |-> <<>>]

-----------------------------------------------------------------------------
(* A call and its pulls *)

\* The overlay is loaded first; "add" and every list then go through the
\* catalogs, the other edits straight to the store. A list of one account looks
\* at that account alone; any other at those accounts whose files the host lists,
\* hands out and parseStored can read, and at no account if it lists none.
Begin(p, c) ==
    /\ pc[p] = "idle"
    /\ c.kind \in EditKinds => revision < MaxRevision
    /\ call' = [call EXCEPT ![p] = c]
    /\ seen' = [seen EXCEPT ![p] = overlay]
    /\ began' = [began EXCEPT ![p] = IF c.force THEN edition ELSE 0]
    /\ pc' = [pc EXCEPT ![p] = IF c.kind \in EditKinds \ {"add"} THEN "store" ELSE "collect"]
    /\ \E accounts \in CASE c.kind = "auth" -> {{a} : a \in Accounts}
                          [] c.kind \in EditKinds \ {"add"} -> {{}}
                          [] OTHER -> SUBSET Accounts :
         left' = [left EXCEPT ![p] = accounts]
    /\ UNCHANGED <<edition, modelCache, store, at, pulled, merged, failed, result>>

\* catalogMerger.add: what another account already contributed is skipped; the
\* list of one account takes its catalog as it is.
merge(p, models) ==
    IF call[p].kind = "auth" THEN models ELSE appendNew(merged[p], models)

warm(p, a) == ~call[p].force /\ modelCache[a] # None /\ modelCache[a].fresh

\* Under modelCacheMu: the entry is fresh, its models are taken.
TakeCached(p, a) ==
    /\ pc[p] = "collect" /\ a \in left[p]
    /\ warm(p, a)
    /\ merged' = [merged EXCEPT ![p] = merge(p, Catalog(modelCache[a].edition))]
    /\ left' = [left EXCEPT ![p] = @ \ {a}]
    /\ UNCHANGED <<edition, modelCache, store, pc, call, seen, began, at, pulled, failed, result>>

Pull(p, a) ==
    /\ pc[p] = "collect" /\ a \in left[p]
    /\ ~warm(p, a)
    /\ at' = [at EXCEPT ![p] = a]
    /\ left' = [left EXCEPT ![p] = @ \ {a}]
    /\ pc' = [pc EXCEPT ![p] = "pull"]
    /\ UNCHANGED <<edition, modelCache, store, call, seen, began, pulled, merged, failed, result>>

FetchAnswers(p) ==
    /\ pc[p] = "pull"
    /\ pulled' = [pulled EXCEPT ![p] = edition]
    /\ pc' = [pc EXCEPT ![p] = "keep"]
    /\ UNCHANGED <<edition, modelCache, store, call, seen, began, left, at, merged, failed, result>>

\* Bug: the error of a pull is dropped once a list could be put together.
FetchFailsQuietly(p) ==
    /\ pc[p] = "pull"
    /\ LET previous == modelCache[at[p]]
       IN  IF previous # None
           THEN /\ merged' = [merged EXCEPT ![p] = merge(p, Catalog(previous.edition))]
                /\ pc' = [pc EXCEPT ![p] = "collect"]
                /\ UNCHANGED pulled
           ELSE /\ pulled' = [pulled EXCEPT ![p] = 0]
                /\ pc' = [pc EXCEPT ![p] = "keep"]
                /\ UNCHANGED merged
    /\ UNCHANGED <<edition, modelCache, store, call, seen, began, left, at, failed, result>>

\* The pull fails: what the cache held stays and serves; with nothing there the
\* built-in list is kept for a full TTL.
FetchFails(p) ==
    /\ pc[p] = "pull"
    /\ failed' = [failed EXCEPT ![p] = TRUE]
    /\ LET previous == modelCache[at[p]]
       IN  IF previous # None
           THEN /\ merged' = [merged EXCEPT ![p] = merge(p, Catalog(previous.edition))]
                /\ pc' = [pc EXCEPT ![p] = "collect"]
                /\ UNCHANGED pulled
           ELSE /\ pulled' = [pulled EXCEPT ![p] = 0]
                /\ pc' = [pc EXCEPT ![p] = "keep"]
                /\ UNCHANGED merged
    /\ UNCHANGED <<edition, modelCache, store, call, seen, began, left, at, result>>

\* Under modelCacheMu again: the pull is cached, whatever came in between.
Keep(p) ==
    /\ pc[p] = "keep"
    /\ modelCache' = [modelCache EXCEPT ![at[p]] = [edition |-> pulled[p], fresh |-> TRUE]]
    /\ merged' = [merged EXCEPT ![p] = merge(p, Catalog(pulled[p]))]
    /\ pulled' = [pulled EXCEPT ![p] = 0]
    /\ pc' = [pc EXCEPT ![p] = "collect"]
    /\ UNCHANGED <<edition, store, call, seen, began, left, at, failed, result>>

-----------------------------------------------------------------------------
(* What becomes of it *)

Collected(p) == pc[p] = "collect" /\ left[p] = {}

\* baseModelCatalog: the built-in list if no account contributed a model.
base(p) == IF merged[p] = <<>> THEN fallbackModels ELSE merged[p]

\* A list is ready: the overlay was loaded before the pulls, except for the list
\* of one account, which takes the one of this moment.
Answer(p) ==
    /\ Collected(p) /\ call[p].kind \notin EditKinds
    /\ result' = [result EXCEPT ![p] =
          CASE call[p].kind = "list"  -> applyModelOverlay(base(p), seen[p])
            [] call[p].kind = "auth"  -> applyModelOverlay(merged[p], overlay)
            [] call[p].kind = "panel" -> applyModelOverlayForAdmin(base(p), seen[p])]
    /\ pc' = [pc EXCEPT ![p] = "done"]
    /\ UNCHANGED <<edition, modelCache, store, call, seen, began, left, at, pulled, merged, failed>>

\* "add" has the catalog it needed.
Looked(p) ==
    /\ Collected(p) /\ call[p].kind \in EditKinds
    /\ pc' = [pc EXCEPT ![p] = "store"]
    /\ UNCHANGED <<edition, modelCache, store, call, seen, began, left, at, pulled, merged,
                   failed, result>>

\* storeModelOverlay writes the whole overlay, made from the one that was loaded,
\* and the route answers with the panel's catalog; a refusal answers 400.
Store(p) ==
    /\ pc[p] = "store"
    /\ LET next == edited(seen[p], call[p], base(p))
       IN  IF storable(next)
           THEN /\ overlay' = next
                /\ revision' = revision + 1
                /\ seen' = [seen EXCEPT ![p] = next]
                /\ call' = [call EXCEPT ![p].kind = "panel"]
                /\ \E accounts \in SUBSET Accounts : left' = [left EXCEPT ![p] = accounts]
                /\ pc' = [pc EXCEPT ![p] = "collect"]
           ELSE /\ pc' = [pc EXCEPT ![p] = "done"]
                /\ UNCHANGED <<store, seen, call, left>>
    /\ merged' = [merged EXCEPT ![p] = <<>>]
    /\ failed' = [failed EXCEPT ![p] = FALSE]
    /\ UNCHANGED <<edition, modelCache, began, at, pulled, result>>

Deliver(p) ==
    /\ pc[p] = "done"
    /\ pc' = [pc EXCEPT ![p] = "idle"]
    /\ call' = [call EXCEPT ![p] = NoCall]
    /\ seen' = [seen EXCEPT ![p] = NoOverlay]
    /\ began' = [began EXCEPT ![p] = 0]
    /\ merged' = [merged EXCEPT ![p] = <<>>]
    /\ failed' = [failed EXCEPT ![p] = FALSE]
    /\ result' = [result EXCEPT ![p] = <<>>]
    /\ UNCHANGED <<edition, modelCache, store, left, at, pulled>>

-----------------------------------------------------------------------------
(* Around the calls *)

\* CPA loads the plugin's configuration anew: one that is not JSON or YAML is
\* refused; from any other configureModels takes the deny list and nothing else.
Reconfigure(raw) ==
    /\ raw # None
    /\ revision < MaxRevision
    /\ overlay' = [overlay EXCEPT !.hide = hiddenModels(raw)]
    /\ revision' = revision + 1
    /\ UNCHANGED <<edition, modelCache, pc, call, seen, began, left, at, pulled, merged,
                   failed, result>>

\* modelCacheTTL has passed.
Expire(a) ==
    /\ modelCache[a] # None /\ modelCache[a].fresh
    /\ modelCache' = [modelCache EXCEPT ![a].fresh = FALSE]
    /\ UNCHANGED <<edition, store, pc, call, seen, began, left, at, pulled, merged, failed, result>>

Publish ==
    /\ edition < Len(Published)
    /\ edition' = edition + 1
    /\ UNCHANGED <<modelCache, store, pc, call, seen, began, left, at, pulled, merged, failed,
                   result>>

Work(p) ==
    \/ \E c \in Calls[p] : Begin(p, c)
    \/ \E a \in Accounts : TakeCached(p, a) \/ Pull(p, a)
    \/ FetchAnswers(p) \/ FetchFails(p) \/ Keep(p)
    \/ Answer(p) \/ Looked(p) \/ Store(p) \/ Deliver(p)

Next ==
    \/ \E p \in Procs : Work(p)
    \/ \E raw \in Configs : Reconfigure(raw)
    \/ \E a \in Accounts : Expire(a)
    \/ Publish

Spec == Init /\ [][Next]_vars

-----------------------------------------------------------------------------
(* Properties *)

Answers(p, kinds) == pc[p] # "done" /\ pc'[p] = "done" /\ call[p].kind \in kinds
Answered(p, kind) == pc[p] = "done" /\ call[p].kind = kind
Precedes(list, id, other) ==
    SelectInSeq(list, LAMBDA x : x = id) < SelectInSeq(list, LAMBDA x : x = other)

\* No model that is hidden when a list is asked for and when it is answered is in
\* the list, published upstream or added by the user, in whatever edition the
\* pulls in between brought it: "Hidden IDs never reach the host model registry"
\* (README.md:62), applyModelOverlay.
HiddenNeverListed ==
    [][\A p \in Procs : Answers(p, {"list", "auth"}) =>
          \A id \in ToSet(result'[p]) : ~(hides(seen[p].hide, id) /\ hides(overlay.hide, id))]_vars

\* A hidden model, were it hidden by its family alone, comes back only by a restore or
\* add that names what hides it, an overlay put in its place, the configuration, or
\* an edit that had loaded the overlay before the model was hidden: no lock is held
\* from the load to the store of the whole overlay (handleModelAction,
\* storeModelOverlay, configureModels), so that of two edits that overlap the later
\* store undoes the other. An edit that overlaps none brings back what it names alone.
HiddenStaysHidden ==
    [][\A id \in ModelIds : hides(overlay.hide, id) /\ ~hides(overlay'.hide, id) =>
          \/ \E p \in Procs :
                /\ pc[p] = "store" /\ pc'[p] = "collect"
                /\ \/ call[p].kind \in {"restore", "add"} /\ call[p].id \in {id, Family[id]}
                   \/ call[p].kind = "put" /\ ~hides(call[p].overlay.hide, id)
                   \/ call[p].kind # "put" /\ ~hides(seen[p].hide, id)
          \/ \E raw \in Configs : Reconfigure(raw)]_vars

\* The panel lists every model the accounts have, the hidden ones as well: one it
\* does not show can be neither hidden nor restored (models.go:157-162).
PanelShowsAll ==
    \A p \in Procs : Answered(p, "panel") => ToSet(base(p)) \subseteq ToSet(result[p])

\* However many accounts, editions and edits a list was made from, it names a model
\* twice only if upstream has come to publish what the user had added
\* (catalogMerger.add, applyModelOverlay, storeModelOverlay).
ListedOnce ==
    \A p \in Procs : Answered(p, "list") \/ Answered(p, "panel") =>
        \A m, n \in DOMAIN result[p] : m # n /\ result[p][m] = result[p][n] =>
            result[p][m] \in ToSet(base(p)) \intersect ToSet(seen[p].add)

\* After a move the panel finds the model before the one it was dropped on, if the
\* accounts have both and neither is hidden, whatever edits and pulls came
\* before (moveString, applyModelOverlay).
MoveLands ==
    \A p \in Procs :
        LET c == call[p]
        IN  /\ Answered(p, "panel") /\ c.before # "" /\ c.before # c.id
            /\ {c.id, c.before} \subseteq ToSet(base(p))
            /\ ~hides(seen[p].hide, c.id) /\ ~hides(seen[p].hide, c.before)
            => Precedes(result[p], c.id, c.before)

\* A forced refresh that found an account either says that a pull failed or shows
\* nothing but what upstream has published since it was asked for and what the
\* user added (management.go:293-296; README.md:17, 22).
RefreshTellsTheTruth ==
    \A p \in Procs :
        Answered(p, "panel") /\ call[p].force /\ merged[p] # <<>> /\ ~failed[p] =>
            \A id \in ToSet(result[p]) :
                \/ Contains(seen[p].add, id)
                \/ \E e \in began[p]..edition : Contains(Catalog(e), id)

\* A cache entry that holds an upstream catalog never falls back to the built-in
\* list: "A failed pull keeps whatever was cached before rather than storing the
\* built in fallback" (models.go:357-358). It does: a pull that fails looks before
\* another pull has stored its catalog, and stores after it.
FailedPullKeepsCatalog ==
    [][\A a \in Accounts : modelCache[a] # None /\ modelCache[a].edition # 0 =>
          modelCache'[a].edition # 0]_vars
=============================================================================
