------------------------------ MODULE AuthFile ------------------------------
(***************************************************************************)
(* The credential files of one Cline account, which the plugin and its     *)
(* host both write: persist and fileJSON (token.go:233-283), the rename    *)
(* and delete routes of the panel (management.go:204-289, host_auth.go),   *)
(* the save that ends a login, and the host's own edits.                   *)
(*                                                                         *)
(* No lock covers a file: a writer reads the document, builds a new one    *)
(* and hands it to host.auth.save as a whole. A request that refreshes the *)
(* account parsed, when it began, the copy of the document that the host   *)
(* handed it; that copy may predate what the plugin has saved since.       *)
(* Token pairs are numbered in the order they are issued; a later pair     *)
(* expires later.                                                          *)
(***************************************************************************)
EXTENDS Naturals

CONSTANTS
    Procs,      \* goroutines at work on the files
    None,       \* no document
    Nicks,      \* names a user may give the account
    Names,      \* names it may have at Cline
    Kinds,      \* requests that occur: "execute", "refresh", "merge"
    FailingSaves,   \* the saves host.auth.save may refuse: "save", "saveName"
    Orderly,    \* TRUE: user and host keep the order stated at Quiet
    Punctual,   \* TRUE: a pair is saved before the next one is granted
    Abreast,    \* TRUE: the host has what a rename or a login saved at once
    MaxPairs    \* bound: token pairs issued

\* The empty string: no name, no note.
Blank == ""

ASSUME NamesAssumption == Nicks \intersect Names = {} /\ Blank \notin Nicks \union Names
ASSUME KindsAssumption == Kinds \subseteq {"execute", "refresh", "merge"}
ASSUME FlagsAssumption == {Orderly, Punctual, Abreast} \subseteq BOOLEAN
ASSUME BoundsAssumption == MaxPairs \in Nat \ {0}

VARIABLES
    docs,       \* the auth directory: document by file name
    host,       \* what parses of the host's copy of each document
    newest,     \* the token pair Cline issued last
    live,       \* the pairs whose refresh token Cline accepts
    display,    \* the name Cline has for the account
    cached,     \* the account's entry in credentialCache
    pc, kind,   \* where each goroutine is and what it does
    target,     \* the file it works on
    sa,         \* the credential it holds
    raw,        \* the document it read
    wanted,     \* the name it is to give
    gone        \* history: its file was deleted since it began

vars == <<docs, host, newest, live, display, cached, pc, kind, target, sa, raw, wanted, gone>>
job == <<kind, target, sa, raw, wanted>>

\* cline.json, where an imported credential lives, and cline-<account>.json.
Files == {"shared", "own"}

\* authFileNameFor: an account that is known has a file of its own.
authFileNameFor == "own"

Given == Nicks \union Names \union {Blank}
Docs == [pair: 0..MaxPairs, name: Names, nick: Given, label: Given \ {Blank},
         note: Nicks \union {Blank}, disabled: BOOLEAN]
ASSUME NoneAssumption == None \notin Docs
Credentials == [pair: 0..MaxPairs, name: Names \union {Blank}, nick: Given]
NoCredential == [pair |-> 0, name |-> Blank, nick |-> Blank]

-----------------------------------------------------------------------------
(* What the code makes of a document *)

\* A custom name, or else the one Cline has.
clineAccountLabel(c) == IF c.nick # Blank THEN c.nick ELSE c.name

\* Older builds kept the custom name in the note, or only in the label.
legacyNickname(doc) ==
    CASE doc.note # Blank -> doc.note
      [] doc.note = Blank /\ doc.label # doc.name -> doc.label
      [] OTHER -> Blank

\* The nickname parseStored finds in a document.
parsedNickname(doc) == IF doc.nick # Blank THEN doc.nick ELSE legacyNickname(doc)

\* The credential parseStored makes of it, and the name the panel shows for it.
parsed(doc) == [pair |-> doc.pair, name |-> doc.name, nick |-> parsedNickname(doc)]
shown(doc) == clineAccountLabel(parsed(doc))
copyOf(doc) == IF doc = None THEN None ELSE parsed(doc)

\* A document from nothing: enabled, no note.
buildAuthFileJSON(c) ==
    [pair |-> c.pair, name |-> c.name, nick |-> c.nick, label |-> clineAccountLabel(c),
     note |-> Blank, disabled |-> FALSE]

\* Bug: an account without a nickname gets a blank label.
fileJSONBlankLabel(c, doc) ==
    IF doc = None THEN buildAuthFileJSON(c)
    ELSE [doc EXCEPT !.pair = c.pair, !.name = c.name, !.nick = c.nick, !.label = c.nick]

\* Bug: the document is always rebuilt, whatever the file holds.
fileJSONFromScratch(c, doc) == buildAuthFileJSON(c)

\* The credential's tokens and account in the document that was read; a file
\* that could not be read is built anew.
fileJSON(c, doc) ==
    IF doc = None THEN buildAuthFileJSON(c)
    ELSE [doc EXCEPT !.pair = c.pair, !.name = c.name, !.nick = c.nick,
                     !.label = clineAccountLabel(c)]

\* Bug: only the account record survives a rename.
rewriteAccountOnly(doc, name) ==
    [doc EXCEPT !.note = Blank, !.nick = name, !.label = name, !.pair = 0]

\* Bug: the rename forgets the label the host displays.
rewriteWithoutLabel(doc, name) == [doc EXCEPT !.note = Blank, !.nick = name]

\* A rename sets the nickname and the label and removes the note.
rewriteAuthFileNickname(doc, name) ==
    [doc EXCEPT !.note = Blank, !.nick = name, !.label = name]

\* Bug: the account of the answer replaces the one that is stored.
rotatedAnew(c, n, name) == [pair |-> n, name |-> name, nick |-> Blank]

\* requestTokenRefresh takes the tokens and the name of the answer; the nickname,
\* which Cline does not know, stays.
rotated(c, n, name) == [c EXCEPT !.pair = n, !.name = name]

-----------------------------------------------------------------------------
Stages == {"idle", "asked", "apply", "read", "save", "enrich", "saveName"}

TypeOK ==
    /\ docs \in [Files -> Docs \union {None}]
    /\ host \in [Files -> Credentials \union {None}]
    /\ newest \in 1..MaxPairs
    /\ live \subseteq 1..MaxPairs
    /\ display \in Names
    /\ cached \in Credentials
    /\ pc \in [Procs -> Stages]
    /\ kind \in [Procs -> Kinds \union {"none", "enriched", "rename"}]
    /\ target \in [Procs -> Files]
    /\ sa \in [Procs -> Credentials]
    /\ raw \in [Procs -> Docs \union {None}]
    /\ wanted \in [Procs -> Given]
    /\ gone \in [Procs -> BOOLEAN]

\* An account imported as cline.json, or one that logged in: plain, named by an
\* older build in the note or the label only, or named by this one.
InitialDocs(name) ==
    LET Doc(nick, label, note) ==
            [pair |-> 1, name |-> name, nick |-> nick, label |-> label, note |-> note,
             disabled |-> FALSE]
    IN  {Doc(Blank, name, Blank)} \union
        UNION {{Doc(Blank, name, x), Doc(Blank, x, Blank), Doc(x, x, Blank)} : x \in Nicks}

Init ==
    /\ display \in Names
    /\ \E f \in Files, doc \in InitialDocs(display) :
         docs = [n \in Files |-> IF n = f THEN doc ELSE None]
    /\ host = [f \in Files |-> copyOf(docs[f])]
    /\ newest = 1
    /\ live = {1}
    /\ cached = NoCredential
    /\ pc = [p \in Procs |-> "idle"]
    /\ kind = [p \in Procs |-> "none"]
    /\ target = [p \in Procs |-> "own"]
    /\ sa = [p \in Procs |-> NoCredential]
    /\ raw = [p \in Procs |-> None]
    /\ wanted = [p \in Procs |-> Blank]
    /\ gone = [p \in Procs |-> FALSE]

\* An orderly user renames, annotates, deletes or replaces an account while no
\* request is refreshing it, and logs in again only where the account has no
\* other file; an orderly host edits no file between a read and its save.
Quiet == Orderly => \A p \in Procs : pc[p] = "idle"
Unread == Orderly => \A p \in Procs : pc[p] \notin {"save", "saveName"}
Renaming == Orderly /\ \E p \in Procs : pc[p] = "saveName"

\* It has a pair that it has yet to save.
Persisting(p) == pc[p] \in {"apply", "read", "save", "enrich"}

\* The host's copy after the plugin saved file f for the user: the new document if
\* the host keeps abreast, and else the old one until HostReload.
HostTakesIn(f) == host' = IF Abreast THEN [host EXCEPT ![f] = copyOf(docs'[f])] ELSE host

-----------------------------------------------------------------------------
(* A request refreshes the account *)

\* A request parses the host's copy of file f; newCredential prefers the cache when
\* that is newer, and a refresh the host asks for is then answered at once. The
\* model catalog's merge passes no path, so its file is named after the account.
Begin(p, f, k) ==
    /\ pc[p] = "idle" /\ host[f] # None /\ ~Renaming
    /\ k = "refresh" => cached.pair <= host[f].pair
    /\ sa' = [sa EXCEPT ![p] = IF cached.pair > host[f].pair THEN cached ELSE host[f]]
    /\ target' = [target EXCEPT ![p] = IF k = "merge" THEN authFileNameFor ELSE f]
    /\ kind' = [kind EXCEPT ![p] = k]
    /\ pc' = [pc EXCEPT ![p] = "asked"]
    /\ UNCHANGED <<docs, host, newest, live, display, cached, raw, wanted, gone>>

EndJob(p) ==
    /\ pc' = [pc EXCEPT ![p] = "idle"]
    /\ kind' = [kind EXCEPT ![p] = "none"]
    /\ target' = [target EXCEPT ![p] = "own"]
    /\ sa' = [sa EXCEPT ![p] = NoCredential]
    /\ raw' = [raw EXCEPT ![p] = None]
    /\ wanted' = [wanted EXCEPT ![p] = Blank]
    /\ gone' = [gone EXCEPT ![p] = FALSE]

\* Its refresh is granted; the answer, which may bring the name, is cached and goes
\* to every request that joined the flight. A request asks when its pair is due or
\* was answered 401. Nothing in the code makes a grant wait for the save of an
\* earlier one: a punctual plugin saves a pair in the hour until the next is due.
Refreshed(p) ==
    /\ pc[p] = "asked" /\ sa[p].pair \in live /\ newest < MaxPairs
    /\ Punctual => \A q \in Procs : ~Persisting(q)
    /\ newest' = newest + 1
    /\ live' = (live \ {sa[p].pair}) \union {newest'}
    /\ \E name \in {sa[p].name, display} : cached' = rotated(sa[p], newest', name)
    /\ \E flight \in SUBSET {q \in Procs : pc[q] = "asked"} :
         /\ p \in flight
         /\ sa' = [q \in Procs |-> IF q \in flight THEN cached' ELSE sa[q]]
         /\ pc' = [q \in Procs |-> IF q \in flight THEN "apply" ELSE pc[q]]
    /\ UNCHANGED <<docs, host, display, kind, target, raw, wanted, gone>>

\* Nothing was due or is due any more, or the refresh failed.
Unchanged(p) ==
    /\ pc[p] = "asked"
    /\ EndJob(p)
    /\ UNCHANGED <<docs, host, newest, live, display, cached>>

\* The refresh failed and the pair is not due yet: the host's own refresh goes on
\* with the pair it has, and saves that.
Deferred(p) ==
    /\ pc[p] = "asked" /\ kind[p] = "refresh"
    /\ Punctual => sa[p].pair = newest
    /\ pc' = [pc EXCEPT ![p] = "enrich"]
    /\ UNCHANGED <<docs, host, newest, live, display, cached, job, gone>>

\* apply caches what it was given once more and persists; without a path fileJSON
\* reads nothing.
Apply(p) ==
    /\ pc[p] = "apply"
    /\ cached' = sa[p]
    /\ pc' = [pc EXCEPT ![p] = IF kind[p] = "merge" THEN "save" ELSE "read"]
    /\ UNCHANGED <<docs, host, newest, live, display, job, gone>>

\* fileJSON reads the file at its path.
ReadFile(p) ==
    /\ pc[p] = "read"
    /\ raw' = [raw EXCEPT ![p] = docs[target[p]]]
    /\ pc' = [pc EXCEPT ![p] = "save"]
    /\ UNCHANGED <<docs, host, newest, live, display, cached, kind, target, sa, wanted, gone>>

\* After persist, which only logs a save that failed: an execution serves its
\* request, which a 401 may make ask again; a refresh of the host's is enriched.
Persisted(p) ==
    \/ /\ kind[p] \in {"execute", "refresh"}
       /\ pc' = [pc EXCEPT ![p] = IF kind[p] = "refresh" THEN "enrich" ELSE "asked"]
       /\ raw' = [raw EXCEPT ![p] = None]
       /\ UNCHANGED <<kind, target, sa, wanted, gone>>
    \/ kind[p] \notin {"execute", "refresh"} /\ EndJob(p)

\* Bug: the save goes to the account's own file, not to the one that was read.
SaveCredentialOwn(p) ==
    /\ pc[p] = "save"
    /\ docs' = [docs EXCEPT !["own"] = fileJSON(sa[p], raw[p])]
    /\ Persisted(p)
    /\ UNCHANGED <<host, newest, live, display, cached>>

\* host.auth.save replaces the file.
SaveCredential(p) ==
    /\ pc[p] = "save"
    /\ docs' = [docs EXCEPT ![target[p]] = fileJSON(sa[p], raw[p])]
    /\ Persisted(p)
    /\ UNCHANGED <<host, newest, live, display, cached>>

\* enrichAndPersist fetches the account snapshot, which may bring another name,
\* caches the credential and persists it a second time.
Enrich(p) ==
    /\ pc[p] = "enrich"
    /\ \E name \in {sa[p].name, display} : cached' = [sa[p] EXCEPT !.name = name]
    /\ sa' = [sa EXCEPT ![p] = cached']
    /\ kind' = [kind EXCEPT ![p] = "enriched"]
    /\ pc' = [pc EXCEPT ![p] = "read"]
    /\ UNCHANGED <<docs, host, newest, live, display, target, raw, wanted, gone>>

-----------------------------------------------------------------------------
(* The panel's routes *)

\* findOwnAuthFile lists the files and gets the one to rename; a blank name
\* stands for the one Cline has.
StartRename(p, f, name) ==
    /\ pc[p] = "idle" /\ docs[f] # None /\ Quiet
    /\ kind' = [kind EXCEPT ![p] = "rename"]
    /\ target' = [target EXCEPT ![p] = f]
    /\ raw' = [raw EXCEPT ![p] = docs[f]]
    /\ wanted' = [wanted EXCEPT ![p] = IF name = Blank THEN docs[f].name ELSE name]
    /\ pc' = [pc EXCEPT ![p] = "saveName"]
    /\ UNCHANGED <<docs, host, newest, live, display, cached, sa, gone>>

setAuthFileNickname(p) ==
    /\ pc[p] = "saveName"
    /\ docs' = [docs EXCEPT ![target[p]] = rewriteAuthFileNickname(raw[p], wanted[p])]
    /\ HostTakesIn(target[p])
    /\ EndJob(p)
    /\ UNCHANGED <<newest, live, display, cached>>

\* host.auth.save reports an error: persist logs it and its caller goes on, a
\* rename answers 500.
SaveFailed(p) ==
    /\ pc[p] \in FailingSaves \intersect {"save", "saveName"}
    /\ IF pc[p] = "save" THEN Persisted(p) ELSE EndJob(p)
    /\ UNCHANGED <<docs, host, newest, live, display, cached>>

\* persistAuthData ends a login: the account's file is written from scratch.
Login ==
    /\ Quiet /\ newest < MaxPairs
    /\ Orderly => docs["shared"] = None
    /\ newest' = newest + 1
    /\ live' = live \union {newest'}
    /\ docs' = [docs EXCEPT ![authFileNameFor] =
                   buildAuthFileJSON([pair |-> newest', name |-> display, nick |-> Blank])]
    /\ HostTakesIn(authFileNameFor)
    /\ UNCHANGED <<display, cached, pc, job, gone>>

\* handleAccountDelete answers with the host's delete route, which the panel calls.
Delete(f) ==
    /\ Quiet /\ docs[f] # None
    /\ docs' = [docs EXCEPT ![f] = None]
    /\ host' = [host EXCEPT ![f] = None]
    /\ gone' = [p \in Procs |-> gone[p] \/ (pc[p] # "idle" /\ target[p] = f)]
    /\ UNCHANGED <<newest, live, display, cached, pc, job>>

-----------------------------------------------------------------------------
(* The host's own pages *)

\* The host takes in a file that was saved.
HostReload(f) ==
    /\ host[f] # copyOf(docs[f])
    /\ host' = [host EXCEPT ![f] = copyOf(docs[f])]
    /\ UNCHANGED <<docs, newest, live, display, cached, pc, job, gone>>

\* The host edits a file, and has it from then on.
HostEdits(f, doc) ==
    /\ docs' = [docs EXCEPT ![f] = doc]
    /\ host' = [host EXCEPT ![f] = copyOf(doc)]
    /\ UNCHANGED <<newest, live, display, cached, pc, job, gone>>

\* The host switches the account off or on.
SetDisabled(f) ==
    /\ Unread /\ docs[f] # None
    /\ HostEdits(f, [docs[f] EXCEPT !.disabled = ~@])

\* The host stores a note with the account.
SetNote(f, text) ==
    /\ Quiet /\ docs[f] # None
    /\ HostEdits(f, [docs[f] EXCEPT !.note = text])

\* The user takes another name at Cline.
ChangeName(name) ==
    /\ name # display
    /\ display' = name
    /\ UNCHANGED <<docs, host, newest, live, cached, pc, job, gone>>

-----------------------------------------------------------------------------
Plugin(p) ==
    \/ \E f \in Files :
         \/ \E k \in Kinds : Begin(p, f, k)
         \/ \E name \in Nicks \union {Blank} : StartRename(p, f, name)
    \/ Refreshed(p) \/ Unchanged(p) \/ Deferred(p) \/ Apply(p) \/ Enrich(p)
    \/ ReadFile(p) \/ SaveCredential(p) \/ setAuthFileNickname(p) \/ SaveFailed(p)

User ==
    \/ Login
    \/ \E name \in Names : ChangeName(name)
    \/ \E f \in Files :
         \/ Delete(f) \/ HostReload(f) \/ SetDisabled(f)
         \/ \E x \in Nicks \union {Blank} : SetNote(f, x)

Next == (\E p \in Procs : Plugin(p)) \/ User

Spec == Init /\ [][Next]_vars

-----------------------------------------------------------------------------
(* Properties *)

\* Goroutine p saves its file, a credential or a name; a file of the account is
\* written over.
Saves(p) == pc[p] = "save" /\ pc'[p] # "save"
Renames(p) == pc[p] = "saveName" /\ pc'[p] # "saveName"
Refreshing == \E p \in Procs : Saves(p)
Overwritten(f) ==
    /\ docs[f] # None /\ docs'[f] # None /\ docs'[f] # docs[f]
    /\ \E p \in Procs : Saves(p) \/ Renames(p)

\* token.go:233-235: persisting a credential leaves the host-owned fields alone,
\* so an account the management UI disabled while a request refreshed it stays
\* disabled; a rename keeps the switch too and takes the note on purpose.
HostFieldsKept ==
    [][\A f \in Files : Overwritten(f) =>
          /\ docs'[f].disabled = docs[f].disabled
          /\ Refreshing => docs'[f].note = docs[f].note]_vars

\* auth.go:391-393: the custom name of an account, wherever an older build kept it,
\* is shown until a user changes it; neither a refresh, begun with whatever older
\* copy the host had, nor another name at Cline takes it away, and neither gives
\* one to an account that had none.
ShownNameKept ==
    [][\A f \in Files :
          Overwritten(f) /\ Refreshing =>
              \/ shown(docs'[f]) = shown(docs[f])
              \/ parsedNickname(docs[f]) = Blank /\ parsedNickname(docs'[f]) = Blank]_vars

\* token.go:8-11, host_auth.go:145-146: no write, be it a rename, one of several
\* requests that persist what one flight gave them, or the second save of a refresh
\* that the host asked for, puts an older pair back.
TokensNeverRollBack ==
    [][\A f \in Files : Overwritten(f) => docs'[f].pair >= docs[f].pair]_vars

\* host_auth.go:114-117: after the plugin wrote a file, the label the host shows
\* and the name the panel shows are the same, however the writes interleave. A
\* note the host added since still counts as a name from an older build.
SurfacesAgree ==
    [][\A f \in Files : Overwritten(f) /\ docs'[f].note = Blank =>
          docs'[f].label = shown(docs'[f])]_vars

\* host_auth.go:160-161, management.go:264: an account has one file, and a deleted
\* one comes back through a login. There are two exceptions: a request brings back
\* the file it works on if that is deleted while the request is under way, and the
\* merge of the model catalogs, which has no path, gives the account its own file.
OneFilePerAccount ==
    [][\A f \in Files : docs[f] = None /\ docs'[f] # None =>
          \/ newest' # newest
          \/ \E p \in Procs : /\ Saves(p) \/ Renames(p)
                              /\ target[p] = f
                              /\ gone[p] \/ kind[p] = "merge"]_vars
=============================================================================
