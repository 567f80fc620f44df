--------------------------- MODULE AuthFileProofs ---------------------------
(***************************************************************************)
(* What holds of an account's files for any number of goroutines, names    *)
(* and token pairs.                                                        *)
(*                                                                         *)
(* The properties are about single writes, and none is inductive: a write  *)
(* is right only because of what its writer took with it. TypeInv says     *)
(* that a credential that is held has Cline's name, PathInv that a request *)
(* has a file until that is deleted; they hold whatever user and host do.  *)
(* PairInv says that the pair about to be saved is the newest one, FileInv *)
(* that what was read is still in the file, NameInv that the name about to *)
(* be saved is the one in the file; those three need the order that Quiet  *)
(* and Unread state, and what Punctual and Abreast say of time and host.   *)
(***************************************************************************)
EXTENDS AuthFile, TLAPS

-----------------------------------------------------------------------------
(* What the code makes of a document *)

LEMMA FirstDocs ==
  ASSUME NEW name \in Names, NEW doc \in InitialDocs(name)
  PROVE  doc \in Docs /\ doc # None /\ doc.pair = 1
<1> DEFINE Doc(nick, label, note) ==
             [pair |-> 1, name |-> name, nick |-> nick, label |-> label, note |-> note,
              disabled |-> FALSE]
<1>0. 1 \in 0..MaxPairs
  BY BoundsAssumption
<1>1. ASSUME NEW nick \in Nicks \union {Blank}, NEW label \in Nicks \union {name},
             NEW note \in Nicks \union {Blank}, doc = Doc(nick, label, note)
      PROVE  doc \in Docs /\ doc.pair = 1
  <2>1. label \in Given \ {Blank} /\ nick \in Given
    BY NamesAssumption DEF Given
  <2> QED
    BY <1>0, <1>1, <2>1 DEF Docs
<1>2. ASSUME doc = Doc(Blank, name, Blank)
      PROVE  doc \in Docs /\ doc.pair = 1
  <2>1. Blank \in Nicks \union {Blank} /\ name \in Nicks \union {name}
    OBVIOUS
  <2> QED
    BY <1>1, <1>2, <2>1
<1>3. ASSUME NEW x \in Nicks, doc \in {Doc(Blank, name, x), Doc(Blank, x, Blank), Doc(x, x, Blank)}
      PROVE  doc \in Docs /\ doc.pair = 1
  BY <1>1, <1>3
<1>4. doc \in Docs /\ doc.pair = 1
  BY <1>2, <1>3 DEF InitialDocs
<1> QED
  BY <1>4, NoneAssumption

LEMMA PairsAreNumbers ==
  /\ \A doc \in Docs : doc.pair \in Nat
  /\ \A c \in Credentials : c.pair \in Nat
<1>1. \A n \in 0..MaxPairs : n \in Nat
  BY BoundsAssumption
<1> QED
  BY <1>1 DEF Docs, Credentials

\* A document that parses: its pair and its name as they are.
LEMMA Parsing ==
  ASSUME NEW doc \in Docs
  PROVE  /\ parsed(doc) \in Credentials
         /\ parsed(doc).pair = doc.pair
         /\ parsed(doc).name = doc.name
         /\ parsed(doc).nick = parsedNickname(doc)
         /\ parsedNickname(doc) \in Given
<1>1. legacyNickname(doc) \in Given
  BY DEF legacyNickname, Docs, Given
<1> QED
  BY <1>1 DEF parsed, parsedNickname, Docs, Credentials, Given

\* What a persist writes: the credential, and a label that says the name.
LEMMA Writing ==
  ASSUME NEW c \in Credentials, c.name \in Names, NEW doc \in Docs \union {None}
  PROVE  /\ fileJSON(c, doc) \in Docs
         /\ fileJSON(c, doc).pair = c.pair
         /\ fileJSON(c, doc).name = c.name
         /\ fileJSON(c, doc).nick = c.nick
         /\ fileJSON(c, doc).label = clineAccountLabel(c)
         /\ doc # None => /\ fileJSON(c, doc).note = doc.note
                          /\ fileJSON(c, doc).disabled = doc.disabled
<1>1. clineAccountLabel(c) \in Given \ {Blank}
  BY NamesAssumption DEF clineAccountLabel, Credentials, Given
<1>2. CASE doc = None
  BY <1>1, <1>2, NoneAssumption DEF fileJSON, buildAuthFileJSON, Docs, Credentials, Given
<1>3. CASE doc # None
  BY <1>1, <1>3 DEF fileJSON, Docs, Credentials, Given
<1> QED
  BY <1>2, <1>3

LEMMA Building ==
  ASSUME NEW c \in Credentials, c.name \in Names
  PROVE  buildAuthFileJSON(c) \in Docs /\ buildAuthFileJSON(c).pair = c.pair
<1>1. clineAccountLabel(c) \in Given \ {Blank}
  BY NamesAssumption DEF clineAccountLabel, Credentials, Given
<1> QED
  BY <1>1 DEF buildAuthFileJSON, Docs, Credentials, Given

\* A rename touches the nickname, the label and the note.
LEMMA Rewriting ==
  ASSUME NEW doc \in Docs, NEW name \in Given, name # Blank
  PROVE  /\ rewriteAuthFileNickname(doc, name) \in Docs
         /\ rewriteAuthFileNickname(doc, name).pair = doc.pair
         /\ rewriteAuthFileNickname(doc, name).name = doc.name
         /\ rewriteAuthFileNickname(doc, name).disabled = doc.disabled
         /\ rewriteAuthFileNickname(doc, name).nick = name
         /\ rewriteAuthFileNickname(doc, name).label = name
  BY DEF rewriteAuthFileNickname, Docs, Given

\* A nickname that came from the document and is written back to it is the one
\* that is parsed from then on, and the label says it.
LEMMA NicknameKept ==
  ASSUME NEW doc \in Docs, NEW c \in Credentials, c.name \in Names,
         c.nick = parsedNickname(doc),
         NEW read \in Docs, read.note = doc.note
  PROVE  parsedNickname(fileJSON(c, read)) = parsedNickname(doc)
<1>1. /\ fileJSON(c, read).nick = c.nick
      /\ fileJSON(c, read).note = doc.note
      /\ fileJSON(c, read).label = clineAccountLabel(c)
      /\ fileJSON(c, read).name = c.name
  BY Writing, NoneAssumption
<1>2. CASE c.nick # Blank
  BY <1>1, <1>2 DEF parsedNickname
<1>3. CASE c.nick = Blank
  <2>1. doc.note = Blank
    BY <1>3 DEF parsedNickname, legacyNickname
  <2> QED
    BY <1>1, <1>3, <2>1 DEF parsedNickname, legacyNickname, clineAccountLabel
<1> QED
  BY <1>2, <1>3

\* The host's copy of a document.
LEMMA Copying ==
  ASSUME NEW doc \in Docs \union {None}
  PROVE  /\ copyOf(doc) \in Credentials \union {None}
         /\ doc = None => copyOf(doc) = None
         /\ doc # None => /\ copyOf(doc) = parsed(doc)
                          /\ copyOf(doc).pair = doc.pair
                          /\ copyOf(doc).name \in Names
                          /\ copyOf(doc).nick = parsedNickname(doc)
<1>1. CASE doc = None
  BY <1>1 DEF copyOf
<1>2. CASE doc # None
  BY <1>2, Parsing DEF copyOf, Docs
<1> QED
  BY <1>1, <1>2

-----------------------------------------------------------------------------
(* Types *)

\* A credential of a refresh that was granted, one the host has and one that a
\* request holds have a name of Cline's; a rename has a document and a name.
CachedNamed == cached.pair > 0 => cached.name \in Names
HostNamed == \A f \in Files : host[f] # None => host[f].name \in Names
Held(p) ==
    /\ pc[p] \notin {"idle", "saveName"} => sa[p].name \in Names
    /\ pc[p] = "saveName" => raw[p] # None /\ wanted[p] # Blank

TypeInv == TypeOK /\ CachedNamed /\ HostNamed /\ \A p \in Procs : Held(p)

LEMMA InitTypeInv == Init => TypeInv
<1> SUFFICES ASSUME Init
             PROVE  TypeInv
  OBVIOUS
<1>1. PICK f \in Files, doc \in InitialDocs(display) :
        docs = [n \in Files |-> IF n = f THEN doc ELSE None]
  BY DEF Init
<1>2. doc \in Docs
  BY FirstDocs DEF Init
<1>3. 1 \in 1..MaxPairs /\ 0 \in 0..MaxPairs
  BY BoundsAssumption
<1>4. NoCredential \in Credentials /\ ~(NoCredential.pair > 0)
  BY <1>3 DEF NoCredential, Credentials, Given
<1>5. docs \in [Files -> Docs \union {None}]
  BY <1>1, <1>2
<1>6. host \in [Files -> Credentials \union {None}] /\ HostNamed
  BY <1>5, Copying DEF Init, HostNamed
<1> QED
  BY <1>3, <1>4, <1>5, <1>6 DEF Init, TypeInv, TypeOK, CachedNamed, Held, Files, Given, Stages

\* A goroutine that is done holds nothing.
LEMMA EndJobTypes ==
  ASSUME TypeInv, NEW p \in Procs, EndJob(p)
  PROVE  /\ pc' \in [Procs -> Stages]
         /\ kind' \in [Procs -> Kinds \union {"none", "enriched", "rename"}]
         /\ target' \in [Procs -> Files]
         /\ sa' \in [Procs -> Credentials]
         /\ raw' \in [Procs -> Docs \union {None}]
         /\ wanted' \in [Procs -> Given]
         /\ gone' \in [Procs -> BOOLEAN]
         /\ \A q \in Procs : Held(q)'
<1>1. NoCredential \in Credentials /\ Blank \in Given /\ "own" \in Files
  BY BoundsAssumption DEF NoCredential, Credentials, Given, Files
<1> QED
  BY <1>1 DEF EndJob, TypeInv, TypeOK, Held, Stages

\* Nor does a request that has persisted hold a document any more.
LEMMA PersistedTypes ==
  ASSUME TypeInv, NEW p \in Procs, pc[p] = "save", Persisted(p)
  PROVE  /\ pc' \in [Procs -> Stages]
         /\ kind' \in [Procs -> Kinds \union {"none", "enriched", "rename"}]
         /\ target' \in [Procs -> Files]
         /\ sa' \in [Procs -> Credentials]
         /\ raw' \in [Procs -> Docs \union {None}]
         /\ wanted' \in [Procs -> Given]
         /\ gone' \in [Procs -> BOOLEAN]
         /\ \A q \in Procs : Held(q)'
<1>1. CASE EndJob(p)
  BY <1>1, EndJobTypes
<1>2. CASE ~EndJob(p)
  BY <1>2 DEF Persisted, TypeInv, TypeOK, Held, Stages
<1> QED
  BY <1>1, <1>2

\* The host's copies after the plugin saved a document for the user.
LEMMA TakingIn ==
  ASSUME TypeInv, NEW f \in Files, docs' \in [Files -> Docs \union {None}], HostTakesIn(f)
  PROVE  host' \in [Files -> Credentials \union {None}] /\ HostNamed'
<1>1. copyOf(docs'[f]) \in Credentials \union {None}
  BY Copying
<1>2. copyOf(docs'[f]) # None => copyOf(docs'[f]).name \in Names
  BY Copying
<1> QED
  BY <1>1, <1>2 DEF HostTakesIn, HostNamed, TypeInv, TypeOK

LEMMA EditingTypes ==
  ASSUME TypeInv, NEW f \in Files, NEW doc \in Docs, HostEdits(f, doc)
  PROVE  TypeInv'
<1>1. copyOf(doc) \in Credentials \union {None} /\ (copyOf(doc) # None => copyOf(doc).name \in Names)
  BY Copying
<1>2. /\ docs' \in [Files -> Docs \union {None}]
      /\ host' \in [Files -> Credentials \union {None}] /\ HostNamed'
  BY <1>1 DEF HostEdits, HostNamed, TypeInv, TypeOK
<1> QED
  BY <1>2 DEF HostEdits, job, TypeInv, TypeOK, CachedNamed, Held

\* What the host's pages make of a document.
LEMMA EditedDoc ==
  ASSUME NEW doc \in Docs
  PROVE  /\ [doc EXCEPT !.disabled = ~@] \in Docs
         /\ [doc EXCEPT !.disabled = ~@].pair = doc.pair
         /\ parsedNickname([doc EXCEPT !.disabled = ~@]) = parsedNickname(doc)
         /\ \A x \in Nicks \union {Blank} : /\ [doc EXCEPT !.note = x] \in Docs
                                            /\ [doc EXCEPT !.note = x].pair = doc.pair
  BY DEF Docs, parsedNickname, legacyNickname

LEMMA TypeInvStep == TypeInv /\ [Next]_vars => TypeInv'
<1> SUFFICES ASSUME TypeInv, [Next]_vars
             PROVE  TypeInv'
  OBVIOUS
<1>1. ASSUME NEW p \in Procs, NEW f \in Files, NEW k \in Kinds, Begin(p, f, k)
      PROVE  TypeInv'
  <2>1. host[f] \in Credentials /\ host[f].name \in Names
    BY <1>1 DEF Begin, TypeInv, TypeOK, HostNamed
  <2>2. /\ (IF cached.pair > host[f].pair THEN cached ELSE host[f]) \in Credentials
        /\ (IF cached.pair > host[f].pair THEN cached ELSE host[f]).name \in Names
    <3>1. CASE cached.pair > host[f].pair
      <4>1. cached.pair > 0
        BY <2>1, <3>1, PairsAreNumbers DEF TypeInv, TypeOK
      <4> QED
        BY <3>1, <4>1 DEF TypeInv, TypeOK, CachedNamed
    <3>2. CASE ~(cached.pair > host[f].pair)
      BY <2>1, <3>2
    <3> QED
      BY <3>1, <3>2
  <2>3. authFileNameFor \in Files
    BY DEF authFileNameFor, Files
  <2> QED
    BY <1>1, <2>2, <2>3 DEF Begin, TypeInv, TypeOK, CachedNamed, HostNamed, Held, Stages
<1>2. ASSUME NEW p \in Procs, Refreshed(p)
      PROVE  TypeInv'
  <2>1. PICK name \in {sa[p].name, display} : cached' = rotated(sa[p], newest', name)
    BY <1>2 DEF Refreshed
  <2>2. sa[p] \in Credentials /\ name \in Names
    BY <1>2, <2>1 DEF Refreshed, TypeInv, TypeOK, Held
  <2>3. newest' \in 1..MaxPairs /\ newest' \in 0..MaxPairs
    BY <1>2, BoundsAssumption DEF Refreshed, TypeInv, TypeOK
  <2>4. cached' \in Credentials /\ cached'.name \in Names
    BY <2>1, <2>2, <2>3 DEF rotated, Credentials
  <2>5. PICK flight \in SUBSET {q \in Procs : pc[q] = "asked"} :
          /\ sa' = [q \in Procs |-> IF q \in flight THEN cached' ELSE sa[q]]
          /\ pc' = [q \in Procs |-> IF q \in flight THEN "apply" ELSE pc[q]]
    BY <1>2 DEF Refreshed
  <2>6. sa' \in [Procs -> Credentials] /\ pc' \in [Procs -> Stages]
    BY <2>4, <2>5 DEF TypeInv, TypeOK, Stages
  <2>7. live' \subseteq 1..MaxPairs
    BY <1>2, <2>3 DEF Refreshed, TypeInv, TypeOK
  <2>8. \A q \in Procs : Held(q)'
    BY <1>2, <2>4, <2>5 DEF Refreshed, TypeInv, TypeOK, Held
  <2> QED
    BY <1>2, <2>3, <2>4, <2>6, <2>7, <2>8 DEF Refreshed, TypeInv, TypeOK, CachedNamed, HostNamed
<1>3. ASSUME NEW p \in Procs, Unchanged(p)
      PROVE  TypeInv'
  BY <1>3, EndJobTypes DEF Unchanged, TypeInv, TypeOK, CachedNamed, HostNamed
<1>4. ASSUME NEW p \in Procs, Deferred(p)
      PROVE  TypeInv'
  BY <1>4 DEF Deferred, job, TypeInv, TypeOK, CachedNamed, HostNamed, Held, Stages
<1>5. ASSUME NEW p \in Procs, Apply(p)
      PROVE  TypeInv'
  BY <1>5 DEF Apply, job, TypeInv, TypeOK, CachedNamed, HostNamed, Held, Stages
<1>6. ASSUME NEW p \in Procs, Enrich(p)
      PROVE  TypeInv'
  <2>1. PICK name \in {sa[p].name, display} : cached' = [sa[p] EXCEPT !.name = name]
    BY <1>6 DEF Enrich
  <2>2. name \in Names /\ sa[p] \in Credentials
    BY <1>6, <2>1 DEF Enrich, TypeInv, TypeOK, Held
  <2>3. cached' \in Credentials /\ cached'.name \in Names
    BY <2>1, <2>2 DEF Credentials
  <2> QED
    BY <1>6, <2>3 DEF Enrich, TypeInv, TypeOK, CachedNamed, HostNamed, Held, Stages
<1>7. ASSUME NEW p \in Procs, ReadFile(p)
      PROVE  TypeInv'
  BY <1>7 DEF ReadFile, TypeInv, TypeOK, CachedNamed, HostNamed, Held, Stages
<1>8. ASSUME NEW p \in Procs, SaveCredential(p)
      PROVE  TypeInv'
  <2>1. sa[p] \in Credentials /\ sa[p].name \in Names /\ raw[p] \in Docs \union {None}
    BY <1>8 DEF SaveCredential, TypeInv, TypeOK, Held
  <2>2. fileJSON(sa[p], raw[p]) \in Docs
    BY <2>1, Writing
  <2>3. docs' \in [Files -> Docs \union {None}]
    BY <1>8, <2>2 DEF SaveCredential, TypeInv, TypeOK
  <2> QED
    BY <1>8, <2>3, PersistedTypes DEF SaveCredential, TypeInv, TypeOK, CachedNamed, HostNamed
<1>9. ASSUME NEW p \in Procs, NEW f \in Files, NEW name \in Nicks \union {Blank},
             StartRename(p, f, name)
      PROVE  TypeInv'
  <2>1. docs[f] \in Docs
    BY <1>9 DEF StartRename, TypeInv, TypeOK
  <2>2. (IF name = Blank THEN docs[f].name ELSE name) \in Given \ {Blank}
    BY <1>9, <2>1, NamesAssumption DEF Docs, Given
  <2>3. pc'[p] = "saveName" /\ raw'[p] # None /\ wanted'[p] # Blank
    BY <1>9, <2>1, <2>2 DEF StartRename, TypeInv, TypeOK
  <2> QED
    BY <1>9, <2>1, <2>2, <2>3 DEF StartRename, TypeInv, TypeOK, CachedNamed, HostNamed, Held,
       Stages
<1>10. ASSUME NEW p \in Procs, setAuthFileNickname(p)
       PROVE  TypeInv'
  <2>1. raw[p] \in Docs /\ wanted[p] \in Given /\ wanted[p] # Blank /\ target[p] \in Files
    BY <1>10 DEF setAuthFileNickname, TypeInv, TypeOK, Held
  <2>2. rewriteAuthFileNickname(raw[p], wanted[p]) \in Docs
    BY <2>1, Rewriting
  <2>3. docs' \in [Files -> Docs \union {None}]
    BY <1>10, <2>2 DEF setAuthFileNickname, TypeInv, TypeOK
  <2>4. host' \in [Files -> Credentials \union {None}] /\ HostNamed'
    BY <1>10, <2>1, <2>3, TakingIn DEF setAuthFileNickname
  <2> QED
    BY <1>10, <2>3, <2>4, EndJobTypes DEF setAuthFileNickname, TypeInv, TypeOK, CachedNamed
<1>11. ASSUME NEW p \in Procs, SaveFailed(p)
       PROVE  TypeInv'
  BY <1>11, EndJobTypes, PersistedTypes DEF SaveFailed, TypeInv, TypeOK, CachedNamed, HostNamed
<1>12. CASE Login
  <2>1. newest' \in 1..MaxPairs /\ newest' \in 0..MaxPairs
    <3>1. newest \in 1..MaxPairs /\ newest < MaxPairs /\ newest' = newest + 1
      BY <1>12 DEF Login, TypeInv, TypeOK
    <3> QED
      BY <3>1, BoundsAssumption
  <2>2. buildAuthFileJSON([pair |-> newest', name |-> display, nick |-> Blank]) \in Docs
    BY <2>1, Building DEF TypeInv, TypeOK, Credentials, Given
  <2>3. docs' \in [Files -> Docs \union {None}] /\ authFileNameFor \in Files
    BY <1>12, <2>2 DEF Login, TypeInv, TypeOK, authFileNameFor, Files
  <2>4. host' \in [Files -> Credentials \union {None}] /\ HostNamed'
    BY <1>12, <2>3, TakingIn DEF Login
  <2>5. live' \subseteq 1..MaxPairs
    BY <1>12, <2>1 DEF Login, TypeInv, TypeOK
  <2> QED
    BY <1>12, <2>1, <2>3, <2>4, <2>5 DEF Login, job, TypeInv, TypeOK, CachedNamed, Held
<1>13. ASSUME NEW name \in Names, ChangeName(name)
       PROVE  TypeInv'
  BY <1>13 DEF ChangeName, job, TypeInv, TypeOK, CachedNamed, HostNamed, Held
<1>14. ASSUME NEW f \in Files, Delete(f)
       PROVE  TypeInv'
  BY <1>14 DEF Delete, job, TypeInv, TypeOK, CachedNamed, HostNamed, Held
<1>15. ASSUME NEW f \in Files, HostReload(f)
       PROVE  TypeInv'
  <2>1. copyOf(docs[f]) \in Credentials \union {None}
    BY Copying DEF TypeInv, TypeOK
  <2>2. copyOf(docs[f]) # None => copyOf(docs[f]).name \in Names
    BY Copying DEF TypeInv, TypeOK
  <2> QED
    BY <1>15, <2>1, <2>2 DEF HostReload, job, TypeInv, TypeOK, CachedNamed, HostNamed, Held
<1>16. ASSUME NEW f \in Files, SetDisabled(f)
       PROVE  TypeInv'
  <2>1. docs[f] \in Docs
    BY <1>16 DEF SetDisabled, TypeInv, TypeOK
  <2> QED
    BY <1>16, <2>1, EditedDoc, EditingTypes DEF SetDisabled
<1>17. ASSUME NEW f \in Files, NEW x \in Nicks \union {Blank}, SetNote(f, x)
       PROVE  TypeInv'
  <2>1. docs[f] \in Docs
    BY <1>17 DEF SetNote, TypeInv, TypeOK
  <2> QED
    BY <1>17, <2>1, EditedDoc, EditingTypes DEF SetNote
<1>18. CASE UNCHANGED vars
  BY <1>18 DEF vars, TypeInv, TypeOK, CachedNamed, HostNamed, Held
<1> QED
  BY <1>1, <1>2, <1>3, <1>4, <1>5, <1>6, <1>7, <1>8, <1>9, <1>10, <1>11, <1>12, <1>13,
     <1>14, <1>15, <1>16, <1>17, <1>18 DEF Next, Plugin, User

\* The variables keep their types (AuthFile.TypeOK), whatever order user and host
\* keep and whichever saves fail.
THEOREM TypeCorrect == Spec => []TypeOK
<1>1. TypeInv => TypeOK
  BY DEF TypeInv
<1> QED
  BY <1>1, InitTypeInv, TypeInvStep, PTL DEF Spec

-----------------------------------------------------------------------------
(* A write over a file *)

\* Goroutine p saves a credential, or a name, over file f.
SavesOver(p, f) == SaveCredential(p) /\ f = target[p]
RenamesOver(p, f) == setAuthFileNickname(p) /\ f = target[p]

\* Only a save of the plugin's changes a file and the stage of a goroutine.
LEMMA OnlySaves ==
  ASSUME TypeInv, [Next]_vars, docs' # docs, pc' # pc
  PROVE  \E p \in Procs : SaveCredential(p) \/ setAuthFileNickname(p)
<1>1. ASSUME NEW p \in Procs, Plugin(p)
      PROVE  SaveCredential(p) \/ setAuthFileNickname(p)
  BY <1>1 DEF Plugin, Begin, StartRename, Refreshed, Unchanged, Deferred, Apply, Enrich,
     ReadFile, SaveFailed
<1>2. ~User
  BY DEF User, Login, ChangeName, Delete, HostReload, HostEdits, SetDisabled, SetNote
<1> QED
  BY <1>1, <1>2 DEF Next, vars

\* A step that overwrites a file is one of the two.
LEMMA Writers ==
  ASSUME TypeInv, [Next]_vars, NEW f \in Files, Overwritten(f)
  PROVE  \/ \E p \in Procs : SavesOver(p, f)
         \/ ~Refreshing /\ \E p \in Procs : RenamesOver(p, f)
<1>1. docs[f] # None /\ docs'[f] # None /\ docs'[f] # docs[f]
  BY DEF Overwritten
<1>2. PICK p \in Procs : SaveCredential(p) \/ setAuthFileNickname(p)
  BY <1>1, OnlySaves DEF Overwritten, Saves, Renames
<1>3. CASE SaveCredential(p)
  BY <1>1, <1>2, <1>3 DEF SaveCredential, SavesOver, TypeInv, TypeOK
<1>4. CASE setAuthFileNickname(p)
  <2>1. f = target[p]
    BY <1>1, <1>4 DEF setAuthFileNickname, TypeInv, TypeOK
  <2>2. ~Refreshing
    BY <1>4 DEF setAuthFileNickname, EndJob, Refreshing, Saves, TypeInv, TypeOK
  <2> QED
    BY <1>4, <2>1, <2>2 DEF RenamesOver
<1> QED
  BY <1>2, <1>3, <1>4

\* What a credential's save leaves in the file.
LEMMA Saved ==
  ASSUME TypeInv, NEW f \in Files, NEW p \in Procs, SavesOver(p, f)
  PROVE  /\ sa[p] \in Credentials /\ sa[p].name \in Names
         /\ raw[p] \in Docs \union {None}
         /\ docs' = [docs EXCEPT ![f] = fileJSON(sa[p], raw[p])]
         /\ docs'[f] = fileJSON(sa[p], raw[p])
  BY DEF SavesOver, SaveCredential, TypeInv, TypeOK, Held

\* What a rename leaves in the file.
LEMMA Named ==
  ASSUME TypeInv, NEW f \in Files, NEW p \in Procs, RenamesOver(p, f)
  PROVE  /\ raw[p] \in Docs
         /\ wanted[p] \in Given /\ wanted[p] # Blank
         /\ docs' = [docs EXCEPT ![f] = rewriteAuthFileNickname(raw[p], wanted[p])]
         /\ docs'[f] = rewriteAuthFileNickname(raw[p], wanted[p])
  BY DEF RenamesOver, setAuthFileNickname, TypeInv, TypeOK, Held

LEMMA SurfacesStep ==
  ASSUME TypeInv, [Next]_vars, NEW f \in Files, Overwritten(f), docs'[f].note = Blank
  PROVE  docs'[f].label = shown(docs'[f])
<1>1. ASSUME NEW p \in Procs, SavesOver(p, f)
      PROVE  docs'[f].label = shown(docs'[f])
  <2>1. /\ docs'[f].name = sa[p].name
        /\ docs'[f].nick = sa[p].nick
        /\ docs'[f].label = clineAccountLabel(sa[p])
    BY <1>1, Saved, Writing
  <2>2. CASE sa[p].nick # Blank
    BY <2>1, <2>2 DEF shown, parsed, parsedNickname, clineAccountLabel
  <2>3. CASE sa[p].nick = Blank
    <3>1. docs'[f].label = docs'[f].name
      BY <2>1, <2>3 DEF clineAccountLabel
    <3>2. parsedNickname(docs'[f]) = Blank
      BY <2>1, <2>3, <3>1 DEF parsedNickname, legacyNickname
    <3> QED
      BY <3>1, <3>2 DEF shown, parsed, clineAccountLabel
  <2> QED
    BY <2>2, <2>3
<1>2. ASSUME NEW p \in Procs, RenamesOver(p, f)
      PROVE  docs'[f].label = shown(docs'[f])
  <2>1. docs'[f].nick = wanted[p] /\ docs'[f].label = wanted[p] /\ wanted[p] # Blank
    BY <1>2, Named, Rewriting
  <2> QED
    BY <2>1 DEF shown, parsed, parsedNickname, clineAccountLabel
<1> QED
  BY <1>1, <1>2, Writers

\* The label the host shows and the name the panel shows agree on every file the
\* plugin has just written (AuthFile.SurfacesAgree): in any order of writers, with
\* or without the path of the file, with host and user as they like.
THEOREM LabelsAgree == Spec => SurfacesAgree
<1>1. TypeInv /\ [Next]_vars =>
        [\A f \in Files : Overwritten(f) /\ docs'[f].note = Blank =>
             docs'[f].label = shown(docs'[f])]_vars
  BY SurfacesStep
<1> QED
  BY <1>1, InitTypeInv, TypeInvStep, PTL DEF Spec, SurfacesAgree

-----------------------------------------------------------------------------
(* Files that come into being, with user and host as they like *)

\* The host copies files that are there; a request has the file it works on, until
\* somebody deletes it, unless it has no path.
Copied == \A f \in Files : host[f] # None => docs[f] # None
Attends(p) ==
    /\ pc[p] # "idle" /\ ~gone[p] /\ kind[p] # "merge" => docs[target[p]] # None
    /\ pc[p] = "enrich" => kind[p] = "refresh"

PathInv == Copied /\ \A p \in Procs : Attends(p)

LEMMA InitPathInv == Init => PathInv
  BY DEF Init, PathInv, Copied, Attends, copyOf

\* A goroutine that is done works on no file; another keeps what it has.
LEMMA EndJobFrame ==
  ASSUME TypeOK, NEW p \in Procs, EndJob(p)
  PROVE  /\ pc'[p] = "idle"
         /\ \A q \in Procs \ {p} :
               /\ pc'[q] = pc[q] /\ kind'[q] = kind[q] /\ target'[q] = target[q]
               /\ sa'[q] = sa[q] /\ raw'[q] = raw[q] /\ gone'[q] = gone[q]
  BY DEF EndJob, TypeOK

LEMMA PersistedFrame ==
  ASSUME TypeOK, NEW p \in Procs, Persisted(p)
  PROVE  /\ \/ pc'[p] = "idle"
            \/ /\ pc'[p] = IF kind[p] = "refresh" THEN "enrich" ELSE "asked"
               /\ kind'[p] = kind[p] /\ target'[p] = target[p] /\ sa'[p] = sa[p]
               /\ gone'[p] = gone[p]
         /\ \A q \in Procs \ {p} :
               /\ pc'[q] = pc[q] /\ kind'[q] = kind[q] /\ target'[q] = target[q]
               /\ sa'[q] = sa[q] /\ raw'[q] = raw[q] /\ gone'[q] = gone[q]
<1>1. CASE EndJob(p)
  BY <1>1, EndJobFrame
<1>2. CASE ~EndJob(p)
  BY <1>2 DEF Persisted, TypeOK
<1> QED
  BY <1>1, <1>2

\* What a credential's save, a rename and a refresh do to the rest of the state.
LEMMA SaveFrame ==
  ASSUME TypeInv, NEW p \in Procs, SaveCredential(p)
  PROVE  /\ target[p] \in Files /\ SavesOver(p, target[p])
         /\ docs' = [docs EXCEPT ![target[p]] = fileJSON(sa[p], raw[p])]
         /\ docs'[target[p]] \in Docs /\ docs'[target[p]] # None
         /\ \A g \in Files : g # target[p] => docs'[g] = docs[g]
<1>1. target[p] \in Files /\ SavesOver(p, target[p])
  BY DEF SaveCredential, SavesOver, TypeInv, TypeOK
<1> QED
  BY <1>1, Saved, Writing, NoneAssumption DEF TypeInv, TypeOK

LEMMA RenameFrame ==
  ASSUME TypeInv, NEW p \in Procs, setAuthFileNickname(p)
  PROVE  /\ target[p] \in Files /\ RenamesOver(p, target[p])
         /\ docs' = [docs EXCEPT ![target[p]] = rewriteAuthFileNickname(raw[p], wanted[p])]
         /\ docs'[target[p]] \in Docs /\ docs'[target[p]] # None
         /\ \A g \in Files : g # target[p] => docs'[g] = docs[g]
<1>1. target[p] \in Files /\ RenamesOver(p, target[p])
  BY DEF setAuthFileNickname, RenamesOver, TypeInv, TypeOK
<1> QED
  BY <1>1, Named, Rewriting, NoneAssumption DEF TypeInv, TypeOK

LEMMA RefreshFrame ==
  ASSUME TypeOK, NEW p \in Procs, Refreshed(p)
  PROVE  \A q \in Procs :
            \/ pc'[q] = pc[q] /\ sa'[q] = sa[q]
            \/ pc[q] = "asked" /\ pc'[q] = "apply" /\ sa'[q] = cached'
<1>1. PICK flight \in SUBSET {q \in Procs : pc[q] = "asked"} :
        /\ sa' = [q \in Procs |-> IF q \in flight THEN cached' ELSE sa[q]]
        /\ pc' = [q \in Procs |-> IF q \in flight THEN "apply" ELSE pc[q]]
  BY DEF Refreshed
<1> QED
  BY <1>1

\* An edit of the host's: which documents are there, and what pair each has.
LEMMA EditFrame ==
  ASSUME TypeOK, NEW f \in Files,
         SetDisabled(f) \/ \E x \in Nicks \union {Blank} : SetNote(f, x)
  PROVE  /\ docs[f] \in Docs /\ docs[f] # None /\ docs'[f] \in Docs
         /\ docs'[f].pair = docs[f].pair
         /\ SetDisabled(f) => parsedNickname(docs'[f]) = parsedNickname(docs[f])
         /\ \A g \in Files : docs'[g] = None <=> docs[g] = None
         /\ \A g \in Files : g # f => docs'[g] = docs[g] /\ host'[g] = host[g]
         /\ host'[f] = copyOf(docs'[f])
         /\ UNCHANGED <<newest, cached, pc, kind, target, sa, raw, gone>>
<1>1. docs[f] \in Docs
  BY DEF SetDisabled, SetNote, TypeOK
<1>2. PICK doc : /\ HostEdits(f, doc)
                 /\ doc \in Docs /\ doc.pair = docs[f].pair
                 /\ SetDisabled(f) => parsedNickname(doc) = parsedNickname(docs[f])
  <2>1. CASE SetDisabled(f)
    <3> DEFINE doc == [docs[f] EXCEPT !.disabled = ~@]
    <3>1. HostEdits(f, doc)
      BY <2>1 DEF SetDisabled
    <3>2. doc \in Docs /\ doc.pair = docs[f].pair /\ parsedNickname(doc) = parsedNickname(docs[f])
      BY <1>1, EditedDoc
    <3> QED
      BY <3>1, <3>2
  <2>2. CASE ~SetDisabled(f)
    <3>1. PICK x \in Nicks \union {Blank} : SetNote(f, x)
      BY <2>2
    <3> DEFINE doc == [docs[f] EXCEPT !.note = x]
    <3>2. HostEdits(f, doc)
      BY <3>1 DEF SetNote
    <3>3. doc \in Docs /\ doc.pair = docs[f].pair
      BY <1>1, EditedDoc
    <3> QED
      BY <2>2, <3>2, <3>3
  <2> QED
    BY <2>1, <2>2
<1>3. docs' = [docs EXCEPT ![f] = doc] /\ host' = [host EXCEPT ![f] = copyOf(doc)]
  BY <1>2 DEF HostEdits
<1>4. docs'[f] = doc /\ \A g \in Files : g # f => docs'[g] = docs[g] /\ host'[g] = host[g]
  BY <1>3 DEF TypeOK
<1>5. host'[f] = copyOf(docs'[f])
  BY <1>3, <1>4 DEF TypeOK
<1> QED
  BY <1>1, <1>2, <1>4, <1>5, NoneAssumption DEF HostEdits, job

LEMMA PathInvStep == TypeInv /\ PathInv /\ [Next]_vars => PathInv'
<1> SUFFICES ASSUME TypeInv, PathInv, [Next]_vars
             PROVE  PathInv'
  OBVIOUS
<1>0. PathInv /\ TypeOK
  BY DEF TypeInv
<1>1. ASSUME NEW p \in Procs, NEW f \in Files, NEW k \in Kinds, Begin(p, f, k)
      PROVE  PathInv'
  <2>1. docs[f] # None /\ UNCHANGED <<docs, host>>
    BY <1>0, <1>1 DEF Begin, PathInv, Copied
  <2> QED
    BY <1>0, <1>1, <2>1 DEF Begin, PathInv, Copied, Attends, TypeOK
<1>2. ASSUME NEW p \in Procs, Refreshed(p)
      PROVE  PathInv'
  <2>1. UNCHANGED <<docs, host, kind, target, gone>>
    BY <1>2 DEF Refreshed
  <2> QED
    BY <1>0, <1>2, <2>1, RefreshFrame DEF PathInv, Copied, Attends
<1>3. ASSUME NEW p \in Procs, Deferred(p) \/ Apply(p) \/ Enrich(p) \/ ReadFile(p)
      PROVE  PathInv'
  BY <1>0, <1>3 DEF Deferred, Apply, Enrich, ReadFile, job, PathInv, Copied, Attends, TypeOK
<1>4. ASSUME NEW p \in Procs, Unchanged(p) \/ SaveFailed(p)
      PROVE  PathInv'
  <2>1. EndJob(p) \/ (pc[p] = "save" /\ Persisted(p))
    BY <1>4 DEF Unchanged, SaveFailed
  <2>2. UNCHANGED <<docs, host>>
    BY <1>4 DEF Unchanged, SaveFailed
  <2> QED
    BY <1>0, <2>1, <2>2, EndJobFrame, PersistedFrame DEF PathInv, Copied, Attends
<1>5. ASSUME NEW p \in Procs, SaveCredential(p)
      PROVE  PathInv'
  <2>1. pc[p] = "save" /\ Persisted(p) /\ UNCHANGED host
    BY <1>5 DEF SaveCredential
  <2>2. \A g \in Files : docs[g] # None => docs'[g] # None
    BY <1>5, SaveFrame
  <2> QED
    BY <1>0, <2>1, <2>2, PersistedFrame DEF PathInv, Copied, Attends, TypeOK
<1>6. ASSUME NEW p \in Procs, NEW f \in Files, NEW name \in Nicks \union {Blank},
             StartRename(p, f, name)
      PROVE  PathInv'
  BY <1>0, <1>6 DEF StartRename, PathInv, Copied, Attends, TypeOK
<1>7. ASSUME NEW p \in Procs, setAuthFileNickname(p)
      PROVE  PathInv'
  <2>1. EndJob(p) /\ HostTakesIn(target[p])
    BY <1>7 DEF setAuthFileNickname
  <2>2. \A g \in Files : docs[g] # None => docs'[g] # None
    BY <1>7, RenameFrame
  <2>3. docs'[target[p]] # None
    BY <1>7, RenameFrame
  <2>4. Copied'
    BY <1>0, <2>1, <2>2, <2>3 DEF HostTakesIn, PathInv, Copied, TypeOK
  <2>5. ASSUME NEW q \in Procs
        PROVE  Attends(q)'
    BY <1>0, <2>1, <2>2, EndJobFrame DEF PathInv, Attends, TypeOK
  <2> QED
    BY <2>4, <2>5 DEF PathInv
<1>8. CASE Login
  <2>1. TypeInv' /\ UNCHANGED <<pc, kind, target, gone>>
    BY <1>8, TypeInvStep DEF Login, job
  <2>2. docs'["own"] # None /\ \A g \in Files : g # "own" => docs'[g] = docs[g]
    <3>1. newest + 1 \in 0..MaxPairs
      <4>1. newest \in 1..MaxPairs /\ newest < MaxPairs
        BY <1>0, <1>8 DEF Login, TypeOK
      <4> QED
        BY <4>1, BoundsAssumption
    <3>2. buildAuthFileJSON([pair |-> newest + 1, name |-> display, nick |-> Blank]) \in Docs
      BY <1>0, <3>1, Building DEF TypeOK, Credentials, Given
    <3> QED
      BY <1>0, <1>8, <3>2, NoneAssumption DEF Login, authFileNameFor, Files, TypeOK
  <2>3. Copied'
    BY <1>0, <1>8, <2>2 DEF Login, HostTakesIn, authFileNameFor, PathInv, Copied, TypeOK
  <2> QED
    BY <1>0, <2>1, <2>2, <2>3 DEF PathInv, Attends, TypeOK
<1>9. ASSUME NEW f \in Files, Delete(f)
      PROVE  PathInv'
  <2>1. /\ UNCHANGED <<pc, kind, target>>
        /\ \A g \in Files : g # f => docs'[g] = docs[g] /\ host'[g] = host[g]
        /\ docs'[f] = None /\ host'[f] = None
        /\ \A q \in Procs : gone'[q] = (gone[q] \/ (pc[q] # "idle" /\ target[q] = f))
    BY <1>0, <1>9 DEF Delete, job, TypeOK
  <2>2. ASSUME NEW q \in Procs
        PROVE  Attends(q)'
    <3>1. Attends(q) /\ target[q] \in Files
      BY <1>0 DEF PathInv, TypeOK
    <3> QED
      BY <2>1, <3>1 DEF Attends
  <2> QED
    BY <1>0, <2>1, <2>2 DEF PathInv, Copied
<1>10. ASSUME NEW f \in Files, HostReload(f)
       PROVE  PathInv'
  BY <1>0, <1>10 DEF HostReload, job, copyOf, PathInv, Copied, Attends, TypeOK
<1>11. ASSUME NEW f \in Files, SetDisabled(f) \/ \E x \in Nicks \union {Blank} : SetNote(f, x)
       PROVE  PathInv'
  <2>1. /\ UNCHANGED <<pc, kind, target, gone>>
        /\ docs[f] # None
        /\ \A g \in Files : docs'[g] = None <=> docs[g] = None
        /\ \A g \in Files : g # f => host'[g] = host[g]
    BY <1>0, <1>11, EditFrame
  <2> QED
    BY <1>0, <2>1 DEF PathInv, Copied, Attends, TypeOK
<1>12. CASE UNCHANGED <<docs, host, pc, kind, target, gone>>
  BY <1>0, <1>12 DEF PathInv, Copied, Attends
<1> QED
  BY <1>1, <1>2, <1>3, <1>4, <1>5, <1>6, <1>7, <1>8, <1>9, <1>10, <1>11, <1>12
     DEF Next, Plugin, User, ChangeName, job, vars

\* A file comes into being through a login, through a request whose file was
\* deleted while it was at work on it, or through the merge, which has no path
\* (AuthFile.OneFilePerAccount): in no other way, whatever order user, host and
\* goroutines keep and whichever saves fail.
THEOREM NoSecondFile == Spec => OneFilePerAccount
<1>1. ASSUME TypeInv, PathInv, [Next]_vars, NEW f \in Files, docs[f] = None,
             docs'[f] # None
      PROVE  \/ newest' # newest
             \/ \E p \in Procs : /\ Saves(p) \/ Renames(p)
                                 /\ target[p] = f
                                 /\ gone[p] \/ kind[p] = "merge"
  <2>1. TypeOK
    BY <1>1 DEF TypeInv
  <2>2. ASSUME NEW p \in Procs, SaveCredential(p) \/ setAuthFileNickname(p)
        PROVE  /\ Saves(p) \/ Renames(p)
               /\ target[p] = f
               /\ gone[p] \/ kind[p] = "merge"
    <3>1. target[p] = f
      BY <1>1, <2>2, SaveFrame, RenameFrame
    <3>2. Saves(p) \/ Renames(p)
      BY <2>1, <2>2, PersistedFrame, EndJobFrame DEF SaveCredential, setAuthFileNickname, Saves,
         Renames
    <3>3. pc[p] # "idle"
      BY <2>2 DEF SaveCredential, setAuthFileNickname
    <3> QED
      BY <1>1, <2>1, <3>1, <3>2, <3>3 DEF PathInv, Attends, TypeOK
  <2>3. ASSUME NEW p \in Procs, Plugin(p), ~SaveCredential(p), ~setAuthFileNickname(p)
        PROVE  docs' = docs
    BY <2>3 DEF Plugin, Begin, StartRename, Refreshed, Unchanged, Deferred, Apply, Enrich,
       ReadFile, SaveFailed
  <2>4. CASE Login
    <3>1. newest \in Nat
      BY <2>1, BoundsAssumption DEF TypeOK
    <3> QED
      BY <2>4, <3>1 DEF Login
  <2>5. ASSUME User, ~Login
        PROVE  docs'[f] = None
    <3>1. ASSUME NEW g \in Files,
                 SetDisabled(g) \/ \E x \in Nicks \union {Blank} : SetNote(g, x)
          PROVE  docs'[f] = None
      BY <1>1, <2>1, <3>1, EditFrame
    <3> QED
      BY <1>1, <2>1, <2>5, <3>1 DEF User, ChangeName, Delete, HostReload, TypeOK
  <2> QED
    BY <1>1, <2>2, <2>3, <2>4, <2>5 DEF Next, vars
<1>2. TypeInv /\ PathInv /\ [Next]_vars =>
        [\A f \in Files : docs[f] = None /\ docs'[f] # None =>
          \/ newest' # newest
          \/ \E p \in Procs : /\ Saves(p) \/ Renames(p)
                              /\ target[p] = f
                              /\ gone[p] \/ kind[p] = "merge"]_vars
  BY <1>1
<1>3. TypeInv /\ PathInv /\ [Next]_vars => TypeInv' /\ PathInv'
  BY TypeInvStep, PathInvStep
<1> QED
  BY <1>2, <1>3, InitTypeInv, InitPathInv, PTL DEF Spec, OneFilePerAccount

-----------------------------------------------------------------------------
(* Token pairs, with an orderly user and host and punctual saves *)

\* Nothing was issued that newest does not count.
Newest ==
    /\ cached.pair <= newest
    /\ \A f \in Files : docs[f] # None => docs[f].pair <= newest

\* A rename has what is in the file, and nobody else is at work.
Alone(p) == pc[p] = "saveName" =>
    /\ docs[target[p]] # None
    /\ raw[p] = docs[target[p]]
    /\ \A q \in Procs \ {p} : pc[q] = "idle"

\* Whoever has a pair to save has the newest one.
Ahead(p) == Persisting(p) => sa[p].pair = newest

PairInv == Newest /\ \A p \in Procs : Alone(p) /\ Ahead(p)

LEMMA Numbers ==
  ASSUME TypeInv
  PROVE  /\ newest \in Nat /\ cached.pair \in Nat
         /\ \A p \in Procs : sa[p].pair \in Nat
         /\ \A f \in Files : docs[f] # None => docs[f].pair \in Nat
         /\ \A f \in Files : host[f] # None => host[f].pair \in Nat
<1>1. newest \in Nat
  BY BoundsAssumption DEF TypeInv, TypeOK
<1> QED
  BY <1>1, PairsAreNumbers DEF TypeInv, TypeOK

\* A login is granted the next pair and writes it, nameless, to the account's file.
LEMMA LoginFrame ==
  ASSUME TypeOK, Login
  PROVE  /\ newest' = newest + 1
         /\ docs'["own"] \in Docs /\ docs'["own"] # None
         /\ docs'["own"].pair = newest'
         /\ docs'["shared"] = docs["shared"]
         /\ UNCHANGED <<cached, pc, kind, target, sa, raw, gone>>
<1>1. newest' = newest + 1 /\ newest + 1 \in 0..MaxPairs
  <2>1. newest \in 1..MaxPairs /\ newest < MaxPairs
    BY DEF Login, TypeOK
  <2> QED
    BY <2>1, BoundsAssumption DEF Login
<1>2. [pair |-> newest', name |-> display, nick |-> Blank] \in Credentials
  BY <1>1 DEF TypeOK, Credentials, Given
<1>3. /\ buildAuthFileJSON([pair |-> newest', name |-> display, nick |-> Blank]) \in Docs
      /\ buildAuthFileJSON([pair |-> newest', name |-> display, nick |-> Blank]).pair = newest'
  BY <1>2, Building DEF TypeOK
<1> QED
  BY <1>1, <1>3, NoneAssumption DEF Login, authFileNameFor, Files, job, TypeOK

LEMMA InitPairInv == Init => PairInv
<1> SUFFICES ASSUME Init
             PROVE  PairInv
  OBVIOUS
<1>1. PICK f \in Files, doc \in InitialDocs(display) :
        docs = [n \in Files |-> IF n = f THEN doc ELSE None]
  BY DEF Init
<1>2. doc.pair = 1
  BY FirstDocs DEF Init
<1>3. cached.pair = 0
  BY DEF Init, NoCredential
<1> QED
  BY <1>1, <1>2, <1>3 DEF Init, PairInv, Newest, Alone, Ahead, Persisting

LEMMA PairInvStep ==
  ASSUME Orderly, Punctual, TypeInv, PairInv, [Next]_vars
  PROVE  PairInv'
<1>0. PairInv /\ TypeOK
  BY DEF TypeInv
<1>a. /\ newest \in Nat /\ cached.pair \in Nat
      /\ \A p \in Procs : sa[p].pair \in Nat
      /\ \A f \in Files : docs[f] # None => docs[f].pair \in Nat
  BY Numbers
<1>1. ASSUME NEW p \in Procs, NEW f \in Files, NEW k \in Kinds, Begin(p, f, k)
      PROVE  PairInv'
  <2>1. /\ \A q \in Procs : pc[q] # "saveName"
        /\ UNCHANGED <<docs, newest, cached>>
    BY <1>1 DEF Begin, Renaming
  <2>2. /\ pc'[p] = "asked"
        /\ \A q \in Procs \ {p} : pc'[q] = pc[q] /\ sa'[q] = sa[q]
    BY <1>1, <1>0 DEF Begin, TypeOK
  <2> QED
    BY <1>0, <2>1, <2>2 DEF PairInv, Newest, Alone, Ahead, Persisting
<1>2. ASSUME NEW p \in Procs, Refreshed(p)
      PROVE  PairInv'
  <2>1. /\ pc[p] = "asked" /\ newest' = newest + 1
        /\ \A q \in Procs : ~Persisting(q)
        /\ UNCHANGED <<docs, target, raw>>
    BY <1>2 DEF Refreshed
  <2>2. cached'.pair = newest'
    BY <1>2, <1>0 DEF Refreshed, rotated, TypeOK, Credentials
  <2>3. Newest'
    BY <1>0, <1>a, <2>1, <2>2 DEF PairInv, Newest
  <2>4. ASSUME NEW q \in Procs
        PROVE  Ahead(q)'
    BY <1>0, <1>2, <2>1, <2>2, RefreshFrame DEF Ahead, Persisting
  <2>5. ASSUME NEW q \in Procs
        PROVE  Alone(q)'
    BY <1>0, <1>2, <2>1, RefreshFrame DEF PairInv, Alone
  <2> QED
    BY <2>3, <2>4, <2>5 DEF PairInv
<1>3. ASSUME NEW p \in Procs, Deferred(p) \/ Apply(p) \/ Enrich(p) \/ ReadFile(p)
      PROVE  PairInv'
  <2>1. /\ pc[p] \in {"asked", "apply", "read", "enrich"} /\ UNCHANGED <<docs, newest>>
        /\ pc'[p] \in {"read", "save", "enrich"}
        /\ \A q \in Procs \ {p} : /\ pc'[q] = pc[q] /\ sa'[q] = sa[q]
                                  /\ target'[q] = target[q] /\ raw'[q] = raw[q]
    BY <1>0, <1>3 DEF Deferred, Apply, Enrich, ReadFile, job, TypeOK
  <2>2. sa[p].pair = newest
    BY <1>0, <1>3 DEF Deferred, Apply, Enrich, ReadFile, PairInv, Ahead, Persisting
  <2>3. sa'[p].pair = sa[p].pair /\ (cached' = cached \/ cached'.pair = sa[p].pair)
    <3>1. CASE Enrich(p)
      <4>1. PICK name : cached' = [sa[p] EXCEPT !.name = name]
        BY <3>1 DEF Enrich
      <4>2. cached'.pair = sa[p].pair
        BY <1>0, <4>1 DEF TypeOK, Credentials
      <4> QED
        BY <1>0, <3>1, <4>2 DEF Enrich, TypeOK
    <3>2. CASE ~Enrich(p)
      BY <1>3, <3>2 DEF Deferred, Apply, ReadFile, job
    <3> QED
      BY <3>1, <3>2
  <2>4. Newest'
    BY <1>0, <1>a, <2>1, <2>2, <2>3 DEF PairInv, Newest
  <2>5. ASSUME NEW q \in Procs
        PROVE  (Alone(q) /\ Ahead(q))'
    BY <1>0, <2>1, <2>2, <2>3 DEF PairInv, Alone, Ahead, Persisting
  <2> QED
    BY <2>4, <2>5 DEF PairInv
<1>4. ASSUME NEW p \in Procs, EndJob(p) \/ (pc[p] = "save" /\ Persisted(p)),
             UNCHANGED <<docs, newest, cached>>
      PROVE  PairInv'
  <2>1. /\ \/ pc'[p] = "idle"
           \/ pc[p] = "save" /\ pc'[p] \in {"asked", "enrich"} /\ sa'[p] = sa[p]
        /\ \A q \in Procs \ {p} : /\ pc'[q] = pc[q] /\ sa'[q] = sa[q]
                                  /\ target'[q] = target[q] /\ raw'[q] = raw[q]
    BY <1>0, <1>4, EndJobFrame, PersistedFrame
  <2>2. Newest'
    BY <1>0, <1>4 DEF PairInv, Newest
  <2>3. ASSUME NEW q \in Procs
        PROVE  Ahead(q)'
    BY <1>0, <1>4, <2>1 DEF PairInv, Ahead, Persisting
  <2>4. ASSUME NEW q \in Procs
        PROVE  Alone(q)'
    <3>1. CASE q = p
      BY <2>1, <3>1 DEF Alone
    <3>2. CASE q # p
      BY <1>0, <1>4, <2>1, <3>2 DEF PairInv, Alone
    <3> QED
      BY <3>1, <3>2
  <2> QED
    BY <2>2, <2>3, <2>4 DEF PairInv
<1>5. ASSUME NEW p \in Procs, SaveCredential(p)
      PROVE  PairInv'
  <2> DEFINE f == target[p]
  <2>1. pc[p] = "save" /\ Persisted(p) /\ UNCHANGED <<newest, cached>>
    BY <1>5 DEF SaveCredential
  <2>2. sa[p].pair = newest
    BY <1>0, <2>1 DEF PairInv, Ahead, Persisting
  <2>3. /\ docs'[f] # None /\ docs'[f].pair = newest
        /\ \A g \in Files : g # f => docs'[g] = docs[g]
    <3>1. SavesOver(p, f) /\ f \in Files /\ docs'[f] # None
      BY <1>5, SaveFrame
    <3>2. docs'[f].pair = sa[p].pair
      BY <3>1, Saved, Writing
    <3> QED
      BY <1>5, <2>2, <3>1, <3>2, SaveFrame
  <2>4. Newest'
    BY <1>0, <1>a, <2>1, <2>3 DEF PairInv, Newest
  <2>5. \A q \in Procs : pc'[q] # "saveName"
    BY <1>0, <2>1, PersistedFrame DEF PairInv, Alone
  <2>6. ASSUME NEW q \in Procs
        PROVE  Ahead(q)'
    BY <1>0, <2>1, <2>2, PersistedFrame DEF PairInv, Ahead, Persisting
  <2> QED
    BY <2>4, <2>5, <2>6 DEF PairInv, Alone
<1>6. ASSUME NEW p \in Procs, NEW f \in Files, NEW name \in Nicks \union {Blank},
             StartRename(p, f, name)
      PROVE  PairInv'
  <2>1. /\ docs[f] # None
        /\ \A q \in Procs : pc[q] = "idle"
        /\ UNCHANGED <<docs, newest, cached, sa>>
    BY <1>6 DEF StartRename, Quiet
  <2>2. /\ pc'[p] = "saveName" /\ target'[p] = f /\ raw'[p] = docs[f]
        /\ \A q \in Procs \ {p} : pc'[q] = "idle"
    BY <1>6, <1>0, <2>1 DEF StartRename, TypeOK
  <2> QED
    BY <1>0, <2>1, <2>2 DEF PairInv, Newest, Alone, Ahead, Persisting
<1>7. ASSUME NEW p \in Procs, setAuthFileNickname(p)
      PROVE  PairInv'
  <2> DEFINE f == target[p]
  <2>1. pc[p] = "saveName" /\ EndJob(p) /\ UNCHANGED <<newest, cached>>
    BY <1>7 DEF setAuthFileNickname
  <2>2. /\ raw[p] = docs[f] /\ docs[f] # None
        /\ \A q \in Procs \ {p} : pc[q] = "idle"
    BY <1>0, <2>1 DEF PairInv, Alone
  <2>3. /\ docs'[f].pair = docs[f].pair
        /\ \A g \in Files : g # f => docs'[g] = docs[g]
    BY <1>7, <2>2, RenameFrame, Named, Rewriting
  <2>4. \A q \in Procs : pc'[q] = "idle"
    BY <1>0, <2>1, <2>2, EndJobFrame
  <2>5. Newest'
    BY <1>0, <2>1, <2>2, <2>3 DEF PairInv, Newest
  <2> QED
    BY <2>4, <2>5 DEF PairInv, Alone, Ahead, Persisting
<1>8. CASE Login
  <2>1. \A q \in Procs : pc'[q] = "idle"
    BY <1>0, <1>8, LoginFrame DEF Login, Quiet
  <2>2. Newest'
    BY <1>0, <1>a, <1>8, LoginFrame DEF PairInv, Newest, Files
  <2> QED
    BY <2>1, <2>2 DEF PairInv, Alone, Ahead, Persisting
<1>9. ASSUME NEW f \in Files, Delete(f)
      PROVE  PairInv'
  <2>1. /\ \A q \in Procs : pc'[q] = "idle"
        /\ UNCHANGED <<newest, cached>>
    BY <1>9 DEF Delete, Quiet
  <2>2. \A g \in Files : docs'[g] # None => docs'[g] = docs[g]
    BY <1>9, <1>0 DEF Delete, TypeOK
  <2> QED
    BY <1>0, <2>1, <2>2 DEF PairInv, Newest, Alone, Ahead, Persisting
<1>10. ASSUME NEW f \in Files, SetDisabled(f) \/ \E x \in Nicks \union {Blank} : SetNote(f, x)
       PROVE  PairInv'
  <2>1. \A q \in Procs : pc[q] # "saveName"
    BY <1>10 DEF SetDisabled, SetNote, Quiet, Unread
  <2>2. /\ UNCHANGED <<newest, cached, pc, target, sa, raw>>
        /\ docs[f] # None /\ docs'[f].pair = docs[f].pair
        /\ \A g \in Files : g # f => docs'[g] = docs[g]
    BY <1>0, <1>10, EditFrame
  <2> QED
    BY <1>0, <2>1, <2>2 DEF PairInv, Newest, Alone, Ahead, Persisting
<1>11. CASE UNCHANGED <<docs, newest, cached, pc, target, sa, raw>>
  BY <1>0, <1>11 DEF PairInv, Newest, Alone, Ahead, Persisting
<1> QED
  BY <1>1, <1>2, <1>3, <1>4, <1>5, <1>6, <1>7, <1>8, <1>9, <1>10, <1>11
     DEF Next, Plugin, User, Unchanged, SaveFailed, ChangeName, HostReload, job, vars

\* No write puts an older token pair back (AuthFile.TokensNeverRollBack), whether
\* requests know the path of their file or not, whichever saves fail and however
\* far the host's copy is behind: as long as each pair is saved before the next
\* is granted, and no rename or login overlaps a request.
THEOREM NeverRollsBack ==
  ASSUME Orderly, Punctual
  PROVE  Spec => TokensNeverRollBack
<1>1. ASSUME TypeInv, PairInv, [Next]_vars, NEW f \in Files, Overwritten(f)
      PROVE  docs'[f].pair >= docs[f].pair
  <2>1. docs[f] # None /\ docs[f].pair \in Nat /\ newest \in Nat
    BY <1>1, Numbers DEF Overwritten
  <2>2. ASSUME NEW p \in Procs, SavesOver(p, f)
        PROVE  docs'[f].pair >= docs[f].pair
    <3>1. docs'[f].pair = sa[p].pair
      BY <1>1, <2>2, Saved, Writing
    <3>2. sa[p].pair = newest
      BY <1>1, <2>2 DEF PairInv, Ahead, Persisting, SavesOver, SaveCredential
    <3> QED
      BY <1>1, <2>1, <3>1, <3>2 DEF PairInv, Newest
  <2>3. ASSUME NEW p \in Procs, RenamesOver(p, f)
        PROVE  docs'[f].pair >= docs[f].pair
    <3>1. raw[p] = docs[f]
      BY <1>1, <2>3 DEF PairInv, Alone, RenamesOver, setAuthFileNickname
    <3>2. docs'[f].pair = docs[f].pair
      BY <1>1, <2>3, <3>1, Named, Rewriting
    <3> QED
      BY <2>1, <3>2
  <2> QED
    BY <1>1, <2>2, <2>3, Writers
<1>2. TypeInv /\ PairInv /\ [Next]_vars =>
        [\A f \in Files : Overwritten(f) => docs'[f].pair >= docs[f].pair]_vars
  BY <1>1
<1>3. TypeInv /\ PairInv /\ [Next]_vars => TypeInv' /\ PairInv'
  BY TypeInvStep, PairInvStep
<1> QED
  BY <1>2, <1>3, InitTypeInv, InitPairInv, PTL DEF Spec, TokensNeverRollBack

-----------------------------------------------------------------------------
(* Host-owned fields, when every request carries the path of its file *)

\* An account has one file.
OneFile == docs["shared"] = None \/ docs["own"] = None

\* Nobody's file was deleted under way; whoever is about to save has read it, and
\* the fields that are the host's are as they were read.
Reads(p) ==
    /\ ~gone[p]
    /\ pc[p] = "save" =>
           /\ raw[p] # None
           /\ raw[p].disabled = docs[target[p]].disabled
           /\ raw[p].note = docs[target[p]].note

FileInv == OneFile /\ \A p \in Procs : Alone(p) /\ Reads(p)

LEMMA InitFileInv == Init => FileInv
  BY DEF Init, Files, FileInv, OneFile, Alone, Reads

\* Whoever is at work has a file, which is the account's only one.
LEMMA Working ==
  ASSUME "merge" \notin Kinds, TypeOK, PathInv, FileInv
  PROVE  /\ \A p \in Procs : kind[p] # "merge"
         /\ \A p \in Procs : pc[p] # "idle" => target[p] \in Files /\ docs[target[p]] # None
         /\ \A p \in Procs, f \in Files : pc[p] # "idle" /\ docs[f] # None => f = target[p]
<1>1. \A p \in Procs : kind[p] # "merge"
  BY DEF TypeOK
<1>2. \A p \in Procs : pc[p] # "idle" => target[p] \in Files /\ docs[target[p]] # None
  BY <1>1 DEF TypeOK, PathInv, Attends, FileInv, Reads
<1> QED
  BY <1>1, <1>2 DEF FileInv, OneFile, Files

LEMMA FileInvStep ==
  ASSUME Orderly, "merge" \notin Kinds, TypeInv, PathInv, FileInv, [Next]_vars
  PROVE  FileInv'
<1>0. FileInv /\ TypeOK
  BY DEF TypeInv
<1>a. /\ \A p \in Procs : kind[p] # "merge"
      /\ \A p \in Procs : pc[p] # "idle" => target[p] \in Files /\ docs[target[p]] # None
      /\ \A p \in Procs, f \in Files : pc[p] # "idle" /\ docs[f] # None => f = target[p]
  BY <1>0, Working
<1>1. ASSUME NEW p \in Procs, NEW f \in Files, NEW k \in Kinds, Begin(p, f, k)
      PROVE  FileInv'
  <2>1. /\ \A q \in Procs : pc[q] # "saveName"
        /\ UNCHANGED <<docs, raw, gone>>
        /\ pc'[p] = "asked"
        /\ \A q \in Procs \ {p} : pc'[q] = pc[q] /\ target'[q] = target[q]
    BY <1>1, <1>0 DEF Begin, Renaming, TypeOK
  <2> QED
    BY <1>0, <2>1 DEF FileInv, OneFile, Alone, Reads
<1>2. ASSUME NEW p \in Procs, Refreshed(p)
      PROVE  FileInv'
  <2>1. pc[p] = "asked" /\ UNCHANGED <<docs, target, raw, gone>>
    BY <1>2 DEF Refreshed
  <2> QED
    BY <1>0, <1>2, <2>1, RefreshFrame DEF FileInv, OneFile, Alone, Reads
<1>3. ASSUME NEW p \in Procs, Deferred(p) \/ Apply(p) \/ Enrich(p) \/ ReadFile(p)
      PROVE  FileInv'
  <2>1. /\ pc[p] \in {"asked", "apply", "read", "enrich"} /\ UNCHANGED <<docs, target, gone>>
        /\ \/ pc'[p] \in {"read", "enrich"}
           \/ pc'[p] = "save" /\ raw'[p] = docs[target[p]]
        /\ \A q \in Procs \ {p} : pc'[q] = pc[q] /\ raw'[q] = raw[q]
    BY <1>0, <1>a, <1>3 DEF Deferred, Apply, Enrich, ReadFile, job, TypeOK
  <2>2. docs[target[p]] # None
    BY <1>a, <2>1
  <2>3. ASSUME NEW q \in Procs
        PROVE  (Alone(q) /\ Reads(q))'
    BY <1>0, <2>1, <2>2 DEF FileInv, Alone, Reads
  <2> QED
    BY <1>0, <2>1, <2>3 DEF FileInv, OneFile
<1>4. ASSUME NEW p \in Procs, EndJob(p) \/ (pc[p] = "save" /\ Persisted(p)), UNCHANGED docs
      PROVE  FileInv'
  <2>1. /\ \/ pc'[p] = "idle" /\ ~gone'[p]
           \/ pc[p] = "save" /\ pc'[p] \in {"asked", "enrich"} /\ gone'[p] = gone[p]
        /\ \A q \in Procs \ {p} : /\ pc'[q] = pc[q] /\ target'[q] = target[q]
                                  /\ raw'[q] = raw[q] /\ gone'[q] = gone[q]
    BY <1>0, <1>4, EndJobFrame, PersistedFrame DEF EndJob, Persisted, TypeOK
  <2>2. ASSUME NEW q \in Procs
        PROVE  Reads(q)'
    BY <1>0, <1>4, <2>1 DEF FileInv, Reads
  <2>3. ASSUME NEW q \in Procs
        PROVE  Alone(q)'
    <3>1. CASE q = p
      BY <2>1, <3>1 DEF Alone
    <3>2. CASE q # p
      BY <1>0, <1>4, <2>1, <3>2 DEF FileInv, Alone
    <3> QED
      BY <3>1, <3>2
  <2> QED
    BY <1>0, <1>4, <2>2, <2>3 DEF FileInv, OneFile
<1>5. ASSUME NEW p \in Procs, SaveCredential(p)
      PROVE  FileInv'
  <2> DEFINE f == target[p]
  <2>1. pc[p] = "save" /\ Persisted(p)
    BY <1>5 DEF SaveCredential
  <2>2. f \in Files /\ SavesOver(p, f) /\ docs[f] # None /\ raw[p] # None
    BY <1>0, <1>a, <1>5, <2>1, SaveFrame DEF FileInv, Reads
  <2>3. /\ docs'[f] # None
        /\ docs'[f].disabled = docs[f].disabled
        /\ docs'[f].note = docs[f].note
        /\ \A g \in Files : g # f => docs'[g] = docs[g]
    BY <1>0, <1>5, <2>1, <2>2, Saved, SaveFrame, Writing DEF FileInv, Reads
  <2>4. OneFile'
    BY <1>0, <2>2, <2>3 DEF FileInv, OneFile, Files
  <2>5. /\ \/ pc'[p] = "idle" /\ ~gone'[p]
           \/ pc'[p] \in {"asked", "enrich"} /\ gone'[p] = gone[p]
        /\ \A q \in Procs \ {p} : /\ pc'[q] = pc[q] /\ target'[q] = target[q]
                                  /\ raw'[q] = raw[q] /\ gone'[q] = gone[q]
    BY <1>0, <2>1, EndJobFrame, PersistedFrame DEF EndJob, Persisted, TypeOK
  <2>6. \A q \in Procs : pc'[q] # "saveName"
    BY <1>0, <2>1, <2>5 DEF FileInv, Alone
  <2>7. ASSUME NEW q \in Procs
        PROVE  Reads(q)'
    <3>1. Reads(q) /\ (pc[q] # "idle" => target[q] = f)
      BY <1>0, <1>a, <2>2 DEF FileInv
    <3> QED
      BY <2>3, <2>5, <3>1 DEF Reads
  <2> QED
    BY <2>4, <2>6, <2>7 DEF FileInv, Alone
<1>6. ASSUME NEW p \in Procs, NEW f \in Files, NEW name \in Nicks \union {Blank},
             StartRename(p, f, name)
      PROVE  FileInv'
  <2>1. /\ docs[f] # None /\ UNCHANGED <<docs, gone>>
        /\ pc'[p] = "saveName" /\ target'[p] = f /\ raw'[p] = docs[f]
        /\ \A q \in Procs \ {p} : pc'[q] = "idle"
    BY <1>6, <1>0 DEF StartRename, Quiet, TypeOK
  <2> QED
    BY <1>0, <2>1 DEF FileInv, OneFile, Alone, Reads
<1>7. ASSUME NEW p \in Procs, setAuthFileNickname(p)
      PROVE  FileInv'
  <2>1. EndJob(p) /\ pc[p] = "saveName"
    BY <1>7 DEF setAuthFileNickname
  <2>2. \A q \in Procs : pc'[q] = "idle" /\ ~gone'[q]
    BY <1>0, <2>1, EndJobFrame DEF EndJob, FileInv, Alone, Reads, TypeOK
  <2>3. \A g \in Files : docs[g] = None => docs'[g] = None
    BY <1>7, <1>0, <2>1, RenameFrame DEF FileInv, Alone
  <2> QED
    BY <1>0, <2>2, <2>3 DEF FileInv, OneFile, Alone, Reads, Files
<1>8. CASE Login
  <2>1. /\ \A q \in Procs : pc'[q] = "idle" /\ gone'[q] = gone[q]
        /\ docs["shared"] = None
    BY <1>0, <1>8, LoginFrame DEF Login, Quiet
  <2>2. docs'["shared"] = None
    BY <1>0, <1>8, <2>1, LoginFrame
  <2> QED
    BY <1>0, <2>1, <2>2 DEF FileInv, OneFile, Alone, Reads
<1>9. ASSUME NEW f \in Files, Delete(f)
      PROVE  FileInv'
  <2>1. /\ \A q \in Procs : pc[q] = "idle" /\ pc'[q] = "idle"
        /\ \A g \in Files : docs[g] = None => docs'[g] = None
        /\ \A q \in Procs : gone'[q] = (gone[q] \/ (pc[q] # "idle" /\ target[q] = f))
    BY <1>0, <1>9 DEF Delete, Quiet, TypeOK
  <2> QED
    BY <1>0, <2>1 DEF FileInv, OneFile, Alone, Reads, Files
<1>10. ASSUME NEW f \in Files, SetDisabled(f) \/ \E x \in Nicks \union {Blank} : SetNote(f, x)
       PROVE  FileInv'
  <2>1. \A q \in Procs : pc[q] \notin {"save", "saveName"}
    BY <1>10 DEF SetDisabled, SetNote, Quiet, Unread
  <2>2. /\ UNCHANGED <<pc, gone>>
        /\ \A g \in Files : docs'[g] = None <=> docs[g] = None
    BY <1>0, <1>10, EditFrame
  <2> QED
    BY <1>0, <2>1, <2>2 DEF FileInv, OneFile, Alone, Reads, Files
<1>11. CASE UNCHANGED <<docs, pc, target, raw, gone>>
  BY <1>0, <1>11 DEF FileInv, OneFile, Alone, Reads
<1> QED
  BY <1>1, <1>2, <1>3, <1>4, <1>5, <1>6, <1>7, <1>8, <1>9, <1>10, <1>11
     DEF Next, Plugin, User, Unchanged, SaveFailed, ChangeName, HostReload, job, vars

\* A refresh leaves the switch and the note of the file alone, and a rename the
\* switch (AuthFile.HostFieldsKept), when each request knows the path of its file.
THEOREM HostFieldsStay ==
  ASSUME Orderly, "merge" \notin Kinds
  PROVE  Spec => HostFieldsKept
<1>1. ASSUME TypeInv, FileInv, [Next]_vars, NEW f \in Files, Overwritten(f)
      PROVE  /\ docs'[f].disabled = docs[f].disabled
             /\ Refreshing => docs'[f].note = docs[f].note
  <2>1. ASSUME NEW p \in Procs, SavesOver(p, f)
        PROVE  docs'[f].disabled = docs[f].disabled /\ docs'[f].note = docs[f].note
    <3>1. /\ raw[p] # None
          /\ raw[p].disabled = docs[f].disabled /\ raw[p].note = docs[f].note
      BY <1>1, <2>1 DEF FileInv, Reads, SavesOver, SaveCredential
    <3> QED
      BY <1>1, <2>1, <3>1, Saved, Writing
  <2>2. ASSUME NEW p \in Procs, RenamesOver(p, f)
        PROVE  docs'[f].disabled = docs[f].disabled
    <3>1. raw[p] = docs[f]
      BY <1>1, <2>2 DEF FileInv, Alone, RenamesOver, setAuthFileNickname
    <3> QED
      BY <1>1, <2>2, <3>1, Named, Rewriting
  <2> QED
    BY <1>1, <2>1, <2>2, Writers
<1>2. TypeInv /\ FileInv /\ [Next]_vars =>
        [\A f \in Files : Overwritten(f) =>
            /\ docs'[f].disabled = docs[f].disabled
            /\ Refreshing => docs'[f].note = docs[f].note]_vars
  BY <1>1
<1>3. TypeInv /\ PathInv /\ FileInv /\ [Next]_vars => TypeInv' /\ PathInv' /\ FileInv'
  BY TypeInvStep, PathInvStep, FileInvStep
<1> QED
  BY <1>2, <1>3, InitTypeInv, InitPathInv, InitFileInv, PTL DEF Spec, HostFieldsKept

-----------------------------------------------------------------------------
(* The name that is shown, when the host keeps abreast and no save of a     *)
(* credential fails                                                         *)

\* The host's copy, however old, has the nickname of the file, and so has the
\* credential of every request; so has the cache wherever it outranks the copy or
\* the file. While it outranks a file some request is bringing it there.
Agrees(f) ==
    docs[f] # None =>
        /\ host[f] # None => host[f].nick = parsedNickname(docs[f])
        /\ \/ cached.pair > docs[f].pair
           \/ host[f] # None /\ cached.pair > host[f].pair
           => cached.nick = parsedNickname(docs[f])
        /\ cached.pair > docs[f].pair => \E p \in Procs : Persisting(p)
Takes(p) ==
    pc[p] \notin {"idle", "saveName"} => sa[p].nick = parsedNickname(docs[target[p]])

NameInv == (\A p \in Procs : Takes(p)) /\ \A f \in Files : Agrees(f)

LEMMA InitNameInv == Init => NameInv
<1> SUFFICES ASSUME Init
             PROVE  NameInv
  OBVIOUS
<1>1. PICK f \in Files, doc \in InitialDocs(display) :
        docs = [n \in Files |-> IF n = f THEN doc ELSE None]
  BY DEF Init
<1>2. doc \in Docs /\ doc.pair = 1 /\ cached.pair = 0
  BY FirstDocs DEF Init, NoCredential
<1>3. docs \in [Files -> Docs \union {None}]
  BY <1>1, <1>2
<1>4. \A g \in Files : docs[g] # None => /\ docs[g].pair = 1 /\ host[g].pair = 1
                                         /\ host[g].nick = parsedNickname(docs[g])
  BY <1>1, <1>2, <1>3, Copying DEF Init
<1> QED
  BY <1>2, <1>4 DEF Init, NameInv, Takes, Agrees

\* While nobody has a pair to save no file is behind the cache.
LEMMA NobodyBehind ==
  ASSUME TypeInv, NameInv, \A p \in Procs : ~Persisting(p)
  PROVE  \A f \in Files : docs[f] # None => ~(cached.pair > docs[f].pair)
  BY DEF NameInv, Agrees

\* The host has just taken in file f and nobody has a pair to save; the cache does
\* not outrank what is in the files.
LEMMA TakenIn ==
  ASSUME TypeInv, TypeOK', NameInv, NEW f \in Files,
         \A p \in Procs : ~Persisting(p),
         \A p \in Procs : pc'[p] \in {"idle", "saveName"},
         cached' = cached,
         host'[f] = copyOf(docs'[f]),
         docs'[f] # None => ~(cached.pair > docs'[f].pair),
         \A g \in Files : g # f => docs'[g] = docs[g] /\ host'[g] = host[g]
  PROVE  NameInv'
<1>1. \A g \in Files : docs[g] # None => ~(cached.pair > docs[g].pair)
  BY NobodyBehind
<1>2. docs'[f] # None => /\ host'[f].pair = docs'[f].pair
                         /\ host'[f].nick = parsedNickname(docs'[f])
  BY Copying DEF TypeOK
<1>3. Agrees(f)'
  BY <1>2 DEF Agrees
<1>4. ASSUME NEW g \in Files, g # f
      PROVE  Agrees(g)'
  BY <1>1, <1>4 DEF NameInv, Agrees
<1> QED
  BY <1>3, <1>4 DEF NameInv, Takes

LEMMA NameInvStep ==
  ASSUME Orderly, Punctual, Abreast, "merge" \notin Kinds, "save" \notin FailingSaves,
         TypeInv, PathInv, PairInv, FileInv, NameInv, [Next]_vars
  PROVE  NameInv'
<1>0. NameInv /\ TypeOK /\ FileInv /\ TypeInv' /\ TypeOK'
  BY TypeInvStep DEF TypeInv
<1>a. /\ newest \in Nat /\ cached.pair \in Nat
      /\ \A p \in Procs : sa[p].pair \in Nat
      /\ \A f \in Files : docs[f] # None => docs[f].pair \in Nat
      /\ \A f \in Files : host[f] # None => host[f].pair \in Nat
  BY Numbers
<1>b. /\ \A p \in Procs : kind[p] # "merge"
      /\ \A p \in Procs : pc[p] # "idle" => target[p] \in Files /\ docs[target[p]] # None
      /\ \A p \in Procs, f \in Files : pc[p] # "idle" /\ docs[f] # None => f = target[p]
  BY <1>0, Working
<1>1. ASSUME NEW p \in Procs, NEW f \in Files, NEW k \in Kinds, Begin(p, f, k)
      PROVE  NameInv'
  <2>1. docs[f] # None /\ host[f] # None
    BY <1>1 DEF Begin, PathInv, Copied
  <2>2. k # "merge"
    OBVIOUS
  <2>3. /\ pc[p] = "idle" /\ UNCHANGED <<docs, host, cached>>
        /\ pc'[p] = "asked" /\ target'[p] = f
        /\ \A q \in Procs \ {p} : pc'[q] = pc[q] /\ target'[q] = target[q] /\ sa'[q] = sa[q]
    BY <1>1, <1>0, <2>2 DEF Begin, TypeOK
  <2>4. sa'[p].nick = parsedNickname(docs[f])
    <3>1. CASE cached.pair > host[f].pair
      <4>1. sa'[p] = cached
        BY <1>1, <1>0, <3>1 DEF Begin, TypeOK
      <4> QED
        BY <4>1, <3>1, <2>1, <1>0 DEF NameInv, Agrees
    <3>2. CASE ~(cached.pair > host[f].pair)
      <4>1. sa'[p] = host[f]
        BY <1>1, <1>0, <3>2 DEF Begin, TypeOK
      <4> QED
        BY <4>1, <2>1, <1>0 DEF NameInv, Agrees
    <3> QED
      BY <3>1, <3>2
  <2>5. ASSUME NEW q \in Procs
        PROVE  Takes(q)'
    BY <1>0, <2>3, <2>4 DEF NameInv, Takes
  <2>6. ASSUME NEW g \in Files
        PROVE  Agrees(g)'
    <3>1. \A q \in Procs : Persisting(q) => Persisting(q)'
      BY <2>3 DEF Persisting
    <3> QED
      BY <1>0, <2>3, <3>1 DEF NameInv, Agrees
  <2> QED
    BY <2>5, <2>6 DEF NameInv
<1>2. ASSUME NEW p \in Procs, Refreshed(p)
      PROVE  NameInv'
  <2>1. pc[p] = "asked" /\ UNCHANGED <<docs, host, target>>
    BY <1>2 DEF Refreshed
  <2>2. cached'.nick = parsedNickname(docs[target[p]])
    <3>1. cached'.nick = sa[p].nick
      BY <1>0, <1>2 DEF Refreshed, rotated, TypeOK, Credentials
    <3> QED
      BY <1>0, <2>1, <3>1 DEF NameInv, Takes
  <2>3. ASSUME NEW q \in Procs
        PROVE  Takes(q)'
    <3>1. pc[q] # "idle" => target[q] = target[p]
      BY <1>b, <2>1
    <3> QED
      BY <1>0, <1>2, <2>1, <2>2, <3>1, RefreshFrame DEF NameInv, Takes
  <2>4. Persisting(p)'
    <3>1. pc'[p] = "apply"
      BY <1>2 DEF Refreshed
    <3> QED
      BY <3>1 DEF Persisting
  <2>5. ASSUME NEW g \in Files
        PROVE  Agrees(g)'
    <3>1. docs[g] # None => g = target[p]
      BY <1>b, <2>1
    <3> QED
      BY <1>0, <2>1, <2>2, <2>4, <3>1 DEF NameInv, Agrees
  <2> QED
    BY <2>3, <2>5 DEF NameInv
<1>3. ASSUME NEW p \in Procs, Deferred(p) \/ Apply(p) \/ Enrich(p) \/ ReadFile(p)
      PROVE  NameInv'
  <2>1. /\ pc[p] \in {"asked", "apply", "read", "enrich"} /\ UNCHANGED <<docs, host, target>>
        /\ pc'[p] \in {"read", "save", "enrich"}
        /\ \A q \in Procs \ {p} : pc'[q] = pc[q] /\ sa'[q] = sa[q]
    BY <1>0, <1>3 DEF Deferred, Apply, Enrich, ReadFile, job, TypeOK
  <2>2. sa'[p].nick = sa[p].nick /\ (cached' = cached \/ cached'.nick = sa[p].nick)
    <3>1. CASE Enrich(p)
      <4>1. PICK name : cached' = [sa[p] EXCEPT !.name = name]
        BY <3>1 DEF Enrich
      <4>2. cached'.nick = sa[p].nick
        BY <1>0, <4>1 DEF TypeOK, Credentials
      <4> QED
        BY <1>0, <3>1, <4>2 DEF Enrich, TypeOK
    <3>2. CASE ~Enrich(p)
      BY <1>3, <3>2 DEF Deferred, Apply, ReadFile, job
    <3> QED
      BY <3>1, <3>2
  <2>3. sa[p].nick = parsedNickname(docs[target[p]])
    BY <1>0, <2>1 DEF NameInv, Takes
  <2>4. Persisting(p)'
    BY <2>1 DEF Persisting
  <2>5. ASSUME NEW q \in Procs
        PROVE  Takes(q)'
    BY <1>0, <2>1, <2>2, <2>3 DEF NameInv, Takes
  <2>6. ASSUME NEW g \in Files
        PROVE  Agrees(g)'
    <3>1. docs[g] # None => g = target[p]
      BY <1>b, <2>1
    <3> QED
      BY <1>0, <2>1, <2>2, <2>3, <2>4, <3>1 DEF NameInv, Agrees
  <2> QED
    BY <2>5, <2>6 DEF NameInv
<1>4. ASSUME NEW p \in Procs, Unchanged(p)
      PROVE  NameInv'
  <2>1. /\ pc[p] = "asked" /\ pc'[p] = "idle" /\ UNCHANGED <<docs, host, cached>>
        /\ \A q \in Procs \ {p} : pc'[q] = pc[q] /\ target'[q] = target[q] /\ sa'[q] = sa[q]
    BY <1>0, <1>4, EndJobFrame DEF Unchanged
  <2>2. \A q \in Procs : Persisting(q) => Persisting(q)'
    BY <2>1 DEF Persisting
  <2>3. ASSUME NEW q \in Procs
        PROVE  Takes(q)'
    BY <1>0, <2>1 DEF NameInv, Takes
  <2>4. ASSUME NEW g \in Files
        PROVE  Agrees(g)'
    BY <1>0, <2>1, <2>2 DEF NameInv, Agrees
  <2> QED
    BY <2>3, <2>4 DEF NameInv
<1>5. ASSUME NEW p \in Procs, SaveCredential(p)
      PROVE  NameInv'
  <2> DEFINE f == target[p]
  <2>1. pc[p] = "save" /\ Persisted(p) /\ UNCHANGED <<host, cached>>
    BY <1>5 DEF SaveCredential
  <2>2. /\ f \in Files /\ SavesOver(p, f)
        /\ docs[f] \in Docs /\ raw[p] \in Docs /\ raw[p].note = docs[f].note
        /\ sa[p] \in Credentials /\ sa[p].name \in Names
        /\ sa[p].nick = parsedNickname(docs[f]) /\ sa[p].pair = newest
    <3>1. f \in Files /\ SavesOver(p, f) /\ docs[f] # None
      BY <1>b, <1>5, <2>1, SaveFrame
    <3>2. docs[f] \in Docs /\ raw[p] \in Docs /\ raw[p].note = docs[f].note
      BY <1>0, <2>1, <3>1 DEF FileInv, Reads, TypeOK
    <3>3. sa[p].nick = parsedNickname(docs[f]) /\ sa[p].pair = newest
      BY <1>0, <2>1 DEF NameInv, Takes, PairInv, Ahead, Persisting
    <3> QED
      BY <3>1, <3>2, <3>3, Saved
  <2>3. /\ docs'[f] = fileJSON(sa[p], raw[p]) /\ docs'[f] # None
        /\ \A g \in Files : g # f => docs'[g] = docs[g]
    BY <1>5, <2>2, Saved, SaveFrame
  <2>4. docs'[f].pair = newest
    BY <2>2, <2>3, Writing
  <2>5. parsedNickname(docs'[f]) = parsedNickname(docs[f])
    BY <2>2, <2>3, NicknameKept
  <2>6. /\ pc'[p] = "idle" \/ (pc'[p] # "idle" /\ target'[p] = f /\ sa'[p] = sa[p])
        /\ \A q \in Procs \ {p} : pc'[q] = pc[q] /\ target'[q] = target[q] /\ sa'[q] = sa[q]
    BY <1>0, <2>1, PersistedFrame
  <2>7. ASSUME NEW q \in Procs
        PROVE  Takes(q)'
    <3>1. Takes(q) /\ (pc[q] # "idle" => target[q] = f)
      BY <1>0, <1>b, <2>2, NoneAssumption DEF NameInv
    <3>2. CASE q = p
      BY <2>2, <2>5, <2>6, <3>2 DEF Takes
    <3>3. CASE q # p
      BY <2>5, <2>6, <3>1, <3>3 DEF Takes
    <3> QED
      BY <3>2, <3>3
  <2>8. ASSUME NEW g \in Files
        PROVE  Agrees(g)'
    <3>1. g # f => docs'[g] = None
      BY <1>b, <2>1, <2>3
    <3>2. cached.pair <= newest
      BY DEF PairInv, Newest
    <3>3. CASE g = f
      BY <1>0, <1>a, <2>1, <2>2, <2>4, <2>5, <3>2, <3>3, NoneAssumption DEF NameInv, Agrees
    <3> QED
      BY <3>1, <3>3 DEF Agrees
  <2> QED
    BY <2>7, <2>8 DEF NameInv
<1>6. ASSUME NEW p \in Procs, NEW f \in Files, NEW name \in Nicks \union {Blank},
             StartRename(p, f, name)
      PROVE  NameInv'
  <2>1. /\ \A q \in Procs : pc[q] = "idle" /\ pc'[q] \in {"idle", "saveName"}
        /\ UNCHANGED <<docs, host, cached>>
    BY <1>6, <1>0 DEF StartRename, Quiet, TypeOK
  <2>2. \A g \in Files : docs[g] # None => ~(cached.pair > docs[g].pair)
    BY <1>0, <2>1, NobodyBehind DEF Persisting
  <2> QED
    BY <1>0, <2>1, <2>2 DEF NameInv, Takes, Agrees
<1>7. ASSUME NEW p \in Procs, setAuthFileNickname(p)
      PROVE  NameInv'
  <2> DEFINE f == target[p]
  <2>1. pc[p] = "saveName" /\ EndJob(p) /\ HostTakesIn(f) /\ cached' = cached
    BY <1>7 DEF setAuthFileNickname
  <2>2. /\ raw[p] = docs[f] /\ docs[f] # None
        /\ \A q \in Procs \ {p} : pc[q] = "idle"
    BY <1>0, <2>1 DEF FileInv, Alone
  <2>3. \A q \in Procs : pc'[q] = "idle" /\ ~Persisting(q)
    BY <1>0, <2>1, <2>2, EndJobFrame DEF Persisting
  <2>4. /\ f \in Files /\ docs'[f].pair = docs[f].pair
        /\ \A g \in Files : g # f => docs'[g] = docs[g]
    BY <1>7, <2>2, RenameFrame, Named, Rewriting
  <2>5. host'[f] = copyOf(docs'[f]) /\ \A g \in Files : g # f => host'[g] = host[g]
    BY <1>0, <2>1, <2>4 DEF HostTakesIn, TypeOK
  <2>6. ~(cached.pair > docs'[f].pair)
    BY <1>0, <2>2, <2>3, <2>4, NobodyBehind
  <2> QED
    BY <1>0, <2>1, <2>3, <2>4, <2>5, <2>6, TakenIn
<1>8. ASSUME NEW p \in Procs, SaveFailed(p)
      PROVE  NameInv'
  <2>1. pc[p] = "saveName" /\ EndJob(p) /\ UNCHANGED <<docs, host, cached>>
    BY <1>8 DEF SaveFailed
  <2>2. \A q \in Procs : ~Persisting(q) /\ pc'[q] = "idle"
    BY <1>0, <2>1, EndJobFrame DEF FileInv, Alone, Persisting
  <2>3. \A g \in Files : docs[g] # None => ~(cached.pair > docs[g].pair)
    BY <1>0, <2>2, NobodyBehind
  <2> QED
    BY <1>0, <2>1, <2>2, <2>3 DEF NameInv, Takes, Agrees
<1>9. CASE Login
  <2>1. \A q \in Procs : pc[q] = "idle"
    BY <1>9 DEF Login, Quiet
  <2>2. \A q \in Procs : pc'[q] = "idle" /\ ~Persisting(q)
    BY <1>0, <1>9, <2>1, LoginFrame DEF Persisting
  <2>3. ~(cached.pair > docs'["own"].pair)
    BY <1>0, <1>a, <1>9, LoginFrame DEF PairInv, Newest
  <2>4. host'["own"] = copyOf(docs'["own"]) /\ host'["shared"] = host["shared"]
    BY <1>0, <1>9 DEF Login, HostTakesIn, authFileNameFor, TypeOK, Files
  <2>5. cached' = cached /\ \A g \in Files : g # "own" => docs'[g] = docs[g] /\ host'[g] = host[g]
    BY <1>0, <1>9, <2>4, LoginFrame DEF Files
  <2> QED
    BY <1>0, <2>2, <2>3, <2>4, <2>5, TakenIn DEF Files
<1>10. ASSUME NEW f \in Files, Delete(f)
       PROVE  NameInv'
  <2>1. \A q \in Procs : pc[q] = "idle"
    BY <1>10 DEF Delete, Quiet
  <2>2. /\ \A q \in Procs : pc'[q] = "idle" /\ ~Persisting(q)
        /\ cached' = cached /\ docs'[f] = None /\ host'[f] = copyOf(docs'[f])
        /\ \A g \in Files : g # f => docs'[g] = docs[g] /\ host'[g] = host[g]
    BY <1>0, <1>10, <2>1 DEF Delete, copyOf, Persisting, TypeOK
  <2> QED
    BY <1>0, <2>2, TakenIn
<1>11. ASSUME NEW f \in Files, SetDisabled(f)
       PROVE  NameInv'
  <2>1. /\ docs[f] # None /\ docs'[f] \in Docs /\ docs'[f].pair = docs[f].pair
        /\ parsedNickname(docs'[f]) = parsedNickname(docs[f])
        /\ \A g \in Files : g # f => docs'[g] = docs[g] /\ host'[g] = host[g]
        /\ host'[f] = copyOf(docs'[f])
        /\ UNCHANGED <<cached, pc, target, sa>>
    BY <1>0, <1>11, EditFrame
  <2>2. host'[f].pair = docs[f].pair /\ host'[f].nick = parsedNickname(docs[f])
    BY <2>1, Copying, NoneAssumption
  <2>3. ASSUME NEW q \in Procs
        PROVE  Takes(q)'
    <3>1. Takes(q) /\ (pc[q] # "idle" => target[q] \in Files)
      BY <1>0, <1>b DEF NameInv
    <3> QED
      BY <2>1, <3>1 DEF Takes
  <2>4. \A q \in Procs : Persisting(q)' <=> Persisting(q)
    BY <2>1 DEF Persisting
  <2>5. ASSUME NEW g \in Files
        PROVE  Agrees(g)'
    BY <1>0, <2>1, <2>2, <2>4 DEF NameInv, Agrees
  <2> QED
    BY <2>3, <2>5 DEF NameInv
<1>12. ASSUME NEW f \in Files, NEW x \in Nicks \union {Blank}, SetNote(f, x)
       PROVE  NameInv'
  <2>1. \A q \in Procs : pc[q] = "idle"
    BY <1>12 DEF SetNote, Quiet
  <2>2. /\ docs[f] # None /\ docs'[f].pair = docs[f].pair
        /\ \A g \in Files : g # f => docs'[g] = docs[g] /\ host'[g] = host[g]
        /\ host'[f] = copyOf(docs'[f])
        /\ UNCHANGED <<cached, pc>>
    BY <1>0, <1>12, EditFrame
  <2>3. \A q \in Procs : pc'[q] = "idle" /\ ~Persisting(q)
    BY <2>1, <2>2 DEF Persisting
  <2>4. ~(cached.pair > docs'[f].pair)
    BY <1>0, <2>2, <2>3, NobodyBehind
  <2> QED
    BY <1>0, <2>2, <2>3, <2>4, TakenIn
<1>13. ASSUME NEW f \in Files, HostReload(f)
       PROVE  NameInv'
  <2>1. /\ host'[f] = copyOf(docs[f])
        /\ \A g \in Files : g # f => host'[g] = host[g]
        /\ UNCHANGED <<docs, cached, pc, target, sa>>
    BY <1>0, <1>13 DEF HostReload, job, TypeOK
  <2>2. docs[f] # None => /\ host'[f].pair = docs[f].pair
                          /\ host'[f].nick = parsedNickname(docs[f])
    BY <1>0, <2>1, Copying DEF TypeOK
  <2>3. \A q \in Procs : (Takes(q)' <=> Takes(q)) /\ (Persisting(q)' <=> Persisting(q))
    BY <2>1 DEF Takes, Persisting
  <2>4. ASSUME NEW g \in Files
        PROVE  Agrees(g)'
    BY <1>0, <2>1, <2>2, <2>3 DEF NameInv, Agrees
  <2> QED
    BY <1>0, <2>3, <2>4 DEF NameInv
<1>14. CASE UNCHANGED <<docs, host, cached, pc, target, sa>>
  BY <1>0, <1>14 DEF NameInv, Takes, Agrees, Persisting
<1> QED
  BY <1>1, <1>2, <1>3, <1>4, <1>5, <1>6, <1>7, <1>8, <1>9, <1>10, <1>11, <1>12, <1>13, <1>14
     DEF Next, Plugin, User, ChangeName, job, vars

\* A custom name, wherever an older build kept it, survives every refresh, and an
\* account without one gets none (AuthFile.ShownNameKept), whatever older pair the
\* host's copy has: as long as that copy has the names and logins that were saved,
\* each request knows its path and the saves of credentials succeed in time.
THEOREM NameStays ==
  ASSUME Orderly, Punctual, Abreast, "merge" \notin Kinds, "save" \notin FailingSaves
  PROVE  Spec => ShownNameKept
<1>1. ASSUME TypeInv, PathInv, FileInv, NameInv, [Next]_vars, NEW f \in Files,
             Overwritten(f), Refreshing
      PROVE  \/ shown(docs'[f]) = shown(docs[f])
             \/ parsedNickname(docs[f]) = Blank /\ parsedNickname(docs'[f]) = Blank
  <2>1. PICK p \in Procs : SavesOver(p, f)
    BY <1>1, Writers
  <2>2. /\ docs[f] \in Docs /\ raw[p] \in Docs /\ raw[p].note = docs[f].note
        /\ sa[p].nick = parsedNickname(docs[f])
    BY <1>1, <2>1 DEF FileInv, Reads, NameInv, Takes, SavesOver, SaveCredential, TypeInv,
       TypeOK, Overwritten
  <2>3. parsedNickname(docs'[f]) = parsedNickname(docs[f])
    BY <1>1, <2>1, <2>2, Saved, NicknameKept
  <2> QED
    BY <2>3 DEF shown, parsed, clineAccountLabel
<1>2. TypeInv /\ PathInv /\ FileInv /\ NameInv /\ [Next]_vars =>
        [\A f \in Files :
          Overwritten(f) /\ Refreshing =>
              \/ shown(docs'[f]) = shown(docs[f])
              \/ parsedNickname(docs[f]) = Blank /\ parsedNickname(docs'[f]) = Blank]_vars
  BY <1>1
<1>3. TypeInv /\ PathInv /\ PairInv /\ FileInv /\ NameInv /\ [Next]_vars =>
        TypeInv' /\ PathInv' /\ PairInv' /\ FileInv' /\ NameInv'
  BY TypeInvStep, PathInvStep, PairInvStep, FileInvStep, NameInvStep
<1> QED
  BY <1>2, <1>3, InitTypeInv, InitPathInv, InitPairInv, InitFileInv, InitNameInv, PTL
     DEF Spec, ShownNameKept
=============================================================================
