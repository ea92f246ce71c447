---------------------------- MODULE ProjectDocuments ----------------------------
(***************************************************************************)
(* war_room_documents.py: the registry of project documents, its append-   *)
(* only versions and the optimistic expected_version, with its callers:    *)
(* the HTTP route and the delivery worker register inside a transaction    *)
(* that holds SQLite's write lock from its start, war_room_seed_documents  *)
(* looks first and takes the lock with its first INSERT.  Agents edit the  *)
(* registered files all the while.                                         *)
(***************************************************************************)
EXTENDS Naturals, Sequences, FiniteSets

CONSTANTS
    Docs,        \* fresh document ids
    Files,       \* files under the approved roots
    Contents,    \* what a file may hold, up to its sha256
    Import,      \* files the import goes through, in order
    Clients,     \* one registration each
    NoDoc,
    MaxVersions  \* bound on the versions of a document

VARIABLES
    file,        \* content of each file
    history,     \* war_document_versions: per document, a sequence of [uri, sha]
    current,     \* current_version_id, as its number
    frozen,      \* the project is archived
    seen,        \* per client: the document and version it has read, if any
    answer,      \* per client: what its registration returned
    seed,        \* files the import has still to do, the current one first
    found,       \* what the import has looked up before it holds the lock
    importing,   \* the import holds the write lock
    saved        \* the committed tables, to which a rollback returns

docs == <<file, history, current, frozen, seen, answer, seed, found, importing, saved>>

Nothing  == [doc |-> NoDoc, version |-> 0]
NotLooked == [at |-> Nothing, sha |-> NoDoc]
NoAnswer == [doc |-> NoDoc, version |-> 0, uri |-> NoDoc, sha |-> NoDoc, new |-> FALSE]

Init ==
    /\ file \in [Files -> {CHOOSE c \in Contents : TRUE}]
    /\ history = [d \in Docs |-> <<>>] /\ current = [d \in Docs |-> 0]
    /\ frozen = FALSE
    /\ seen = [c \in Clients |-> Nothing] /\ answer = [c \in Clients |-> NoAnswer]
    /\ seed = Import /\ found = NotLooked /\ importing = FALSE
    /\ saved = [history |-> history, current |-> current]

Exists(d)  == current[d] > 0
Version(d) == history[d][current[d]]
NewDoc     == CHOOSE d \in Docs : ~Exists(d)
Tables     == <<history, current>>

\* The documents a registration without an id may be for: those whose current version
\* is that file; of several the one updated last, to the second, so any of them.
ByUri(f) ==
    LET S == {d \in Docs : Exists(d) /\ Version(d).uri = f} IN
    IF S = {} THEN {Nothing} ELSE {[doc |-> d, version |-> current[d]] : d \in S}

\* The document is as the caller expects it: version 0 stands for "none yet".
ExpectedAny(at, expected) == TRUE   \* mutant: expected_version is not compared
Expected(at, expected) == expected = at.version

\* A registration of content x that finds it as the current version of the file
\* changes nothing; else a version is appended and made the current one.
Same(at, f, x) == at.version > 0 /\ Version(at.doc) = [uri |-> f, sha |-> x]
Target(at)     == IF at.version = 0 THEN NewDoc ELSE at.doc
Append1(at, f, x) ==
    /\ history' = [history EXCEPT ![Target(at)] = Append(@, [uri |-> f, sha |-> x])]
    /\ current' = [current EXCEPT ![Target(at)] = at.version + 1]
\* Bounds: ids and versions.
Room(at) == IF at.version = 0 THEN \E d \in Docs : ~Exists(d) ELSE at.version < MaxVersions

(************************** route and delivery worker **********************)

\* A caller that means to replace what it has read passes its version.
Look(c, d) ==
    /\ answer[c] = NoAnswer /\ Exists(d) /\ ~importing
    /\ seen' = [seen EXCEPT ![c] = [doc |-> d, version |-> current[d]]]
    /\ UNCHANGED <<file, Tables, frozen, answer, seed, found, importing, saved>>

Edit(f, x) ==
    /\ file[f] # x /\ file' = [file EXCEPT ![f] = x]
    /\ UNCHANGED <<Tables, frozen, seen, answer, seed, found, importing, saved>>

\* register_document while the caller holds the write lock, for the document `at`.
Registered(c, at, f) ==
    /\ answer[c] = NoAnswer /\ ~importing /\ ~frozen
    /\ IF Same(at, f, file[f]) THEN UNCHANGED Tables
                               ELSE Room(at) /\ Append1(at, f, file[f])
    /\ answer' = [answer EXCEPT ![c] =
          [doc |-> Target(at), version |-> current'[Target(at)], uri |-> f,
           sha |-> file[f], new |-> ~Same(at, f, file[f])]]
    /\ saved' = [history |-> history', current |-> current']
    /\ UNCHANGED <<file, frozen, seen, seed, found, importing>>

\* The route, under BEGIN IMMEDIATE, with the id and the version the caller has read:
\* any other version is a 409 and nothing is written.
Register(c, f) ==
    /\ seen[c] # Nothing
    /\ LET at == [doc |-> seen[c].doc, version |-> current[seen[c].doc]] IN
       Expected(at, seen[c].version) /\ Registered(c, at, f)

\* The delivery worker, in the transaction that stores the answer: an artifact of a run
\* names no document, and is registered for whatever document has the file.
Capture(c, f) == seen[c] = Nothing /\ \E at \in ByUri(f) : Registered(c, at, f)

Archive ==
    /\ ~frozen /\ ~importing /\ frozen' = TRUE
    /\ UNCHANGED <<file, Tables, seen, answer, seed, found, importing, saved>>

(********************************** import *********************************)

\* seed(): lookup and hash of a file, outside the lock until something was written.
\* An unchanged or refused file is passed over.
SeedLook ==
    /\ seed # <<>> /\ found = NotLooked
    /\ LET f == Head(seed) IN
       \E at \in ByUri(f) :
          IF frozen \/ Same(at, f, file[f]) THEN seed' = Tail(seed) /\ UNCHANGED found
          ELSE found' = [at |-> at, sha |-> file[f]] /\ UNCHANGED seed
    /\ UNCHANGED <<file, Tables, frozen, seen, answer, importing, saved>>

\* The first write takes the lock and begins the transaction.  A version someone else
\* has added meanwhile violates UNIQUE(document_id, version): the import is over.
Collides(at) == at.version > 0 /\ Len(history[at.doc]) > at.version
SeedWrite ==
    /\ found # NotLooked
    /\ IF Collides(found.at)
       THEN /\ history' = saved.history /\ current' = saved.current
            /\ seed' = <<>> /\ importing' = FALSE
       ELSE /\ Room(found.at) /\ Append1(found.at, Head(seed), found.sha)
            /\ seed' = Tail(seed) /\ importing' = TRUE
    /\ found' = NotLooked
    /\ UNCHANGED <<file, frozen, seen, answer, saved>>

SeedCommit ==
    /\ importing /\ seed = <<>> /\ found = NotLooked
    /\ importing' = FALSE
    /\ saved' = [history |-> history, current |-> current]
    /\ UNCHANGED <<file, Tables, frozen, seen, answer, seed, found>>

Next ==
    \/ \E c \in Clients, d \in Docs : Look(c, d)
    \/ \E f \in Files, x \in Contents : Edit(f, x)
    \/ \E c \in Clients, f \in Files : Register(c, f) \/ Capture(c, f)
    \/ SeedLook \/ SeedWrite \/ SeedCommit \/ Archive

(******************************* properties ********************************)

\* The committed registry keeps what it has answered: the version a caller was told
\* is in the history for ever, and one that replaced a version it had read is the
\* successor of exactly that version - no one's work in between was covered up.
AnswersKept ==
    \A c \in Clients : answer[c] # NoAnswer =>
        LET a == answer[c] IN
        /\ a.version <= Len(saved.history[a.doc])
        /\ saved.history[a.doc][a.version] = [uri |-> a.uri, sha |-> a.sha]
        /\ a.new /\ seen[c] # Nothing => a.version = seen[c].version + 1

\* Every document shows its latest version, whoever has written last.
LatestShown == \A d \in Docs : current[d] = Len(history[d])

\* Two clients that were both told their content is new have not been told the same
\* version of the same document.
OneAuthor ==
    \A b, c \in Clients : b # c /\ answer[b].new /\ answer[c].new =>
        <<answer[b].doc, answer[b].version>> # <<answer[c].doc, answer[c].version>>

DocumentHistory == AnswersKept /\ LatestShown /\ OneAuthor

(***************************** why they hold *******************************)

Versions == [uri : Files, sha : Contents]
Places   == [doc : Docs \cup {NoDoc}, version : Nat]
Stores   == [history : [Docs -> Seq(Versions)], current : [Docs -> Nat]]
TypeOK ==
    /\ file \in [Files -> Contents]
    /\ history \in [Docs -> Seq(Versions)] /\ current \in [Docs -> Nat]
    /\ frozen \in BOOLEAN /\ importing \in BOOLEAN
    /\ seen \in [Clients -> Places]
    /\ answer \in [Clients -> [doc : Docs \cup {NoDoc}, version : Nat, uri : Files \cup {NoDoc},
                               sha : Contents \cup {NoDoc}, new : BOOLEAN]]
    /\ seed \in Seq(Files)
    /\ found \in [at : Places, sha : Contents \cup {NoDoc}]
    /\ saved \in Stores

\* What a client has read and what it was answered are about documents that exist.
ClientTrue(c) ==
    /\ seen[c] # Nothing => seen[c].doc \in Docs /\ seen[c].version > 0
    /\ answer[c] # NoAnswer => answer[c].doc \in Docs /\ answer[c].version > 0

\* What the import has looked up may be behind the history, never ahead of it.
FoundTrue ==
    found # NotLooked =>
        /\ seed # <<>> /\ found.sha \in Contents
        /\ found.at.version > 0 =>
              found.at.doc \in Docs /\ found.at.version <= Len(history[found.at.doc])

\* A rollback goes back to a beginning of every history; there is none outside an import.
SavedTrue ==
    /\ \A d \in Docs : saved.current[d] = Len(saved.history[d])
    /\ ~importing => saved.history = history /\ saved.current = current
    /\ \A d \in Docs : /\ Len(saved.history[d]) <= Len(history[d])
                        /\ \A i \in 1..Len(saved.history[d]) : history[d][i] = saved.history[d][i]

IndInv == /\ TypeOK /\ FoundTrue /\ SavedTrue /\ DocumentHistory
          /\ \A c \in Clients : ClientTrue(c)
================================================================================
