----------------------------- MODULE LspServer ------------------------------
(***************************************************************************)
(* The language server of chaffra-cli/src/lsp.rs between an editor and the *)
(* disk. The editor's messages wait on standard input; the server takes    *)
(* one at a time and answers or publishes before it takes the next.        *)
(* didOpen carries the text, didSave and hover make the server read the    *)
(* disk as it is when the message is handled, not when it was sent.        *)
(***************************************************************************)
EXTENDS Naturals, Sequences, FiniteSets, EditorFiles

CONSTANTS Functions,  \* [Contents -> BOOLEAN]: there is a function under the cursor
          Ids, NoId,
          MaxWire     \* bound: messages sent and not yet handled

ASSUME LspAssumption ==
    /\ Functions \in [Contents -> BOOLEAN]
    /\ NoId \notin Ids

VARIABLES wire,     \* messages the server has not read yet
          shown,    \* the diagnostics the editor shows for each file
          unsynced, \* history: files written after their last didSave was sent
          asked,    \* history: requests the server has read
          replies,  \* history: the answers, in order
          lspUp     \* the server's loop still runs

lspVars == <<wire, shown, unsynced, asked, replies, lspUp>>

Requests == {"initialize", "shutdown", "hover", "unknown"}
Notices == {"initialized", "didChange", "didClose", "unknown"}

Send(msg) ==
    /\ Len(wire) < MaxWire
    /\ wire' = Append(wire, msg)

Message(method, id, f, text, params) ==
    [method |-> method, id |-> id, file |-> f, text |-> text, params |-> params]

(***************************************************************************)
(* The editor.                                                             *)
(***************************************************************************)

\* Save writes the file and tells the server.
EditorSaves(f) ==
    \E c \in Contents :
        /\ Send(Message("didSave", NoId, f, c, "ok"))
        /\ disk' = [disk EXCEPT ![f] = c]
        /\ unsynced' = unsynced \ {f}
        /\ UNCHANGED <<shown, asked, replies, lspUp>>

\* Another program writes or removes the file.
OtherWrites(f) ==
    \E c \in Contents \cup {Missing} :
        /\ c # disk[f]
        /\ disk' = [disk EXCEPT ![f] = c]
        /\ unsynced' = unsynced \cup {f}
        /\ UNCHANGED <<wire, shown, asked, replies, lspUp>>

EditorOpens(f) ==
    /\ disk[f] # Missing
    /\ Send(Message("didOpen", NoId, f, disk[f], "ok"))
    /\ UNCHANGED <<disk, shown, unsynced, asked, replies, lspUp>>

EditorAsks(f) ==
    \E id \in Ids, method \in Requests, params \in {"ok", "bad"} :
        /\ id \notin asked /\ \A i \in DOMAIN wire : wire[i].id # id
        /\ Send(Message(method, id, f, Missing, params))
        /\ UNCHANGED <<disk, shown, unsynced, asked, replies, lspUp>>

\* Notifications the server has no use for, bodies that are not JSON, and a header
\* block without a length.
EditorSendsElse(f) ==
    \E method \in Notices \cup {"garbage", "headerless"} :
        /\ Send(Message(method, NoId, f, Missing, "ok"))
        /\ UNCHANGED <<disk, shown, unsynced, asked, replies, lspUp>>

(***************************************************************************)
(* The server.                                                             *)
(***************************************************************************)

\* dead-code, then complexity; a file without findings has no entry at all.
analyze_file_for_diagnostics(content) == {FoundAlone(content)} \ {{}}

\* Reading a file that is not there fails, whoever asks.
Readable(f) == disk[f] # Missing

\* The publications of didSave and didOpen: at most one, as a set.
SavePublishes(f) ==
    LET found == analyze_file_for_diagnostics(disk[f]) IN
    IF ~Readable(f) THEN {} ELSE IF found = {} THEN {{}} ELSE found

OpenPublishes(text) == analyze_file_for_diagnostics(text)

\* Mutant: a save that finds nothing publishes nothing.
Publishes_NeverClears(msg) ==
    CASE msg.params = "bad" -> {}
      [] msg.method = "didSave" -> SavePublishes(msg.file) \ {{}}
      [] msg.method = "didOpen" -> OpenPublishes(msg.text)
      [] OTHER -> {}

Publishes(msg) ==
    CASE msg.params = "bad" -> {}
      [] msg.method = "didSave" -> SavePublishes(msg.file)
      [] msg.method = "didOpen" -> OpenPublishes(msg.text)
      [] OTHER -> {}

build_hover_content(content) == Functions[content]

\* Hover answers with the function's metrics, or with null, as do unknown requests.
Answer(msg) ==
    CASE msg.method = "initialize" -> "capabilities"
      [] msg.method = "hover" /\ msg.params = "ok" /\ Readable(msg.file)
                              /\ build_hover_content(disk[msg.file]) -> "metrics"
      [] OTHER -> "null"

\* Mutant: a hover with nothing to show is not answered.
Answers_SilentHover(msg) ==
    IF msg.method \in {"initialize", "shutdown"} \/ (msg.method \in {"hover", "unknown"} /\ Answer(msg) = "metrics")
    THEN <<[id |-> msg.id, result |-> Answer(msg)]>>
    ELSE <<>>

\* initialize, shutdown and hover always answer, under the id they came with; other
\* methods only when they have one.
Answers(msg) ==
    IF msg.method \in {"initialize", "shutdown", "hover"} \/ (msg.method = "unknown" /\ msg.id # NoId)
    THEN <<[id |-> msg.id, result |-> Answer(msg)]>>
    ELSE <<>>

\* A message: handle_lsp_request, then everything it returned is written out.
ServerHandles ==
    LET msg == Head(wire) IN
    /\ lspUp /\ wire # <<>>
    /\ msg.method \notin {"garbage", "headerless"}
    /\ wire' = Tail(wire)
    /\ asked' = asked \cup ({msg.id} \ {NoId})
    /\ replies' = replies \o Answers(msg)
    /\ shown' = IF Publishes(msg) = {} THEN shown
                ELSE [shown EXCEPT ![msg.file] = CHOOSE d \in Publishes(msg) : TRUE]
    /\ UNCHANGED <<disk, unsynced, lspUp>>

\* A message is handled, but what it returned cannot be written: that ends the loop.
WriteToEditorFails ==
    LET msg == Head(wire) IN
    /\ lspUp /\ wire # <<>>
    /\ Answers(msg) # <<>> \/ Publishes(msg) # {}
    /\ wire' = Tail(wire)
    /\ asked' = asked \cup ({msg.id} \ {NoId})
    /\ lspUp' = FALSE
    /\ UNCHANGED <<disk, shown, unsynced, replies>>

\* A body that does not parse is skipped; a header block without a length ends the loop.
ServerSkips ==
    /\ lspUp /\ wire # <<>>
    /\ Head(wire).method \in {"garbage", "headerless"}
    /\ wire' = Tail(wire)
    /\ lspUp' = (Head(wire).method = "garbage")
    /\ UNCHANGED <<disk, shown, unsynced, asked, replies>>

LspInit ==
    /\ disk \in [Files -> Contents]
    /\ wire = <<>> /\ asked = {} /\ replies = <<>>
    /\ shown = [f \in Files |-> {}]
    /\ unsynced = Files
    /\ lspUp = TRUE

LspNext ==
    \/ \E f \in Files : EditorSaves(f) \/ EditorOpens(f) \/ EditorAsks(f) \/ EditorSendsElse(f)
    \/ \E f \in Files : OtherWrites(f)
    \/ ServerHandles \/ WriteToEditorFails \/ ServerSkips

(***************************************************************************)
(* Properties.                                                             *)
(***************************************************************************)

\* When the server has handled what the editor sent, and the last thing that happened
\* to a file was a save, the editor shows the findings of what is on disk: those that
\* are gone are gone from the screen, however saves, openings and other writers mixed.
SavedMeansShown ==
    \A f \in Files :
        (lspUp /\ f \notin unsynced /\ \A i \in DOMAIN wire : wire[i].file # f) => shown[f] = FoundAlone(disk[f])

RepliesTo(id) == {i \in DOMAIN replies : replies[i].id = id}

\* While the loop runs, a request the server read has exactly one answer, under its own
\* id; the answer that could not be written, which ends the loop, is the only one missing.
LspAnswersOnce ==
    /\ \A id \in asked : Cardinality(RepliesTo(id)) \in IF lspUp THEN {1} ELSE {0, 1}
    /\ \A id, other \in asked : RepliesTo(id) = {} /\ RepliesTo(other) = {} => id = other
=============================================================================
