---- MODULE LanguageServer ----
(***************************************************************************)
(* The language server (src/tools/lsp) and the editor it talks to.  Both   *)
(* ends of the pipe are queues: the editor writes notifications and        *)
(* requests without waiting, the server handles one message to its end     *)
(* before it reads the next, and the editor reads what the server wrote    *)
(* whenever it likes.  A file on disk is shared: the editor writes it on a *)
(* save, the server reads it on every analysis.                            *)
(*                                                                         *)
(* A text is what the front end makes of it: whether the lexer reads it,   *)
(* whether the parser reaches its end, the names it declares up to the     *)
(* first error, and the names it uses.  The standard library, the words at *)
(* a position and the places inside a file are left out; so are hover and  *)
(* signatureHelp, and is_initialized_, which nothing reads.                *)
(***************************************************************************)
EXTENDS Naturals, Sequences, SequencesExt, FiniteSets, Functions

CONSTANTS
  Files,        \* the files of the workspace
  Project,      \* those that have a manifest above them
  Names,        \* names of declarations
  Classes,      \* those declared as classes; the others are enums and aliases
  Keyword,      \* a reserved word under the cursor
  Texts,        \* the texts a file may have
  Disks,        \* what the disk may hold when the editor starts
  Nothing,      \* null: no answer, no file
  MaxRequests,  \* bound: requests the editor sends
  MaxSent,      \* bound: those and the notifications about documents
  MaxQueue      \* bound: messages waiting for the server

ASSUME TextsAssumption ==
  /\ Project \subseteq Files
  /\ Classes \subseteq Names
  /\ Texts \subseteq [reads: BOOLEAN, parses: BOOLEAN,
                      declares: SUBSET Names, uses: SUBSET Names]
  /\ Disks \subseteq [Files -> Texts]
  /\ Keyword \notin Names
  /\ Nothing \notin Files \cup Texts
ASSUME BoundsAssumption == {MaxRequests, MaxSent, MaxQueue} \subseteq Nat

VARIABLES
  \* the editor
  buffers,      \* the text in each open file's window
  disk,         \* the text of each file on disk
  shown,        \* the problems it marks in each file
  focus,        \* the file last opened, changed or saved, until one is closed
  phase,        \* "up", "leaving" after shutdown, "gone" after exit or a hang-up
  edits,        \* document notifications sent
  answered,     \* for each request sent, how many responses have come
  \* the pipe
  inbox, outbox,
  \* the server
  docs,         \* docs_
  workspace,    \* manifest_ was loaded: initialize has been handled
  sources,      \* last_opts_->sources: what the last analysis read
  nodes,        \* last_context_->nodes: what it parsed, and what it kept
  is_shutdown, should_exit, exit_code,
  history       \* of each file, the classes of its last good text and the
                \* names it ever declared: read by the properties alone

editor == <<buffers, disk, shown, focus, phase, edits, answered>>
server == <<docs, workspace, sources, nodes, is_shutdown, should_exit,
            exit_code, history>>
vars == <<editor, inbox, outbox, server>>

NoText == Nothing
Open(texts) == {f \in Files : texts[f] # NoText}

(***************************************************************************)
(* One analysis                                                            *)
(***************************************************************************)
\* The project of the file, or else that of the workspace, is read from the
\* disk; open documents take the place of what is on the disk; the file
\* itself is read from the disk when it is not open.
Sources(target, open) ==
  LET project == IF target \in Project \/ workspace THEN Project ELSE {}
  IN  [f \in project \cup Open(open) \cup {target} |->
         IF f \in Open(open) THEN open[f] ELSE disk[f]]

\* One text the lexer cannot read keeps the parser from all of them.
Readable(src) == \A f \in DOMAIN src : src[f].reads

\* What the parser adds for a file.
Parsed(src, f) ==
  IF f \in DOMAIN src /\ Readable(src) THEN src[f].declares ELSE {}

Declaring(src, n) == {f \in DOMAIN src : n \in src[f].declares}

\* The binder visits the files in the order of a hash table: of the files
\* that declare a name, all but the first are told of it.
BinderErrors(src, order, f) ==
  {<<"undeclared", n>> : n \in {n \in src[f].uses : Declaring(src, n) = {}}}
  \cup {<<"duplicate", n>> : n \in {n \in src[f].declares :
          \E i, j \in DOMAIN order :
             i < j /\ order[j] = f /\ n \in src[order[i]].declares}}

\* The reports of an analysis: each stage runs when the one before it found
\* no error in any file.
Reports(src) ==
  LET fs == DOMAIN src
      unread == {f \in fs : ~src[f].reads}
      unparsed == {f \in fs : ~src[f].parses}
      stage(broken, code) == {[f \in fs |-> IF f \in broken THEN {<<code>>} ELSE {}]}
  IN  IF ~Readable(src) THEN stage(unread, "lexer")
      ELSE IF unparsed # {} THEN stage(unparsed, "parser")
      ELSE {[f \in fs |-> BinderErrors(src, order, f)] : order \in SetToSeqs(fs)}

\* Mutant: classes that are still there are kept as well.
PreservedTwice(f, now) ==
  LET before == nodes[f].parsed \cup nodes[f].kept
  IN  IF now = {} THEN before ELSE before \cap Classes

\* Mutant: only a file without any declaration keeps those it had.
PreservedWhole(f, now) ==
  IF now = {} THEN nodes[f].parsed \cup nodes[f].kept ELSE {}

\* Declarations kept from the analysis before: all of a file's when it has
\* none now, otherwise the classes that are missing from it.  The code counts
\* package and import statements among them; the files here have neither, and
\* one that has keeps no more than its classes when its declarations go.
Preserved(f, now) ==
  LET before == nodes[f].parsed \cup nodes[f].kept
  IN  IF now = {} THEN before ELSE (before \cap Classes) \ now

\* Mutant: the edited file is told, whatever was found in the others.
PublishedForTarget(target, report) == [f \in {target} |-> report[f]]

\* The edited file and those with a report are told.
Published(target, report) ==
  [f \in {target} \cup {g \in DOMAIN report : report[g] # {}} |-> report[f]]

\* analyze_document
Analyze(target, open) ==
  LET src == Sources(target, open)
  IN  /\ sources' = src
      /\ nodes' = [f \in Files |-> [parsed |-> Parsed(src, f),
                                    kept   |-> Preserved(f, Parsed(src, f))]]
      /\ \E report \in Reports(src) :
           outbox' = Append(outbox, [kind  |-> "publishDiagnostics",
                                     shown |-> Published(target, report)])
      /\ history' = [f \in Files |->
           [good |-> IF f \in DOMAIN src /\ Readable(src) /\ src[f].parses
                     THEN src[f].declares \cap Classes ELSE history[f].good,
            ever |-> history[f].ever \cup Parsed(src, f)]]

(***************************************************************************)
(* The server handles one message                                          *)
(***************************************************************************)
\* run: the next message, while no exit has been handled.
Take(kind) ==
  /\ ~should_exit
  /\ inbox # <<>>
  /\ Head(inbox).kind = kind
  /\ inbox' = Tail(inbox)

handle_did_open ==
  /\ Take("didOpen")
  /\ docs' = [docs EXCEPT ![Head(inbox).file] = Head(inbox).text]
  /\ Analyze(Head(inbox).file, docs')
  /\ UNCHANGED <<editor, workspace, is_shutdown, should_exit, exit_code>>

handle_did_change ==
  /\ Take("didChange")
  /\ docs' = [docs EXCEPT ![Head(inbox).file] = Head(inbox).text]
  /\ Analyze(Head(inbox).file, docs')
  /\ UNCHANGED <<editor, workspace, is_shutdown, should_exit, exit_code>>

handle_did_save ==
  /\ Take("didSave")
  /\ Analyze(Head(inbox).file, docs)
  /\ UNCHANGED <<editor, docs, workspace, is_shutdown, should_exit, exit_code>>

\* The file's marks are taken away; nothing is analysed again.
handle_did_close ==
  /\ Take("didClose")
  /\ LET f == Head(inbox).file
     IN  /\ docs' = [docs EXCEPT ![f] = NoText]
         /\ outbox' = Append(outbox, [kind  |-> "publishDiagnostics",
                                      shown |-> [g \in {f} |-> {}]])
  /\ UNCHANGED <<editor, workspace, sources, nodes, is_shutdown, should_exit,
                 exit_code, history>>

Known(f) == nodes[f].parsed \cup nodes[f].kept

\* The location make_location_from_node gives.  A declaration that was kept
\* points at the sources of an earlier analysis, which are gone: whatever is
\* there now decides.
Location(f, n) == IF n \in nodes[f].parsed THEN {f} ELSE Files \cup {Nothing}

\* find_type_declaration: the first file, in the order of a hash table, that
\* has a declaration of the name.
TypeLocations(n) ==
  UNION {Location(f, n) : f \in {f \in Files : n \in Known(f)}}

\* What each request may be answered.  A name without a declaration leaves
\* definition with the variable it is the type of.
DefinitionAnswers(q) ==
  IF q.name = Keyword THEN {Nothing}
  ELSE IF TypeLocations(q.name) # {} THEN TypeLocations(q.name)
  ELSE {Nothing, q.file}

Answers(q) ==
  CASE q.kind \in {"initialize", "shutdown"} -> {Nothing}
    [] q.kind = "documentSymbol" -> {Known(q.file)}
    [] q.kind = "completion"     -> {UNION {Known(f) : f \in Files}}
    [] q.kind = "definition"     -> DefinitionAnswers(q)
    [] q.kind = "typeDefinition" ->
         IF q.name \in Names /\ TypeLocations(q.name) # {}
         THEN TypeLocations(q.name) ELSE {Nothing}
    [] q.kind = "unknown"        -> {Nothing}   \* the error response -32601

\* Mutant: a definition asked of a reserved word is dropped.
RespondUnlessKeyword(q) ==
  IF q.name = Keyword THEN UNCHANGED outbox
  ELSE \E a \in Answers(q) :
         outbox' = Append(outbox, [kind |-> "response", id |-> q.id, result |-> a])

Respond(q) ==
  \E a \in Answers(q) :
    outbox' = Append(outbox, [kind |-> "response", id |-> q.id, result |-> a])

handle_initialize ==
  /\ Take("initialize")
  /\ workspace' = TRUE
  /\ Respond(Head(inbox))
  /\ UNCHANGED <<editor, docs, sources, nodes, is_shutdown, should_exit,
                 exit_code, history>>

handle_shutdown ==
  /\ Take("shutdown")
  /\ is_shutdown' = TRUE
  /\ Respond(Head(inbox))
  /\ UNCHANGED <<editor, docs, workspace, sources, nodes, should_exit,
                 exit_code, history>>

handle_query ==
  /\ \E kind \in {"documentSymbol", "completion", "definition",
                  "typeDefinition", "unknown"} : Take(kind)
  /\ Respond(Head(inbox))
  /\ UNCHANGED <<editor, server>>

handle_exit ==
  /\ Take("exit")
  /\ should_exit' = TRUE
  /\ exit_code' = IF is_shutdown THEN 0 ELSE 1
  /\ UNCHANGED <<editor, outbox, docs, workspace, sources, nodes, is_shutdown,
                 history>>

\* The editor's end of the pipe is closed: run leaves its loop.
end_of_input ==
  /\ Take("eof")
  /\ should_exit' = TRUE
  /\ UNCHANGED <<editor, outbox, docs, workspace, sources, nodes, is_shutdown,
                 exit_code, history>>

process_message ==
  \/ handle_initialize \/ handle_shutdown \/ handle_exit \/ end_of_input
  \/ handle_did_open \/ handle_did_change \/ handle_did_save \/ handle_did_close
  \/ handle_query

(***************************************************************************)
(* The editor                                                              *)
(***************************************************************************)
Send(message) ==
  /\ Len(inbox) < MaxQueue
  /\ inbox' = Append(inbox, message)
  /\ UNCHANGED <<server, outbox, shown>>

Edit(message) ==
  /\ phase = "up"
  /\ edits + Len(answered) < MaxSent
  /\ edits' = edits + 1
  /\ Send(message)
  /\ UNCHANGED <<phase, answered>>

OpenFile(f) ==
  /\ buffers[f] = NoText
  /\ buffers' = [buffers EXCEPT ![f] = disk[f]]
  /\ focus' = f
  /\ Edit([kind |-> "didOpen", file |-> f, text |-> disk[f]])
  /\ UNCHANGED disk

ChangeFile(f) ==
  /\ buffers[f] # NoText
  /\ focus' = f
  /\ \E t \in Texts \ {buffers[f]} :
       /\ buffers' = [buffers EXCEPT ![f] = t]
       /\ Edit([kind |-> "didChange", file |-> f, text |-> t])
  /\ UNCHANGED disk

SaveFile(f) ==
  /\ buffers[f] \notin {NoText, disk[f]}
  /\ disk' = [disk EXCEPT ![f] = buffers[f]]
  /\ focus' = f
  /\ Edit([kind |-> "didSave", file |-> f])
  /\ UNCHANGED buffers

CloseFile(f) ==
  /\ buffers[f] # NoText
  /\ buffers' = [buffers EXCEPT ![f] = NoText]
  /\ focus' = Nothing
  /\ Edit([kind |-> "didClose", file |-> f])
  /\ UNCHANGED disk

\* A request carries the text its writer saw.
Ask(kind, f, n) ==
  /\ Len(answered) < MaxRequests
  /\ edits + Len(answered) < MaxSent
  /\ answered' = Append(answered, 0)
  /\ Send([kind |-> kind, id |-> Len(answered'), file |-> f, name |-> n,
           text |-> IF f = Nothing THEN NoText ELSE buffers[f]])
  /\ UNCHANGED <<buffers, disk, focus, edits>>

Initialize ==
  /\ phase = "up" /\ answered = <<>>
  /\ Ask("initialize", Nothing, Nothing)
  /\ UNCHANGED phase

Query ==
  /\ phase = "up"
  /\ \E f \in Open(buffers) :
       \/ \E kind \in {"documentSymbol", "completion", "unknown"} : Ask(kind, f, Nothing)
       \/ \E kind \in {"definition", "typeDefinition"},
             n \in buffers[f].uses \cup {Keyword} : Ask(kind, f, n)
  /\ UNCHANGED phase

Shutdown ==
  /\ phase = "up"
  /\ phase' = "leaving"
  /\ Ask("shutdown", Nothing, Nothing)

Leave ==
  /\ phase # "gone"
  /\ phase' = "gone"
  /\ \E kind \in {"exit", "eof"} : Send([kind |-> kind])
  /\ UNCHANGED <<buffers, disk, focus, edits, answered>>

\* The editor reads what the server wrote.
Receive ==
  /\ outbox # <<>>
  /\ outbox' = Tail(outbox)
  /\ IF Head(outbox).kind = "response"
     THEN /\ answered' = [answered EXCEPT ![Head(outbox).id] = @ + 1]
          /\ UNCHANGED shown
     ELSE /\ shown' = [f \in Files |-> IF f \in DOMAIN Head(outbox).shown
                                       THEN Head(outbox).shown[f] ELSE shown[f]]
          /\ UNCHANGED answered
  /\ UNCHANGED <<buffers, disk, focus, phase, edits, inbox, server>>

Editor ==
  \/ \E f \in Files : OpenFile(f) \/ ChangeFile(f) \/ SaveFile(f) \/ CloseFile(f)
  \/ Initialize \/ Query \/ Shutdown \/ Leave

Init ==
  /\ buffers = [f \in Files |-> NoText] /\ disk \in Disks
  /\ shown = [f \in Files |-> {}] /\ focus = Nothing /\ phase = "up"
  /\ edits = 0 /\ answered = <<>>
  /\ inbox = <<>> /\ outbox = <<>>
  /\ docs = [f \in Files |-> NoText] /\ workspace = FALSE
  /\ sources = [f \in {} |-> NoText]
  /\ nodes = [f \in Files |-> [parsed |-> {}, kept |-> {}]]
  /\ is_shutdown = FALSE /\ should_exit = FALSE /\ exit_code = 0
  /\ history = [f \in Files |-> [good |-> {}, ever |-> {}]]

Next == process_message \/ Receive \/ Editor

\* The server's loop runs whenever a message waits, and the editor reads what
\* is sent to it; nothing makes the editor's user act.
Spec == Init /\ [][Next]_vars /\ WF_vars(process_message) /\ WF_vars(Receive)

(***************************************************************************)
(* Properties                                                              *)
(***************************************************************************)
Problems == {<<"lexer">>, <<"parser">>} \cup ({"undeclared", "duplicate"} \X Names)

\* What the server keeps of a file is made of declarations of its last text
\* and of others, and of nothing the file never declared.
TypeOK ==
  /\ buffers \in [Files -> Texts \cup {NoText}]
  /\ docs \in [Files -> Texts \cup {NoText}]
  /\ disk \in [Files -> Texts]
  /\ shown \in [Files -> SUBSET Problems]
  /\ focus \in Files \cup {Nothing}
  /\ phase \in {"up", "leaving", "gone"}
  /\ edits \in 0..MaxSent
  /\ answered \in Seq(Nat) /\ Len(answered) <= MaxRequests
  /\ Len(inbox) <= MaxQueue
  /\ DOMAIN sources \subseteq Files /\ Range(sources) \subseteq Texts
  /\ workspace \in BOOLEAN /\ is_shutdown \in BOOLEAN /\ should_exit \in BOOLEAN
  /\ exit_code \in {0, 1}
  /\ \A f \in Files :
       /\ nodes[f].parsed \cap nodes[f].kept = {}
       /\ Known(f) \subseteq history[f].ever
       /\ nodes[f].parsed # {} => nodes[f].kept \subseteq Classes

\* Once nothing is under way, every open file was last analysed as the editor
\* shows it, whatever the order in which files were opened, changed, saved and
\* closed; the file in which the user works is marked with exactly the
\* problems of that analysis, and every other open file with at least its
\* own.  (That a file repaired by a change elsewhere keeps its marks is the
\* code's behaviour: it publishes for files that have reports.)
DiagnosticsShown ==
  inbox = <<>> /\ outbox = <<>> /\ Open(buffers) # {} =>
    /\ \A f \in Open(buffers) : f \in DOMAIN sources /\ sources[f] = buffers[f]
    /\ \E report \in Reports(sources) : \A f \in Open(buffers) :
         /\ report[f] \subseteq shown[f]
         /\ f = focus => shown[f] = report[f]

\* Every request is answered, and never twice, whatever is asked and whatever
\* was edited before it.
RequestsAnswered ==
  \A r \in 1..MaxRequests :
    /\ [](Len(answered) >= r => answered[r] <= 1)
    /\ Len(answered) >= r ~> Len(answered) >= r /\ answered[r] = 1

\* The declarations of a name that a file once had are still there.
Undisturbed(n) == \A f \in Files :
  n \in history[f].ever => f \in DOMAIN sources /\ n \in sources[f].declares

\* What the answer to a request must be, from the texts of the files.
Complete(q, answer) ==
  /\ q.kind = "documentSymbol" =>
       /\ history[q.file].good \subseteq answer
       /\ Readable(sources) => q.text.declares \subseteq answer
  /\ q.kind = "completion" =>
       \A f \in Files : history[f].good \subseteq answer
  /\ q.kind \in {"definition", "typeDefinition"} /\ q.name \in Names =>
       LET declaring == {f \in DOMAIN sources : q.name \in sources[f].declares}
       IN  Readable(sources) /\ declaring # {} /\ Undisturbed(q.name) =>
             answer \in declaring

Answering ==
  /\ inbox # <<>> /\ inbox' = Tail(inbox)
  /\ outbox' # outbox /\ Last(outbox').kind = "response"

\* An answer is complete for the text the user saw when asking: classes are
\* offered though the text is broken at the moment, or another file cannot be
\* read, as they were in its last good version; and the definition of a name
\* that has not been moved is in a file that declares it.
AnswersComplete == [][Answering => Complete(Head(inbox), Last(outbox').result)]_vars
====
