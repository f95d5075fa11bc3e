------------------------ MODULE LanguageServerProofs ------------------------
(***************************************************************************)
(* Proofs about LanguageServer, for every workspace, every text and any    *)
(* number of messages.                                                     *)
(***************************************************************************)
EXTENDS LanguageServer, SequenceTheorems, TLAPS

-----------------------------------------------------------------------------
(* What is in the pipe. *)

Queries == {"documentSymbol", "completion", "definition", "typeDefinition", "unknown"}

Documents == [kind : {"didOpen", "didChange"}, file : Files, text : Texts]
Touches == [kind : {"didSave", "didClose"}, file : Files]
Questions == [kind : Queries, id : Nat, file : Files, name : Names \cup {Keyword, Nothing},
              text : Texts]
Formalities == [kind : {"initialize", "shutdown"}, id : Nat, file : {Nothing},
                name : {Nothing}, text : {NoText}]
Ends == [kind : {"exit", "eof"}]
Messages == Documents \cup Touches \cup Questions \cup Formalities \cup Ends

Results == Files \cup {Nothing} \cup SUBSET Names
Marks == UNION {[D -> SUBSET Problems] : D \in SUBSET Files}
Outputs == [kind : {"response"}, id : Nat, result : Results]
           \cup [kind : {"publishDiagnostics"}, shown : Marks]

(* The variables have their types, what is kept of a file is disjoint from
   what is there, and made of names the file has declared. *)
Types ==
  /\ buffers \in [Files -> Texts \cup {NoText}]
  /\ docs \in [Files -> Texts \cup {NoText}]
  /\ disk \in [Files -> Texts]
  /\ shown \in [Files -> SUBSET Problems]
  /\ focus \in Files \cup {Nothing}
  /\ phase \in {"up", "leaving", "gone"}
  /\ edits \in 0..MaxSent
  /\ answered \in Seq(Nat) /\ Len(answered) <= MaxRequests
  /\ inbox \in Seq(Messages) /\ Len(inbox) <= MaxQueue
  /\ outbox \in Seq(Outputs)
  /\ DOMAIN sources \subseteq Files /\ \A f \in DOMAIN sources : sources[f] \in Texts
  /\ workspace \in BOOLEAN /\ is_shutdown \in BOOLEAN /\ should_exit \in BOOLEAN
  /\ exit_code \in {0, 1}
  /\ nodes \in [Files -> [parsed : SUBSET Names, kept : SUBSET Names]]
  /\ history \in [Files -> [good : SUBSET Names, ever : SUBSET Names]]

(* The trees of a file are those of the sources last analysed, which are those
   of its document; what is known of it is made of names it declared once, and
   contains the classes of its last good text. *)
Analysed(f) ==
  /\ docs[f] # NoText => f \in DOMAIN sources /\ sources[f] = docs[f]
  /\ nodes[f].parsed = Parsed(sources, f)
Remembered(f) ==
  /\ nodes[f].parsed \cap nodes[f].kept = {}
  /\ nodes[f].parsed # {} => nodes[f].kept \subseteq Classes
  /\ Known(f) \subseteq history[f].ever
  /\ history[f].good \subseteq Known(f) \cap Classes

(* The text that documents d have for f when the messages before the i-th of s
   are handled. *)
Edits(m, f) == m.kind \in {"didOpen", "didChange", "didClose"} /\ m.file = f
Left(m) == IF m.kind = "didClose" THEN NoText ELSE m.text
TextAt(s, d, i, f, t) ==
  \/ /\ d[f] = t
     /\ \A k \in 1..(i - 1) : ~Edits(s[k], f)
  \/ \E j \in 1..(i - 1) :
       /\ Edits(s[j], f) /\ Left(s[j]) = t
       /\ \A k \in (j + 1)..(i - 1) : ~Edits(s[k], f)

(* The server follows the editor: after the messages that wait it has the
   texts the editor has, and it comes to a question with the text its writer
   saw. *)
EditorsText(f) == TextAt(inbox, docs, Len(inbox) + 1, f, buffers[f])
WritersText(i) ==
  inbox[i].kind \in Queries => TextAt(inbox, docs, i, inbox[i].file, inbox[i].text)
Follows ==
  /\ \A f \in Files : EditorsText(f)
  /\ \A i \in 1..Len(inbox) : WritersText(i)

IInv ==
  /\ Types
  /\ \A f \in Files : Analysed(f) /\ Remembered(f)
  /\ Follows

-----------------------------------------------------------------------------
(* Messages that are sent and taken. *)

LEMMA TailFacts ==
  ASSUME NEW S, NEW s \in Seq(S), s # <<>>
  PROVE  /\ Head(s) \in S /\ Head(s) = s[1]
         /\ Tail(s) \in Seq(S)
         /\ Len(s) \in Nat \ {0} /\ Len(Tail(s)) = Len(s) - 1
         /\ \A i \in 1..(Len(s) - 1) : Tail(s)[i] = s[i + 1]
BY HeadTailProperties, EmptySeq

LEMMA AppendFacts ==
  ASSUME NEW S, NEW s \in Seq(S), NEW m \in S
  PROVE  /\ Append(s, m) \in Seq(S)
         /\ Len(s) \in Nat /\ Len(Append(s, m)) = Len(s) + 1
         /\ \A i \in 1..Len(s) : Append(s, m)[i] = s[i]
         /\ Append(s, m)[Len(s) + 1] = m
         /\ Last(Append(s, m)) = m
BY AppendProperties, LenProperties DEF Last

(* The first message is handled: the others are one place further on. *)
LEMMA TextTaken ==
  ASSUME NEW S, NEW s \in Seq(S), s # <<>>, NEW d, NEW e, NEW f, NEW t,
         e[f] = IF Edits(Head(s), f) THEN Left(Head(s)) ELSE d[f],
         NEW i \in 1..Len(s), TextAt(s, d, i + 1, f, t)
  PROVE  TextAt(Tail(s), e, i, f, t)
<1> DEFINE n == Len(s)
           r == Tail(s)
<1>1. n \in Nat /\ i \in 1..n /\ Head(s) = s[1] /\ \A k \in 1..(n - 1) : r[k] = s[k + 1]
  BY TailFacts
<1>2. \A k \in 1..(i - 1) : k \in 1..(n - 1) /\ k + 1 \in 1..((i + 1) - 1)
  BY <1>1
<1>3. \A k \in 1..(i - 1) : r[k] = s[k + 1]
  BY <1>1, <1>2
<1> HIDE DEF n, r
<1>4. CASE d[f] = t /\ \A k \in 1..((i + 1) - 1) : ~Edits(s[k], f)
  <2>1. 1 \in 1..((i + 1) - 1)
    BY <1>1
  <2>2. e[f] = t
    BY <1>1, <1>4, <2>1
  <2>3. \A k \in 1..(i - 1) : ~Edits(r[k], f)
    BY <1>2, <1>3, <1>4
  <2> QED
    BY <2>2, <2>3 DEF TextAt, r
<1>5. ASSUME NEW j \in 1..((i + 1) - 1), Edits(s[j], f), Left(s[j]) = t,
             \A k \in (j + 1)..((i + 1) - 1) : ~Edits(s[k], f)
      PROVE  TextAt(r, e, i, f, t)
  <2>1. \A k \in j..(i - 1) : k \in 1..(i - 1) /\ k + 1 \in (j + 1)..((i + 1) - 1)
    BY <1>1, <1>5
  <2>2. \A k \in j..(i - 1) : ~Edits(r[k], f)
    BY <1>3, <1>5, <2>1
  <2>3. CASE j = 1
    BY <1>1, <1>5, <2>2, <2>3 DEF TextAt
  <2>4. CASE j # 1
    <3>1. j - 1 \in 1..(i - 1) /\ (j - 1) + 1 = j
      BY <1>1, <1>5, <2>4
    <3>2. r[j - 1] = s[j]
      BY <1>3, <3>1
    <3>3. \A k \in ((j - 1) + 1)..(i - 1) : ~Edits(r[k], f)
      BY <2>2, <3>1
    <3> QED
      BY <1>5, <3>1, <3>2, <3>3 DEF TextAt
  <2> QED
    BY <2>3, <2>4
<1> QED
  BY <1>4, <1>5 DEF TextAt, r

(* A message is sent: it changes nothing for those before it. *)
LEMMA TextBefore ==
  ASSUME NEW S, NEW s \in Seq(S), NEW m \in S, NEW d, NEW f, NEW t,
         NEW i \in 1..(Len(s) + 1), TextAt(s, d, i, f, t)
  PROVE  TextAt(Append(s, m), d, i, f, t)
<1>1. Len(s) \in Nat /\ \A k \in 1..Len(s) : Append(s, m)[k] = s[k]
  BY AppendFacts
<1>2. \A k \in 1..(i - 1) : k \in 1..Len(s)
  BY <1>1
<1>3. \A j \in 1..(i - 1) : \A k \in (j + 1)..(i - 1) : k \in 1..(i - 1)
  BY <1>1
<1>4. \A k \in 1..(i - 1) : Append(s, m)[k] = s[k]
  BY <1>1, <1>2
<1> QED
  BY <1>3, <1>4 DEF TextAt

(* What it leaves itself. *)
LEMMA TextSent ==
  ASSUME NEW S, NEW s \in Seq(S), NEW m \in S, NEW d, NEW f, NEW t,
         IF Edits(m, f) THEN t = Left(m) ELSE TextAt(s, d, Len(s) + 1, f, t)
  PROVE  TextAt(Append(s, m), d, Len(Append(s, m)) + 1, f, t)
<1> DEFINE n == Len(s)
           r == Append(s, m)
<1>1. n \in Nat /\ Len(r) = n + 1 /\ r[n + 1] = m
  BY AppendFacts
<1> HIDE DEF n, r
<1>2. \A k \in 1..(((n + 1) + 1) - 1) : k \in 1..((n + 1) - 1) \/ k = n + 1
  BY <1>1
<1>3. n + 1 \in 1..(((n + 1) + 1) - 1) /\ ((n + 1) + 1)..(((n + 1) + 1) - 1) = {}
  BY <1>1
<1>4. CASE Edits(m, f)
  BY <1>1, <1>3, <1>4 DEF TextAt, r
<1>5. CASE ~Edits(m, f)
  <2>1. TextAt(r, d, n + 1, f, t)
    <3>1. n + 1 \in 1..(Len(s) + 1)
      BY <1>1 DEF n
    <3> QED
      BY <1>5, <3>1, TextBefore DEF n, r
  <2>2. CASE d[f] = t /\ \A k \in 1..((n + 1) - 1) : ~Edits(r[k], f)
    BY <1>1, <1>2, <1>5, <2>2 DEF TextAt, r
  <2>3. ASSUME NEW j \in 1..((n + 1) - 1), Edits(r[j], f), Left(r[j]) = t,
               \A k \in (j + 1)..((n + 1) - 1) : ~Edits(r[k], f)
        PROVE  TextAt(r, d, (n + 1) + 1, f, t)
    <3>1. j \in 1..(((n + 1) + 1) - 1)
      BY <1>1, <2>3
    <3>2. \A k \in (j + 1)..(((n + 1) + 1) - 1) : k \in (j + 1)..((n + 1) - 1) \/ k = n + 1
      BY <1>1, <2>3
    <3> QED
      BY <1>1, <1>5, <2>3, <3>1, <3>2 DEF TextAt
  <2> QED
    BY <1>1, <2>1, <2>2, <2>3 DEF TextAt, r
<1> QED
  BY <1>4, <1>5 DEF r

(* The server takes a message, and its documents change as the message says:
   it goes on following the editor. *)
LEMMA TakenFollows ==
  ASSUME Types, Follows, inbox # <<>>, inbox' = Tail(inbox), buffers' = buffers,
         \A f \in Files :
           docs'[f] = IF Edits(Head(inbox), f) THEN Left(Head(inbox)) ELSE docs[f]
  PROVE  Follows' /\ inbox' \in Seq(Messages) /\ Len(inbox') <= MaxQueue
<1> DEFINE n == Len(inbox)
           r == Tail(inbox)
<1>1. inbox \in Seq(Messages) /\ n <= MaxQueue
  BY DEF Types
<1>2. /\ r \in Seq(Messages) /\ n \in Nat \ {0} /\ Len(r) = n - 1
      /\ \A i \in 1..(n - 1) : r[i] = inbox[i + 1]
  BY <1>1, TailFacts
<1>3. \A f \in Files, i \in 1..n : \A t : TextAt(inbox, docs, i + 1, f, t) => TextAt(r, docs', i, f, t)
  BY <1>1, TextTaken
<1> HIDE DEF n, r
<1>4. ASSUME NEW f \in Files
      PROVE  TextAt(r, docs', Len(r) + 1, f, buffers[f])
  <2>1. TextAt(inbox, docs, n + 1, f, buffers[f])
    BY DEF Follows, EditorsText, n
  <2>2. Len(r) + 1 = n /\ n \in 1..n
    BY <1>2
  <2> QED
    BY <1>3, <2>1, <2>2
<1>5. ASSUME NEW i \in 1..Len(r), r[i].kind \in Queries
      PROVE  TextAt(r, docs', i, r[i].file, r[i].text)
  <2>1. i \in 1..n /\ i + 1 \in 1..n /\ r[i] = inbox[i + 1]
    BY <1>2
  <2>2. TextAt(inbox, docs, i + 1, r[i].file, r[i].text)
    BY <1>5, <2>1 DEF Follows, WritersText, n
  <2>3. r[i] \in Messages
    BY <1>2, ElementOfSeq
  <2>4. r[i].file \in Files
    BY <1>5, <2>3 DEF Messages, Documents, Touches, Questions, Formalities, Ends, Queries
  <2> QED
    BY <1>3, <2>1, <2>2, <2>4
<1>6. inbox' = r
  BY DEF r
<1>7. Follows'
  BY <1>4, <1>5, <1>6 DEF Follows, EditorsText, WritersText
<1>8. n \in Nat /\ MaxQueue \in Nat /\ n - 1 <= MaxQueue
  BY <1>1, <1>2, BoundsAssumption DEF n
<1> QED
  BY <1>2, <1>6, <1>7, <1>8

(* The editor sends a message that says what it does to its buffers. *)
LEMMA SentFollows ==
  ASSUME Types, Follows, NEW m \in Messages, Send(m), 
         \A f \in Files : buffers'[f] = IF Edits(m, f) THEN Left(m) ELSE buffers[f],
         m.kind \in Queries => m.file \in Files /\ m.text = buffers[m.file]
  PROVE  Follows' /\ inbox' \in Seq(Messages) /\ Len(inbox') <= MaxQueue
<1> DEFINE n == Len(inbox)
           r == Append(inbox, m)
<1>1. inbox \in Seq(Messages) /\ n < MaxQueue /\ inbox' = r /\ docs' = docs
  BY DEF Types, Send, server
<1>2. /\ r \in Seq(Messages) /\ n \in Nat /\ Len(r) = n + 1
      /\ \A i \in 1..n : r[i] = inbox[i]
      /\ r[n + 1] = m
  BY <1>1, AppendFacts
<1>3. \A i \in 1..(n + 1) : \A f, t : TextAt(inbox, docs, i, f, t) => TextAt(r, docs, i, f, t)
  BY <1>1, TextBefore
<1>4. ASSUME NEW f \in Files
      PROVE  TextAt(r, docs, Len(r) + 1, f, buffers'[f])
  <2>1. TextAt(inbox, docs, n + 1, f, buffers[f])
    BY DEF Follows, EditorsText
  <2>2. IF Edits(m, f) THEN buffers'[f] = Left(m) ELSE TextAt(inbox, docs, n + 1, f, buffers'[f])
    BY <2>1
  <2> QED
    BY <1>1, <2>2, TextSent
<1> HIDE DEF n, r
<1>5. ASSUME NEW i \in 1..Len(r), r[i].kind \in Queries
      PROVE  TextAt(r, docs, i, r[i].file, r[i].text)
  <2>1. i \in 1..(n + 1) /\ (i \in 1..n \/ i = n + 1)
    BY <1>2
  <2>2. CASE i \in 1..n
    BY <1>2, <1>3, <1>5, <2>1, <2>2 DEF Follows, WritersText, n
  <2>3. CASE i = n + 1
    <3>1. TextAt(inbox, docs, n + 1, m.file, m.text)
      BY <1>2, <1>5, <2>3 DEF Follows, EditorsText, n
    <3> QED
      BY <1>2, <1>3, <2>1, <2>3, <3>1
  <2> QED
    BY <2>1, <2>2, <2>3
<1>6. Follows'
  BY <1>1, <1>4, <1>5 DEF Follows, EditorsText, WritersText
<1>7. n + 1 <= MaxQueue
  BY <1>1, <1>2, BoundsAssumption
<1> QED
  BY <1>1, <1>2, <1>6, <1>7

-----------------------------------------------------------------------------
(* What an analysis leaves. *)

Gathered(src, open) ==
  /\ DOMAIN src \subseteq Files
  /\ \A f \in DOMAIN src : src[f] \in Texts
  /\ \A f \in Files : open[f] # NoText => f \in DOMAIN src /\ src[f] = open[f]

LEMMA SourcesGathered ==
  ASSUME Types, NEW target \in Files, NEW open \in [Files -> Texts \cup {NoText}]
  PROVE  Gathered(Sources(target, open), open) /\ target \in DOMAIN Sources(target, open)
BY TextsAssumption DEF Types, Gathered, Sources, Open

LEMMA TextFacts ==
  ASSUME NEW t \in Texts
  PROVE  /\ t.reads \in BOOLEAN /\ t.parses \in BOOLEAN
         /\ t.declares \subseteq Names /\ t.uses \subseteq Names
BY TextsAssumption

LEMMA ReportType ==
  ASSUME NEW src, NEW open, Gathered(src, open), NEW report \in Reports(src)
  PROVE  report \in [DOMAIN src -> SUBSET Problems]
<1>1. {<<"lexer">>} \subseteq Problems /\ {<<"parser">>} \subseteq Problems
  BY DEF Problems
<1>2. ASSUME NEW order, NEW f \in DOMAIN src
      PROVE  BinderErrors(src, order, f) \subseteq Problems
  <2>1. src[f].uses \subseteq Names /\ src[f].declares \subseteq Names
    BY TextFacts DEF Gathered
  <2>2. \A n \in Names : <<"undeclared", n>> \in Problems /\ <<"duplicate", n>> \in Problems
    BY DEF Problems
  <2> QED
    BY <2>1, <2>2 DEF BinderErrors
<1> QED
  BY <1>1, <1>2 DEF Reports

LEMMA PublishedType ==
  ASSUME NEW src, NEW open, Gathered(src, open), NEW target \in DOMAIN src,
         NEW report \in Reports(src)
  PROVE  Published(target, report) \in Marks
<1>1. report \in [DOMAIN src -> SUBSET Problems] /\ DOMAIN report = DOMAIN src
  BY ReportType
<1> DEFINE D == {target} \cup {g \in DOMAIN report : report[g] # {}}
<1>2. D \subseteq DOMAIN src /\ D \in SUBSET Files
  BY <1>1 DEF Gathered
<1>3. Published(target, report) \in [D -> SUBSET Problems]
  BY <1>1, <1>2 DEF Published
<1> QED
  BY <1>2, <1>3 DEF Marks
LEMMA ParsedType ==
  ASSUME NEW src, NEW open, Gathered(src, open), NEW f
  PROVE  Parsed(src, f) \subseteq Names
<1>1. f \in DOMAIN src => src[f].declares \subseteq Names
  BY TextFacts DEF Gathered
<1> QED
  BY <1>1 DEF Parsed

(* What is kept beside the names that are there now. *)
LEMMA PreservedFacts ==
  ASSUME Types, NEW f \in Files, NEW now \in SUBSET Names
  PROVE  /\ Preserved(f, now) \subseteq Names
         /\ Preserved(f, now) \subseteq Known(f)
         /\ now \cap Preserved(f, now) = {}
         /\ now # {} => Preserved(f, now) \subseteq Classes
         /\ Known(f) \cap Classes \subseteq now \cup Preserved(f, now)
<1>1. nodes[f].parsed \subseteq Names /\ nodes[f].kept \subseteq Names
  BY DEF Types
<1> QED
  BY <1>1 DEF Preserved, Known

LEMMA AnalysisFacts ==
  ASSUME Types, \A f \in Files : Remembered(f),
         NEW target \in Files, NEW open \in [Files -> Texts \cup {NoText}],
         docs' = open, Analyze(target, open)
  PROVE  /\ outbox' \in Seq(Outputs)
         /\ outbox # outbox' /\ Last(outbox').kind = "publishDiagnostics"
         /\ DOMAIN sources' \subseteq Files /\ \A f \in DOMAIN sources' : sources'[f] \in Texts
         /\ nodes' \in [Files -> [parsed : SUBSET Names, kept : SUBSET Names]]
         /\ history' \in [Files -> [good : SUBSET Names, ever : SUBSET Names]]
         /\ \A f \in Files : Analysed(f)' /\ Remembered(f)'
<1> DEFINE src == Sources(target, open)
           now(f) == Parsed(src, f)
<1>1. Gathered(src, open) /\ target \in DOMAIN src
  BY SourcesGathered
<1>2. /\ sources' = src
      /\ nodes' = [f \in Files |-> [parsed |-> now(f), kept |-> Preserved(f, now(f))]]
      /\ history' = [f \in Files |->
           [good |-> IF f \in DOMAIN src /\ Readable(src) /\ src[f].parses
                     THEN src[f].declares \cap Classes ELSE history[f].good,
            ever |-> history[f].ever \cup now(f)]]
  BY DEF Analyze
<1>3. PICK report \in Reports(src) :
        outbox' = Append(outbox, [kind |-> "publishDiagnostics", shown |-> Published(target, report)])
  BY DEF Analyze
<1>4. outbox' \in Seq(Outputs) /\ outbox # outbox' /\ Last(outbox').kind = "publishDiagnostics"
  <2> DEFINE m == [kind |-> "publishDiagnostics", shown |-> Published(target, report)]
  <2>1. Published(target, report) \in Marks
    BY <1>1, PublishedType
  <2>2. m \in Outputs /\ m.kind = "publishDiagnostics"
    BY <2>1 DEF Outputs
  <2> HIDE DEF m
  <2>3. outbox \in Seq(Outputs) /\ outbox' = Append(outbox, m)
    BY <1>3 DEF Types, m
  <2>4. /\ Append(outbox, m) \in Seq(Outputs) /\ Last(Append(outbox, m)) = m
        /\ Len(outbox) \in Nat /\ Len(Append(outbox, m)) = Len(outbox) + 1
    BY <2>2, <2>3, AppendFacts
  <2>5. Len(outbox) # Len(outbox')
    BY <2>3, <2>4
  <2> QED
    BY <2>2, <2>3, <2>4, <2>5
<1>5. \A f \in Files : now(f) \in SUBSET Names
  BY <1>1, ParsedType
<1> HIDE DEF src
<1> HIDE DEF now
<1>6. \A f \in Files :
        /\ Preserved(f, now(f)) \subseteq Names
        /\ Preserved(f, now(f)) \subseteq Known(f)
        /\ now(f) \cap Preserved(f, now(f)) = {}
        /\ now(f) # {} => Preserved(f, now(f)) \subseteq Classes
        /\ Known(f) \cap Classes \subseteq now(f) \cup Preserved(f, now(f))
  BY <1>5, PreservedFacts
<1>7. nodes' \in [Files -> [parsed : SUBSET Names, kept : SUBSET Names]]
  BY <1>2, <1>5, <1>6
<1>8. \A f \in DOMAIN src : src[f].declares \subseteq Names
  BY <1>1, TextFacts DEF Gathered
<1>9. history' \in [Files -> [good : SUBSET Names, ever : SUBSET Names]]
  <2>1. \A f \in Files : history[f].good \subseteq Names /\ history[f].ever \subseteq Names
    BY DEF Types
  <2> QED
    BY <1>2, <1>5, <1>8, <2>1
<1>10. \A f \in Files : Analysed(f)'
  BY <1>1, <1>2 DEF Analysed, Gathered, now
<1>11. ASSUME NEW f \in Files
       PROVE  Remembered(f)'
  <2>1. nodes'[f].parsed = now(f) /\ nodes'[f].kept = Preserved(f, now(f))
    BY <1>2
  <2>2. Known(f)' = now(f) \cup Preserved(f, now(f))
    BY <2>1 DEF Known
  <2>3. Known(f) \subseteq history[f].ever /\ history[f].good \subseteq Known(f) \cap Classes
    BY DEF Remembered
  <2>4. history'[f].ever = history[f].ever \cup now(f)
    BY <1>2
  <2>5. history'[f].good \subseteq Known(f)' \cap Classes
    <3>1. CASE f \in DOMAIN src /\ Readable(src) /\ src[f].parses
      <4>1. history'[f].good = src[f].declares \cap Classes
        BY <1>2, <3>1
      <4>2. now(f) = src[f].declares
        BY <3>1 DEF now, Parsed
      <4> QED
        BY <2>2, <4>1, <4>2
    <3>2. CASE ~(f \in DOMAIN src /\ Readable(src) /\ src[f].parses)
      <4>1. history'[f].good = history[f].good
        BY <1>2, <3>2
      <4> QED
        BY <1>6, <2>2, <2>3, <4>1
    <3> QED
      BY <3>1, <3>2
  <2> QED
    BY <1>6, <2>1, <2>2, <2>3, <2>4, <2>5 DEF Remembered
<1>12. DOMAIN sources' \subseteq Files /\ \A f \in DOMAIN sources' : sources'[f] \in Texts
  BY <1>1, <1>2 DEF Gathered
<1> QED
  BY <1>4, <1>7, <1>9, <1>10, <1>11, <1>12
-----------------------------------------------------------------------------
(* What is answered. *)

LEMMA LocationType ==
  ASSUME Types, NEW n
  PROVE  TypeLocations(n) \subseteq Files \cup {Nothing}
<1>1. \A f \in Files : Location(f, n) \subseteq Files \cup {Nothing}
  BY DEF Location
<1> QED
  BY <1>1 DEF TypeLocations

LEMMA AnswersType ==
  ASSUME Types, NEW q \in Questions \cup Formalities
  PROVE  Answers(q) \subseteq Results
<1>1. \A n : TypeLocations(n) \subseteq Results
  BY LocationType DEF Results
<1>2. \A f \in Files : Known(f) \in Results
  BY DEF Types, Known, Results
<1>3. UNION {Known(f) : f \in Files} \in Results
  BY DEF Types, Known, Results
<1>4. Nothing \in Results /\ Files \subseteq Results
  BY DEF Results
<1>5. CASE q \in Formalities
  <2>1. q.kind \in {"initialize", "shutdown"}
    BY <1>5 DEF Formalities
  <2> QED
    BY <1>4, <2>1 DEF Answers
<1>6. CASE q \in Questions
  <2>1. q.kind \in Queries /\ q.file \in Files
    BY <1>6 DEF Questions
  <2>2. DefinitionAnswers(q) \subseteq Results
    BY <1>1, <1>4, <2>1 DEF DefinitionAnswers
  <2>3. q.kind = "documentSymbol" => Answers(q) = {Known(q.file)}
    BY DEF Answers
  <2>4. q.kind = "completion" => Answers(q) = {UNION {Known(f) : f \in Files}}
    BY DEF Answers
  <2>5. q.kind = "definition" => Answers(q) = DefinitionAnswers(q)
    BY DEF Answers
  <2>6. q.kind = "typeDefinition" => Answers(q) \in {TypeLocations(q.name), {Nothing}}
    BY DEF Answers
  <2>7. q.kind = "unknown" => Answers(q) = {Nothing}
    BY DEF Answers
  <2> QED
    BY <1>1, <1>2, <1>3, <1>4, <2>1, <2>2, <2>3, <2>4, <2>5, <2>6, <2>7 DEF Queries
<1> QED
  BY <1>5, <1>6

LEMMA RespondFacts ==
  ASSUME Types, NEW q \in Questions \cup Formalities, Respond(q)
  PROVE  /\ outbox' \in Seq(Outputs)
         /\ \E a \in Answers(q) : Last(outbox').result = a
<1>1. PICK a \in Answers(q) :
        outbox' = Append(outbox, [kind |-> "response", id |-> q.id, result |-> a])
  BY DEF Respond
<1> DEFINE m == [kind |-> "response", id |-> q.id, result |-> a]
<1>2. q.id \in Nat
  BY DEF Questions, Formalities
<1>3. m \in Outputs /\ m.result = a
  <2>1. a \in Results
    BY AnswersType
  <2> QED
    BY <1>2, <2>1 DEF Outputs
<1> HIDE DEF m
<1>4. outbox \in Seq(Outputs) /\ outbox' = Append(outbox, m)
  BY <1>1 DEF Types, m
<1>5. Append(outbox, m) \in Seq(Outputs) /\ Last(Append(outbox, m)) = m
  BY <1>3, <1>4, AppendFacts
<1> QED
  BY <1>1, <1>3, <1>4, <1>5

(* A message that was taken is one of its kind. *)
LEMMA HeadFacts ==
  ASSUME Types, inbox # <<>>
  PROVE  /\ Head(inbox) \in Messages
         /\ Head(inbox).kind \in {"didOpen", "didChange"} => Head(inbox) \in Documents
         /\ Head(inbox).kind \in {"didSave", "didClose"} => Head(inbox) \in Touches
         /\ Head(inbox).kind \in Queries => Head(inbox) \in Questions
         /\ Head(inbox).kind \in {"initialize", "shutdown"} => Head(inbox) \in Formalities
<1>1. Head(inbox) \in Messages
  BY TailFacts DEF Types
<1> QED
  BY <1>1 DEF Messages, Documents, Touches, Questions, Formalities, Ends, Queries

-----------------------------------------------------------------------------
(* The invariant. *)

LEMMA InitIInv == Init => IInv
<1> SUFFICES ASSUME Init PROVE IInv
  OBVIOUS
<1>1. disk \in [Files -> Texts]
  BY TextsAssumption DEF Init
<1>2. <<>> \in Seq(Messages) /\ <<>> \in Seq(Outputs) /\ <<>> \in Seq(Nat) /\ Len(<<>>) = 0
  BY EmptySeq
<1>3. Types
  <2>1. /\ buffers \in [Files -> Texts \cup {NoText}] /\ docs \in [Files -> Texts \cup {NoText}]
        /\ shown \in [Files -> SUBSET Problems] /\ focus \in Files \cup {Nothing}
    BY DEF Init
  <2>2. edits \in 0..MaxSent /\ Len(answered) <= MaxRequests /\ Len(inbox) <= MaxQueue
    BY <1>2, BoundsAssumption DEF Init
  <2>3. /\ answered \in Seq(Nat) /\ inbox \in Seq(Messages) /\ outbox \in Seq(Outputs)
    BY <1>2 DEF Init
  <2>4. DOMAIN sources = {}
    BY DEF Init
  <2>5. /\ nodes \in [Files -> [parsed : SUBSET Names, kept : SUBSET Names]]
        /\ history \in [Files -> [good : SUBSET Names, ever : SUBSET Names]]
    BY DEF Init
  <2>6. /\ phase \in {"up", "leaving", "gone"} /\ workspace \in BOOLEAN
        /\ is_shutdown \in BOOLEAN /\ should_exit \in BOOLEAN /\ exit_code \in {0, 1}
    BY DEF Init
  <2> QED
    BY <1>1, <2>1, <2>2, <2>3, <2>4, <2>5, <2>6 DEF Types
<1>4. ASSUME NEW f \in Files PROVE Analysed(f) /\ Remembered(f)
  BY DEF Init, Analysed, Remembered, Known, Parsed
<1>5. ASSUME NEW f \in Files PROVE EditorsText(f)
  <2>1. docs[f] = buffers[f] /\ inbox = <<>>
    BY DEF Init
  <2>2. 1..(0 + 1 - 1) = {}
    OBVIOUS
  <2> QED
    BY <1>2, <2>1, <2>2 DEF EditorsText, TextAt
<1>6. \A i \in 1..Len(inbox) : FALSE
  BY <1>2 DEF Init
<1> QED
  BY <1>3, <1>4, <1>5, <1>6 DEF IInv, Follows

(* The server handles a message. *)
LEMMA DocumentStep ==
  ASSUME IInv, handle_did_open \/ handle_did_change
  PROVE  IInv' /\ Last(outbox').kind = "publishDiagnostics"
<1> DEFINE m == Head(inbox)
<1>1. inbox # <<>> /\ inbox' = Tail(inbox) /\ m.kind \in {"didOpen", "didChange"}
  BY DEF handle_did_open, handle_did_change, Take
<1>2. m.file \in Files /\ m.text \in Texts
  BY <1>1, HeadFacts DEF IInv, Documents
<1>3. /\ docs' = [docs EXCEPT ![m.file] = m.text]
      /\ Analyze(m.file, docs')
      /\ UNCHANGED <<editor, workspace, is_shutdown, should_exit, exit_code>>
  BY DEF handle_did_open, handle_did_change
<1>4. docs' \in [Files -> Texts \cup {NoText}]
  BY <1>2, <1>3 DEF IInv, Types
<1>5. \A f \in Files : docs'[f] = IF Edits(m, f) THEN Left(m) ELSE docs[f]
  BY <1>1, <1>2, <1>3 DEF IInv, Types, Edits, Left
<1> HIDE DEF m
<1>6. Follows' /\ inbox' \in Seq(Messages) /\ Len(inbox') <= MaxQueue
  BY <1>1, <1>3, <1>5, TakenFollows DEF IInv, editor, m
<1>7. /\ outbox' \in Seq(Outputs)
      /\ Last(outbox').kind = "publishDiagnostics"
      /\ DOMAIN sources' \subseteq Files /\ \A f \in DOMAIN sources' : sources'[f] \in Texts
      /\ nodes' \in [Files -> [parsed : SUBSET Names, kept : SUBSET Names]]
      /\ history' \in [Files -> [good : SUBSET Names, ever : SUBSET Names]]
      /\ \A f \in Files : Analysed(f)' /\ Remembered(f)'
  BY <1>2, <1>3, <1>4, AnalysisFacts DEF IInv
<1>8. Types'
  BY <1>3, <1>4, <1>6, <1>7 DEF IInv, Types, editor
<1> QED
  BY <1>6, <1>7, <1>8 DEF IInv

LEMMA SaveStep ==
  ASSUME IInv, handle_did_save
  PROVE  IInv' /\ Last(outbox').kind = "publishDiagnostics"
<1> DEFINE m == Head(inbox)
<1>1. inbox # <<>> /\ inbox' = Tail(inbox) /\ m.kind = "didSave"
  BY DEF handle_did_save, Take
<1>2. m.file \in Files
  BY <1>1, HeadFacts DEF IInv, Touches
<1>3. /\ Analyze(m.file, docs)
      /\ UNCHANGED <<editor, docs, workspace, is_shutdown, should_exit, exit_code>>
  BY DEF handle_did_save
<1>4. docs \in [Files -> Texts \cup {NoText}]
  BY DEF IInv, Types
<1>5. \A f \in Files : docs'[f] = IF Edits(m, f) THEN Left(m) ELSE docs[f]
  BY <1>1, <1>3 DEF Edits
<1> HIDE DEF m
<1>6. Follows' /\ inbox' \in Seq(Messages) /\ Len(inbox') <= MaxQueue
  BY <1>1, <1>3, <1>5, TakenFollows DEF IInv, editor, m
<1>7. /\ outbox' \in Seq(Outputs)
      /\ Last(outbox').kind = "publishDiagnostics"
      /\ DOMAIN sources' \subseteq Files /\ \A f \in DOMAIN sources' : sources'[f] \in Texts
      /\ nodes' \in [Files -> [parsed : SUBSET Names, kept : SUBSET Names]]
      /\ history' \in [Files -> [good : SUBSET Names, ever : SUBSET Names]]
      /\ \A f \in Files : Analysed(f)' /\ Remembered(f)'
  BY <1>2, <1>3, <1>4, AnalysisFacts DEF IInv
<1>8. Types'
  BY <1>3, <1>4, <1>6, <1>7 DEF IInv, Types, editor
<1> QED
  BY <1>6, <1>7, <1>8 DEF IInv
LEMMA CloseStep ==
  ASSUME IInv, handle_did_close
  PROVE  IInv' /\ Last(outbox').kind = "publishDiagnostics"
<1> DEFINE m == Head(inbox)
           out == [kind |-> "publishDiagnostics", shown |-> [g \in {m.file} |-> {}]]
<1>1. inbox # <<>> /\ inbox' = Tail(inbox) /\ m.kind = "didClose"
  BY DEF handle_did_close, Take
<1>2. m.file \in Files
  BY <1>1, HeadFacts DEF IInv, Touches
<1>3. /\ docs' = [docs EXCEPT ![m.file] = NoText]
      /\ outbox' = Append(outbox, out)
      /\ UNCHANGED <<editor, workspace, sources, nodes, is_shutdown, should_exit,
                     exit_code, history>>
  BY DEF handle_did_close
<1>4. docs' \in [Files -> Texts \cup {NoText}]
  BY <1>2, <1>3 DEF IInv, Types
<1>5. \A f \in Files : docs'[f] = IF Edits(m, f) THEN Left(m) ELSE docs[f]
  BY <1>1, <1>2, <1>3 DEF IInv, Types, Edits, Left
<1>6. out \in Outputs /\ out.kind = "publishDiagnostics"
  <2>1. [g \in {m.file} |-> {}] \in Marks
    <3>1. {m.file} \in SUBSET Files /\ [g \in {m.file} |-> {}] \in [{m.file} -> SUBSET Problems]
      BY <1>2
    <3> QED
      BY <3>1 DEF Marks
  <2> QED
    BY <2>1 DEF Outputs
<1> HIDE DEF m
<1> HIDE DEF out
<1>7. Follows' /\ inbox' \in Seq(Messages) /\ Len(inbox') <= MaxQueue
  BY <1>1, <1>3, <1>5, TakenFollows DEF IInv, editor, m
<1>8. outbox' \in Seq(Outputs) /\ Last(outbox') = out
  BY <1>3, <1>6, AppendFacts DEF IInv, Types
<1>9. ASSUME NEW f \in Files PROVE Analysed(f)' /\ Remembered(f)'
  <2>1. Analysed(f) /\ Remembered(f)
    BY DEF IInv
  <2>2. docs'[f] = docs[f] \/ docs'[f] = NoText
    BY <1>2, <1>3 DEF IInv, Types
  <2>3. Analysed(f)'
    BY <1>3, <2>1, <2>2 DEF Analysed, Parsed, Readable
  <2> QED
    BY <1>3, <2>1, <2>3 DEF Remembered, Known
<1>10. Types'
  BY <1>3, <1>4, <1>7, <1>8 DEF IInv, Types, editor
<1> QED
  BY <1>6, <1>7, <1>8, <1>9, <1>10 DEF IInv

(* What is kept of the texts stays when they are not analysed. *)
LEMMA Untouched ==
  ASSUME \A f \in Files : Analysed(f) /\ Remembered(f),
         UNCHANGED <<docs, sources, nodes, history>>
  PROVE  \A f \in Files : Analysed(f)' /\ Remembered(f)'
BY DEF Analysed, Parsed, Readable, Remembered, Known

(* A message that is not about a document is taken. *)
LEMMA OtherStep ==
  ASSUME IInv, inbox # <<>>, inbox' = Tail(inbox),
         Head(inbox).kind \notin {"didOpen", "didChange", "didClose"},
         outbox' \in Seq(Outputs),
         workspace' \in BOOLEAN, is_shutdown' \in BOOLEAN, should_exit' \in BOOLEAN,
         exit_code' \in {0, 1},
         UNCHANGED <<editor, docs, sources, nodes, history>>
  PROVE  IInv'
<1>1. \A f \in Files : docs'[f] = IF Edits(Head(inbox), f) THEN Left(Head(inbox)) ELSE docs[f]
  BY DEF Edits
<1>2. Follows' /\ inbox' \in Seq(Messages) /\ Len(inbox') <= MaxQueue
  BY <1>1, TakenFollows DEF IInv, editor
<1>3. \A f \in Files : Analysed(f)' /\ Remembered(f)'
  BY Untouched DEF IInv
<1>4. Types'
  BY <1>2 DEF IInv, Types, editor
<1> QED
  BY <1>2, <1>3, <1>4 DEF IInv

LEMMA FormalStep ==
  ASSUME IInv, handle_initialize \/ handle_shutdown
  PROVE  IInv' /\ Head(inbox).kind \in {"initialize", "shutdown"}
<1>1. /\ inbox # <<>> /\ inbox' = Tail(inbox)
      /\ Head(inbox).kind \in {"initialize", "shutdown"}
      /\ Respond(Head(inbox))
  BY DEF handle_initialize, handle_shutdown, Take
<1>2. outbox' \in Seq(Outputs)
  BY <1>1, HeadFacts, RespondFacts DEF IInv
<1>3. /\ UNCHANGED <<editor, docs, sources, nodes, should_exit, exit_code, history>>
      /\ workspace' \in {workspace, TRUE} /\ is_shutdown' \in {is_shutdown, TRUE}
  BY DEF handle_initialize, handle_shutdown
<1>4. workspace' \in BOOLEAN /\ is_shutdown' \in BOOLEAN /\ should_exit' \in BOOLEAN /\ exit_code' \in {0, 1}
  BY <1>3 DEF IInv, Types
<1> QED
  BY <1>1, <1>2, <1>3, <1>4, OtherStep

LEMMA QueryStep ==
  ASSUME IInv, handle_query
  PROVE  IInv' /\ Head(inbox) \in Questions /\ Respond(Head(inbox))
<1>1. /\ inbox # <<>> /\ inbox' = Tail(inbox)
      /\ Head(inbox).kind \in Queries
      /\ Respond(Head(inbox))
      /\ UNCHANGED <<editor, server>>
  BY DEF handle_query, Take, Queries
<1>2. Head(inbox) \in Questions /\ outbox' \in Seq(Outputs)
  BY <1>1, HeadFacts, RespondFacts DEF IInv
<1>3. /\ UNCHANGED <<docs, sources, nodes, history>>
      /\ workspace' \in BOOLEAN /\ is_shutdown' \in BOOLEAN /\ should_exit' \in BOOLEAN
      /\ exit_code' \in {0, 1}
  BY <1>1 DEF IInv, Types, server
<1> QED
  BY <1>1, <1>2, <1>3, OtherStep DEF Queries

LEMMA EndStep ==
  ASSUME IInv, handle_exit \/ end_of_input
  PROVE  IInv' /\ outbox' = outbox
<1>1. /\ inbox # <<>> /\ inbox' = Tail(inbox)
      /\ Head(inbox).kind \in {"exit", "eof"}
  BY DEF handle_exit, end_of_input, Take
<1>2. /\ UNCHANGED <<editor, outbox, docs, workspace, sources, nodes, is_shutdown, history>>
      /\ should_exit' \in BOOLEAN /\ exit_code' \in {0, 1}
  BY DEF handle_exit, end_of_input, IInv, Types
<1>3. outbox' \in Seq(Outputs) /\ workspace' \in BOOLEAN /\ is_shutdown' \in BOOLEAN
  BY <1>2 DEF IInv, Types
<1> QED
  BY <1>1, <1>2, <1>3, OtherStep
(* The editor sends a message. *)
LEMMA EditorStep ==
  ASSUME IInv, NEW m \in Messages, Send(m),
         \A f \in Files : buffers'[f] = IF Edits(m, f) THEN Left(m) ELSE buffers[f],
         m.kind \in Queries => m.file \in Files /\ m.text = buffers[m.file],
         buffers' \in [Files -> Texts \cup {NoText}], disk' \in [Files -> Texts],
         focus' \in Files \cup {Nothing}, phase' \in {"up", "leaving", "gone"},
         edits' \in 0..MaxSent, answered' \in Seq(Nat), Len(answered') <= MaxRequests
  PROVE  IInv'
<1>1. UNCHANGED <<server, outbox, shown>>
  BY DEF Send
<1>2. Follows' /\ inbox' \in Seq(Messages) /\ Len(inbox') <= MaxQueue
  BY SentFollows DEF IInv
<1>3. \A f \in Files : Analysed(f)' /\ Remembered(f)'
  BY <1>1, Untouched DEF IInv, server
<1>4. Types'
  BY <1>1, <1>2 DEF IInv, Types, server
<1> QED
  BY <1>2, <1>3, <1>4 DEF IInv

LEMMA EditFacts ==
  ASSUME IInv, NEW m, Edit(m)
  PROVE  /\ Send(m) /\ edits' \in 0..MaxSent /\ phase' \in {"up", "leaving", "gone"}
         /\ answered' \in Seq(Nat) /\ Len(answered') <= MaxRequests
<1>1. Len(answered) \in Nat
  BY LenProperties DEF IInv, Types
<1>2. edits' = edits + 1 /\ edits + Len(answered) < MaxSent
  BY DEF Edit
<1>3. edits' \in 0..MaxSent
  BY <1>1, <1>2, BoundsAssumption DEF IInv, Types
<1> QED
  BY <1>3 DEF Edit, IInv, Types

LEMMA OpenStep ==
  ASSUME IInv, NEW f \in Files, OpenFile(f)
  PROVE  IInv'
<1> DEFINE m == [kind |-> "didOpen", file |-> f, text |-> disk[f]]
<1>1. disk[f] \in Texts
  BY DEF IInv, Types
<1>2. m \in Messages
  BY <1>1 DEF Messages, Documents
<1>3. Edit(m) /\ buffers' = [buffers EXCEPT ![f] = disk[f]] /\ disk' = disk /\ focus' = f
  BY DEF OpenFile
<1>4. /\ buffers' \in [Files -> Texts \cup {NoText}]
      /\ \A g \in Files : buffers'[g] = IF Edits(m, g) THEN Left(m) ELSE buffers[g]
  BY <1>1, <1>3 DEF IInv, Types, Edits, Left
<1>5. m.kind \notin Queries
  BY DEF Queries
<1> HIDE DEF m
<1>6. disk' \in [Files -> Texts] /\ focus' \in Files \cup {Nothing}
  BY <1>3 DEF IInv, Types
<1> QED
  BY <1>2, <1>3, <1>4, <1>5, <1>6, EditFacts, EditorStep

LEMMA ChangeStep ==
  ASSUME IInv, NEW f \in Files, ChangeFile(f)
  PROVE  IInv'
<1>1. PICK t \in Texts \ {buffers[f]} :
        /\ buffers' = [buffers EXCEPT ![f] = t]
        /\ Edit([kind |-> "didChange", file |-> f, text |-> t])
  BY DEF ChangeFile
<1> DEFINE m == [kind |-> "didChange", file |-> f, text |-> t]
<1>2. m \in Messages
  BY DEF Messages, Documents
<1>3. Edit(m) /\ disk' = disk /\ focus' = f
  BY <1>1 DEF ChangeFile
<1>4. /\ buffers' \in [Files -> Texts \cup {NoText}]
      /\ \A g \in Files : buffers'[g] = IF Edits(m, g) THEN Left(m) ELSE buffers[g]
  BY <1>1 DEF IInv, Types, Edits, Left
<1>5. m.kind \notin Queries
  BY DEF Queries
<1> HIDE DEF m
<1>6. disk' \in [Files -> Texts] /\ focus' \in Files \cup {Nothing}
  BY <1>3 DEF IInv, Types
<1> QED
  BY <1>2, <1>3, <1>4, <1>5, <1>6, EditFacts, EditorStep

LEMMA SavedStep ==
  ASSUME IInv, NEW f \in Files, SaveFile(f)
  PROVE  IInv'
<1> DEFINE m == [kind |-> "didSave", file |-> f]
<1>1. m \in Messages
  BY DEF Messages, Touches
<1>2. /\ Edit(m) /\ buffers' = buffers /\ focus' = f
      /\ disk' = [disk EXCEPT ![f] = buffers[f]] /\ buffers[f] \in Texts
  BY DEF SaveFile, IInv, Types
<1>3. \A g \in Files : ~Edits(m, g)
  BY DEF Edits
<1>4. m.kind \notin Queries
  BY DEF Queries
<1> HIDE DEF m
<1>5. /\ disk' \in [Files -> Texts] /\ focus' \in Files \cup {Nothing}
      /\ buffers' \in [Files -> Texts \cup {NoText}]
  BY <1>2 DEF IInv, Types
<1> QED
  BY <1>1, <1>2, <1>3, <1>4, <1>5, EditFacts, EditorStep

LEMMA ClosedStep ==
  ASSUME IInv, NEW f \in Files, CloseFile(f)
  PROVE  IInv'
<1> DEFINE m == [kind |-> "didClose", file |-> f]
<1>1. m \in Messages
  BY DEF Messages, Touches
<1>2. /\ Edit(m) /\ buffers' = [buffers EXCEPT ![f] = NoText] /\ focus' = Nothing /\ disk' = disk
  BY DEF CloseFile
<1>3. /\ buffers' \in [Files -> Texts \cup {NoText}]
      /\ \A g \in Files : buffers'[g] = IF Edits(m, g) THEN Left(m) ELSE buffers[g]
  BY <1>2 DEF IInv, Types, Edits, Left
<1>4. m.kind \notin Queries
  BY DEF Queries
<1> HIDE DEF m
<1>5. disk' \in [Files -> Texts] /\ focus' \in Files \cup {Nothing}
  BY <1>2 DEF IInv, Types
<1> QED
  BY <1>1, <1>2, <1>3, <1>4, <1>5, EditFacts, EditorStep
LEMMA AskStep ==
  ASSUME IInv, NEW kind, NEW f, NEW n, Ask(kind, f, n),
         \/ kind \in {"initialize", "shutdown"} /\ f = Nothing /\ n = Nothing
         \/ kind \in Queries /\ f \in Open(buffers) /\ n \in Names \cup {Keyword, Nothing},
         phase' \in {"up", "leaving", "gone"}
  PROVE  IInv'
<1> DEFINE text == IF f = Nothing THEN NoText ELSE buffers[f]
           m == [kind |-> kind, id |-> Len(answered'), file |-> f, name |-> n, text |-> text]
<1>1. /\ answered' = Append(answered, 0) /\ Len(answered) < MaxRequests
      /\ Send(m) /\ UNCHANGED <<buffers, disk, focus, edits>>
  BY DEF Ask
<1>2. answered \in Seq(Nat)
  BY DEF IInv, Types
<1>3. answered' \in Seq(Nat) /\ Len(answered') \in Nat /\ Len(answered') = Len(answered) + 1
      /\ Len(answered) \in Nat
  BY <1>1, <1>2, AppendFacts
<1>4. Len(answered') <= MaxRequests
  BY <1>1, <1>3, BoundsAssumption
<1>5. m \in Messages /\ (kind \in Queries => f \in Files /\ text = buffers[f])
  <2>1. CASE kind \in {"initialize", "shutdown"} /\ f = Nothing /\ n = Nothing
    <3>1. m \in Formalities
      BY <1>3, <2>1 DEF Formalities
    <3> QED
      BY <2>1, <3>1 DEF Messages, Queries
  <2>2. CASE kind \in Queries /\ f \in Open(buffers) /\ n \in Names \cup {Keyword, Nothing}
    <3>1. f \in Files /\ buffers[f] \in Texts /\ f # Nothing
      BY <2>2, TextsAssumption DEF Open, IInv, Types
    <3>2. m \in Questions
      BY <1>3, <2>2, <3>1 DEF Questions
    <3> QED
      BY <3>1, <3>2 DEF Messages
  <2> QED
    BY <2>1, <2>2
<1>6. m.kind = kind /\ m.file = f /\ m.text = text
  OBVIOUS
<1>7. \A g : ~Edits(m, g)
  BY DEF Edits, Queries
<1> HIDE DEF m
<1> HIDE DEF text
<1>8. /\ buffers' \in [Files -> Texts \cup {NoText}] /\ disk' \in [Files -> Texts]
      /\ focus' \in Files \cup {Nothing} /\ edits' \in 0..MaxSent
  BY <1>1 DEF IInv, Types
<1>9. \A g \in Files : buffers'[g] = IF Edits(m, g) THEN Left(m) ELSE buffers[g]
  BY <1>1, <1>7
<1>10. m.kind \in Queries => m.file \in Files /\ m.text = buffers[m.file]
  BY <1>5, <1>6
<1> QED
  BY <1>1, <1>3, <1>4, <1>5, <1>8, <1>9, <1>10, EditorStep

LEMMA RequestStep ==
  ASSUME IInv, Initialize \/ Query \/ Shutdown
  PROVE  IInv'
<1>1. CASE Initialize
  BY <1>1, AskStep DEF Initialize, IInv, Types
<1>2. CASE Shutdown
  BY <1>2, AskStep DEF Shutdown, IInv, Types
<1>3. CASE Query
  <2>1. phase' \in {"up", "leaving", "gone"}
    BY <1>3 DEF Query, IInv, Types
  <2>2. PICK f \in Open(buffers) :
          \/ \E kind \in {"documentSymbol", "completion", "unknown"} : Ask(kind, f, Nothing)
          \/ \E kind \in {"definition", "typeDefinition"},
                n \in buffers[f].uses \cup {Keyword} : Ask(kind, f, n)
    BY <1>3 DEF Query
  <2>3. buffers[f].uses \subseteq Names
    BY <2>2, TextFacts DEF Open, IInv, Types
  <2>4. ASSUME NEW kind \in {"documentSymbol", "completion", "unknown"}, Ask(kind, f, Nothing)
        PROVE  IInv'
    BY <2>1, <2>2, <2>4, AskStep DEF Queries
  <2>5. ASSUME NEW kind \in {"definition", "typeDefinition"},
               NEW n \in buffers[f].uses \cup {Keyword}, Ask(kind, f, n)
        PROVE  IInv'
    BY <2>1, <2>2, <2>3, <2>5, AskStep DEF Queries
  <2> QED
    BY <2>2, <2>4, <2>5
<1> QED
  BY <1>1, <1>2, <1>3

LEMMA LeaveStep ==
  ASSUME IInv, Leave
  PROVE  IInv'
<1>1. PICK kind \in {"exit", "eof"} : Send([kind |-> kind])
  BY DEF Leave
<1> DEFINE m == [kind |-> kind]
<1>2. m \in Messages
  BY DEF Messages, Ends
<1>3. m.kind \notin Queries /\ \A g : ~Edits(m, g)
  BY DEF Queries, Edits
<1> HIDE DEF m
<1>4. /\ buffers' = buffers /\ buffers' \in [Files -> Texts \cup {NoText}]
      /\ disk' \in [Files -> Texts] /\ focus' \in Files \cup {Nothing}
      /\ phase' \in {"up", "leaving", "gone"} /\ edits' \in 0..MaxSent
      /\ answered' \in Seq(Nat) /\ Len(answered') <= MaxRequests
  BY DEF Leave, IInv, Types
<1>5. Send(m)
  BY <1>1 DEF m
<1> QED
  BY <1>2, <1>3, <1>4, <1>5, EditorStep

LEMMA ReceiveStep ==
  ASSUME IInv, Receive
  PROVE  IInv'
<1>1. /\ outbox # <<>> /\ outbox' = Tail(outbox)
      /\ UNCHANGED <<buffers, disk, focus, phase, edits, inbox, server>>
  BY DEF Receive
<1>2. outbox' \in Seq(Outputs) /\ Head(outbox) \in Outputs
  BY <1>1, TailFacts DEF IInv, Types
<1>3. answered' \in Seq(Nat) /\ Len(answered') <= MaxRequests
  <2>1. CASE answered' = answered
    BY <2>1 DEF IInv, Types
  <2>2. CASE answered' # answered
    <3>1. answered' = [answered EXCEPT ![Head(outbox).id] = @ + 1]
      BY <2>2 DEF Receive
    <3>2. answered \in Seq(Nat) /\ DOMAIN answered = 1..Len(answered)
      BY LenProperties DEF IInv, Types
    <3>3. Head(outbox).id \in 1..Len(answered)
      BY <2>2, <3>1, <3>2
    <3>4. answered[Head(outbox).id] + 1 \in Nat
      BY <3>2, <3>3
    <3> QED
      BY <3>1, <3>2, <3>3, <3>4, ExceptSeq DEF IInv, Types
  <2> QED
    BY <2>1, <2>2
<1>4. shown' \in [Files -> SUBSET Problems]
  <2>1. CASE Head(outbox).kind = "response"
    BY <2>1 DEF Receive, IInv, Types
  <2>2. CASE Head(outbox).kind # "response"
    <3>1. shown' = [f \in Files |-> IF f \in DOMAIN Head(outbox).shown
                                   THEN Head(outbox).shown[f] ELSE shown[f]]
      BY <2>2 DEF Receive
    <3>2. Head(outbox).shown \in Marks
      BY <1>2, <2>2 DEF Outputs
    <3>3. \A f \in DOMAIN Head(outbox).shown : Head(outbox).shown[f] \in SUBSET Problems
      BY <3>2 DEF Marks
    <3> QED
      BY <3>1, <3>3 DEF IInv, Types
  <2> QED
    BY <2>1, <2>2
<1>5. Types'
  BY <1>1, <1>2, <1>3, <1>4 DEF IInv, Types, server
<1>6. \A f \in Files : Analysed(f)' /\ Remembered(f)'
  BY <1>1, Untouched DEF IInv, server
<1>7. Follows'
  BY <1>1 DEF IInv, Follows, EditorsText, WritersText, TextAt, server
<1> QED
  BY <1>5, <1>6, <1>7 DEF IInv

LEMMA NextIInv == IInv /\ [Next]_vars => IInv'
<1> SUFFICES ASSUME IInv, [Next]_vars PROVE IInv'
  OBVIOUS
<1>1. CASE process_message
  BY <1>1, DocumentStep, SaveStep, CloseStep, FormalStep, QueryStep, EndStep DEF process_message
<1>2. CASE Receive
  BY <1>2, ReceiveStep
<1>3. CASE Editor
  BY <1>3, OpenStep, ChangeStep, SavedStep, ClosedStep, RequestStep, LeaveStep DEF Editor
<1>4. CASE UNCHANGED vars
  <2>1. Types'
    BY <1>4 DEF IInv, Types, vars, editor, server
  <2>2. \A f \in Files : Analysed(f)' /\ Remembered(f)'
    BY <1>4, Untouched DEF IInv, vars, server
  <2>3. Follows'
    BY <1>4 DEF IInv, Follows, EditorsText, WritersText, TextAt, vars, editor, server
  <2> QED
    BY <2>1, <2>2, <2>3 DEF IInv
<1> QED
  BY <1>1, <1>2, <1>3, <1>4 DEF Next


(* The server's trees are those of the texts it last analysed, it keeps what
   the files once had, and it follows the editor through the messages that
   wait. *)
THEOREM Invariance == Spec => []IInv
BY InitIInv, NextIInv, PTL DEF Spec

(* Every variable has its type, and what the server keeps of a file is disjoint
   from what is there, and never more than the file declared. *)
THEOREM TypeCorrect == Spec => []TypeOK
<1>1. ASSUME IInv PROVE TypeOK
  <2>1. Range(sources) \subseteq Texts
    BY <1>1 DEF IInv, Types, Range
  <2>2. \A f \in Files :
          /\ nodes[f].parsed \cap nodes[f].kept = {}
          /\ Known(f) \subseteq history[f].ever
          /\ nodes[f].parsed # {} => nodes[f].kept \subseteq Classes
    BY <1>1 DEF IInv, Remembered
  <2>3. Types
    BY <1>1 DEF IInv
  <2> QED
    BY <2>1, <2>2, <2>3 DEF TypeOK, Types
<1> QED
  BY <1>1, Invariance, PTL

-----------------------------------------------------------------------------
(* Answers. *)

(* The server comes to a question with the document its writer saw, and has
   analysed it. *)
LEMMA QuestionText ==
  ASSUME IInv, inbox # <<>>, Head(inbox) \in Questions
  PROVE  LET q == Head(inbox)
         IN  q.file \in DOMAIN sources /\ sources[q.file] = q.text
<1> DEFINE q == Head(inbox)
<1>1. /\ q = inbox[1] /\ 1 \in 1..Len(inbox)
      /\ q.kind \in Queries /\ q.file \in Files /\ q.text \in Texts
  BY TailFacts DEF IInv, Types, Questions
<1>2. TextAt(inbox, docs, 1, q.file, q.text)
  BY <1>1 DEF IInv, Follows, WritersText
<1>3. 1..(1 - 1) = {}
  OBVIOUS
<1>4. docs[q.file] = q.text
  BY <1>2, <1>3 DEF TextAt
<1> QED
  BY <1>1, <1>4, TextsAssumption DEF IInv, Analysed, NoText

LEMMA AnswerIsComplete ==
  ASSUME IInv, inbox # <<>>, Head(inbox) \in Questions, NEW a \in Answers(Head(inbox))
  PROVE  Complete(Head(inbox), a)
<1> DEFINE q == Head(inbox)
<1>1. q.kind \in Queries /\ q.file \in Files
  BY DEF Questions
<1>2. q.file \in DOMAIN sources /\ sources[q.file] = q.text
  BY QuestionText
<1>3. \A f \in Files : /\ nodes[f].parsed = Parsed(sources, f)
                       /\ Known(f) \subseteq history[f].ever
                       /\ history[f].good \subseteq Known(f)
  BY DEF IInv, Analysed, Remembered
<1> HIDE DEF q
<1>4. ASSUME q.kind = "documentSymbol"
      PROVE  /\ history[q.file].good \subseteq a
             /\ Readable(sources) => q.text.declares \subseteq a
  <2>1. a = Known(q.file)
    BY <1>4 DEF Answers, q
  <2>2. Readable(sources) => nodes[q.file].parsed = q.text.declares
    BY <1>1, <1>2, <1>3 DEF Parsed
  <2> QED
    BY <1>1, <1>3, <2>1, <2>2 DEF Known
<1>5. ASSUME q.kind = "completion", NEW f \in Files
      PROVE  history[f].good \subseteq a
  <2>1. a = UNION {Known(g) : g \in Files}
    BY <1>5 DEF Answers, q
  <2> QED
    BY <1>3, <2>1
<1>6. ASSUME q.kind \in {"definition", "typeDefinition"}, q.name \in Names,
             Readable(sources), NEW d \in DOMAIN sources, q.name \in sources[d].declares,
             Undisturbed(q.name)
      PROVE  a \in {f \in DOMAIN sources : q.name \in sources[f].declares}
  <2> DEFINE declaring == {f \in DOMAIN sources : q.name \in sources[f].declares}
  <2>1. \A f \in Files : q.name \in Known(f) => f \in declaring /\ q.name \in nodes[f].parsed
    BY <1>3, <1>6 DEF Undisturbed, Parsed
  <2>2. \A f \in Files : q.name \in Known(f) => Location(f, q.name) = {f}
    BY <2>1 DEF Location
  <2>3. d \in Files /\ q.name \in Known(d)
    BY <1>3, <1>6 DEF Parsed, Known, IInv, Types
  <2>4. TypeLocations(q.name) \subseteq declaring
    BY <2>1, <2>2 DEF TypeLocations
  <2>5. d \in TypeLocations(q.name)
    BY <2>2, <2>3 DEF TypeLocations
  <2>6. q.name # Keyword
    BY <1>6, TextsAssumption
  <2>7. a \in TypeLocations(q.name)
    <3>1. CASE q.kind = "definition"
      BY <2>5, <2>6, <3>1 DEF Answers, DefinitionAnswers, q
    <3>2. CASE q.kind = "typeDefinition"
      BY <1>6, <2>5, <3>2 DEF Answers, q
    <3> QED
      BY <1>6, <3>1, <3>2
  <2> QED
    BY <2>4, <2>7
<1> QED
  BY <1>4, <1>5, <1>6 DEF Complete, q

(* Whatever was edited before a request and however broken the texts are, its
   answer has the classes of the last good texts and agrees with the text its
   writer saw. *)
THEOREM CompleteAnswers == Spec => AnswersComplete
<1>1. ASSUME IInv, Next, Answering
      PROVE  Complete(Head(inbox), Last(outbox').result)
  <2>1. inbox # <<>> /\ inbox' = Tail(inbox) /\ outbox' # outbox /\ Last(outbox').kind = "response"
    BY <1>1 DEF Answering
  <2>2. CASE process_message
    <3>1. CASE handle_query
      <4>1. Head(inbox) \in Questions /\ Respond(Head(inbox))
        BY <1>1, <3>1, QueryStep
      <4>2. \E a \in Answers(Head(inbox)) : Last(outbox').result = a
        BY <1>1, <4>1, RespondFacts DEF IInv
      <4> QED
        BY <1>1, <2>1, <4>1, <4>2, AnswerIsComplete
    <3>2. CASE handle_initialize \/ handle_shutdown
      <4>1. Head(inbox).kind \in {"initialize", "shutdown"}
        BY <1>1, <3>2, FormalStep
      <4> QED
        BY <4>1 DEF Complete
    <3>3. CASE handle_did_open \/ handle_did_change \/ handle_did_save \/ handle_did_close
      BY <1>1, <2>1, <3>3, DocumentStep, SaveStep, CloseStep
    <3>4. CASE handle_exit \/ end_of_input
      BY <1>1, <2>1, <3>4, EndStep
    <3> QED
      BY <2>2, <3>1, <3>2, <3>3, <3>4 DEF process_message
  <2>3. Tail(inbox) # inbox
    <3>1. Len(Tail(inbox)) = Len(inbox) - 1 /\ Len(inbox) \in Nat
      BY <1>1, <2>1, TailFacts DEF IInv, Types
    <3> QED
      BY <3>1
  <2>4. CASE Receive
    BY <2>1, <2>3, <2>4 DEF Receive
  <2>5. CASE Editor
    <3>1. outbox' = outbox
      BY <2>5 DEF Editor, OpenFile, ChangeFile, SaveFile, CloseFile, Initialize, Query,
                  Shutdown, Leave, Edit, Ask, Send
    <3> QED
      BY <2>1, <3>1
  <2> QED
    BY <1>1, <2>2, <2>4, <2>5 DEF Next
<1>2. ASSUME IInv, [Next]_vars
      PROVE  [Answering => Complete(Head(inbox), Last(outbox').result)]_vars
  BY <1>1, <1>2
<1> QED
  BY <1>2, Invariance, PTL DEF AnswersComplete, Spec
-----------------------------------------------------------------------------
(* Marks.  The marks f will have when the editor, which has marks w now, has
   read the messages o. *)
Tells(m, f) == m.kind = "publishDiagnostics" /\ f \in DOMAIN m.shown
ShownAt(o, w, f, x) ==
  \/ /\ w[f] = x
     /\ \A k \in 1..Len(o) : ~Tells(o[k], f)
  \/ \E j \in 1..Len(o) :
       /\ Tells(o[j], f) /\ o[j].shown[f] = x
       /\ \A k \in (j + 1)..Len(o) : ~Tells(o[k], f)

(* No notification about a document waits; the last that does is about the
   file in which the user works. *)
About(m) == m.kind \in {"didOpen", "didChange", "didSave", "didClose"}
Settled == \A k \in 1..Len(inbox) : ~About(inbox[k])
FocusLast ==
  focus # Nothing /\ ~Settled =>
    \E j \in 1..Len(inbox) :
      /\ About(inbox[j]) /\ inbox[j].kind # "didClose" /\ inbox[j].file = focus
      /\ \A k \in (j + 1)..Len(inbox) : ~About(inbox[k])

(* What the editor has been told, or will be, goes back to one analysis of the
   sources: of each document it has all marks, of the file in which the user
   works no others. *)
Marked(f, report) ==
  docs[f] # NoText =>
    \E x : /\ ShownAt(outbox, shown, f, x)
           /\ report[f] \subseteq x
           /\ focus = f /\ Settled => x = report[f]
MarksSent ==
  (\E f \in Files : docs[f] # NoText) =>
    \E report \in Reports(sources) : \A f \in Files : Marked(f, report)

DInv == IInv /\ FocusLast /\ MarksSent

LEMMA ShownRead ==
  ASSUME NEW S, NEW s \in Seq(S), s # <<>>, NEW w, NEW v, NEW f, NEW x,
         v[f] = IF Tells(Head(s), f) THEN Head(s).shown[f] ELSE w[f],
         ShownAt(s, w, f, x)
  PROVE  ShownAt(Tail(s), v, f, x)
<1> DEFINE n == Len(s)
           r == Tail(s)
<1>1. /\ n \in Nat \ {0} /\ Head(s) = s[1] /\ Len(r) = n - 1
      /\ \A k \in 1..(n - 1) : r[k] = s[k + 1]
  BY TailFacts
<1>2. 1 \in 1..n /\ \A k \in 1..(n - 1) : k + 1 \in 1..n
  BY <1>1
<1> HIDE DEF n, r
<1>3. CASE w[f] = x /\ \A k \in 1..n : ~Tells(s[k], f)
  <2>1. v[f] = x
    BY <1>1, <1>2, <1>3
  <2>2. \A k \in 1..Len(r) : ~Tells(r[k], f)
    BY <1>1, <1>2, <1>3
  <2> QED
    BY <2>1, <2>2 DEF ShownAt
<1>4. ASSUME NEW j \in 1..n, Tells(s[j], f), s[j].shown[f] = x,
             \A k \in (j + 1)..n : ~Tells(s[k], f)
      PROVE  ShownAt(r, v, f, x)
  <2>1. \A k \in j..(n - 1) : k \in 1..(n - 1) /\ k + 1 \in (j + 1)..n
    BY <1>1, <1>4
  <2>2. \A k \in j..Len(r) : ~Tells(r[k], f)
    BY <1>1, <1>4, <2>1
  <2>3. CASE j = 1
    BY <1>1, <1>4, <2>2, <2>3 DEF ShownAt
  <2>4. CASE j # 1
    <3>1. j - 1 \in 1..Len(r) /\ j - 1 \in 1..(n - 1) /\ (j - 1) + 1 = j
      BY <1>1, <1>4, <2>4
    <3>2. r[j - 1] = s[j]
      BY <1>1, <3>1
    <3>3. \A k \in ((j - 1) + 1)..Len(r) : ~Tells(r[k], f)
      BY <2>2, <3>1
    <3> QED
      BY <1>4, <3>1, <3>2, <3>3 DEF ShownAt
  <2> QED
    BY <2>3, <2>4
<1> QED
  BY <1>3, <1>4 DEF ShownAt, n, r

LEMMA ShownTold ==
  ASSUME NEW S, NEW s \in Seq(S), NEW m \in S, NEW w, NEW f, NEW x,
         IF Tells(m, f) THEN x = m.shown[f] ELSE ShownAt(s, w, f, x)
  PROVE  ShownAt(Append(s, m), w, f, x)
<1> DEFINE n == Len(s)
           r == Append(s, m)
<1>1. n \in Nat /\ Len(r) = n + 1 /\ r[n + 1] = m /\ \A k \in 1..n : r[k] = s[k]
  BY AppendFacts
<1> HIDE DEF n, r
<1>2. \A k \in 1..(n + 1) : k \in 1..n \/ k = n + 1
  BY <1>1
<1>3. n + 1 \in 1..(n + 1) /\ ((n + 1) + 1)..(n + 1) = {} /\ \A k \in 1..n : k \in 1..(n + 1)
  BY <1>1
<1>4. CASE Tells(m, f)
  BY <1>1, <1>3, <1>4 DEF ShownAt, r
<1>5. CASE ~Tells(m, f)
  <2>1. CASE w[f] = x /\ \A k \in 1..n : ~Tells(s[k], f)
    BY <1>1, <1>2, <1>5, <2>1 DEF ShownAt, r
  <2>2. ASSUME NEW j \in 1..n, Tells(s[j], f), s[j].shown[f] = x,
               \A k \in (j + 1)..n : ~Tells(s[k], f)
        PROVE  ShownAt(r, w, f, x)
    <3>1. \A k \in (j + 1)..(n + 1) : k \in (j + 1)..n \/ k = n + 1
      BY <1>1
    <3>2. \A k \in (j + 1)..n : k \in 1..n
      BY <1>1
    <3>3. \A k \in (j + 1)..(n + 1) : ~Tells(r[k], f)
      BY <1>1, <1>5, <2>2, <3>1, <3>2
    <3> QED
      BY <1>1, <1>3, <2>2, <3>3 DEF ShownAt
  <2> QED
    BY <1>5, <2>1, <2>2 DEF ShownAt, n, r
<1> QED
  BY <1>4, <1>5 DEF r

(* A message is taken: the focus keeps its place. *)
LEMMA FocusTaken ==
  ASSUME IInv, FocusLast, inbox # <<>>, inbox' = Tail(inbox), focus' = focus
  PROVE  /\ FocusLast'
         /\ Settled' /\ ~About(Head(inbox)) => Settled
         /\ Settled' /\ About(Head(inbox)) /\ focus # Nothing =>
              Head(inbox).kind # "didClose" /\ Head(inbox).file = focus
<1> DEFINE n == Len(inbox)
           r == Tail(inbox)
<1>1. /\ n \in Nat \ {0} /\ Head(inbox) = inbox[1] /\ Len(r) = n - 1
      /\ \A k \in 1..(n - 1) : r[k] = inbox[k + 1]
  BY TailFacts DEF IInv, Types
<1>2. inbox' = r
  OBVIOUS
<1> HIDE DEF r
<1>3. \A k \in 1..n : k = 1 \/ (k - 1 \in 1..(n - 1) /\ (k - 1) + 1 = k)
  BY <1>1
<1>4. Settled' <=> \A k \in 2..n : ~About(inbox[k])
  <2>1. Settled' <=> \A k \in 1..(n - 1) : ~About(r[k])
    BY <1>1, <1>2 DEF Settled
  <2>2. \A k \in 1..(n - 1) : k + 1 \in 2..n
    BY <1>1
  <2>3. \A k \in 2..n : k - 1 \in 1..(n - 1) /\ (k - 1) + 1 = k
    BY <1>1
  <2> QED
    BY <1>1, <2>1, <2>2, <2>3
<1>5. \A k \in 1..n : k = 1 \/ k \in 2..n
  BY <1>1
<1>6. Settled' /\ ~About(Head(inbox)) => Settled
  BY <1>1, <1>4, <1>5 DEF Settled
<1>7. ASSUME focus # Nothing, ~Settled
      PROVE  \E j \in 1..n :
               /\ About(inbox[j]) /\ inbox[j].kind # "didClose" /\ inbox[j].file = focus
               /\ \A k \in (j + 1)..n : ~About(inbox[k])
  BY <1>7 DEF FocusLast
<1>8. ASSUME Settled', About(Head(inbox)), focus # Nothing
      PROVE  Head(inbox).kind # "didClose" /\ Head(inbox).file = focus
  <2>1. ~Settled
    BY <1>1, <1>8 DEF Settled
  <2> QED
    BY <1>1, <1>4, <1>5, <1>7, <1>8, <2>1
<1>9. ASSUME focus # Nothing, ~Settled'
      PROVE  \E j \in 1..Len(r) :
               /\ About(r[j]) /\ r[j].kind # "didClose" /\ r[j].file = focus
               /\ \A k \in (j + 1)..Len(r) : ~About(r[k])
  <2>1. ~Settled
    <3>1. \A k \in 2..n : k \in 1..n
      BY <1>1
    <3> QED
      BY <1>4, <1>9, <3>1 DEF Settled
  <2>2. PICK j \in 1..n :
          /\ About(inbox[j]) /\ inbox[j].kind # "didClose" /\ inbox[j].file = focus
          /\ \A k \in (j + 1)..n : ~About(inbox[k])
    BY <1>7, <1>9, <2>1
  <2>3. j # 1
    BY <1>4, <1>9, <2>2
  <2>4. j - 1 \in 1..Len(r) /\ r[j - 1] = inbox[j]
    BY <1>1, <1>3, <2>3
  <2>5. \A k \in ((j - 1) + 1)..Len(r) : k \in 1..(n - 1) /\ k + 1 \in (j + 1)..n
    BY <1>1, <2>3
  <2>6. \A k \in ((j - 1) + 1)..Len(r) : ~About(r[k])
    BY <1>1, <2>2, <2>5
  <2> QED
    BY <2>2, <2>4, <2>6
<1>10. FocusLast'
  BY <1>2, <1>9 DEF FocusLast
<1> QED
  BY <1>6, <1>8, <1>10
(* A message is sent: if it is about a document, its file is in focus. *)
LEMMA FocusSent ==
  ASSUME IInv, FocusLast, NEW m \in Messages, inbox' = Append(inbox, m),
         IF About(m) THEN focus' = IF m.kind = "didClose" THEN Nothing ELSE m.file
         ELSE focus' = focus
  PROVE  FocusLast' /\ (Settled' => Settled /\ focus' = focus)
<1> DEFINE n == Len(inbox)
           r == Append(inbox, m)
<1>1. n \in Nat /\ Len(r) = n + 1 /\ r[n + 1] = m /\ \A k \in 1..n : r[k] = inbox[k]
  BY AppendFacts DEF IInv, Types
<1>2. inbox' = r
  OBVIOUS
<1> HIDE DEF r
<1>3. \A k \in 1..(n + 1) : k \in 1..n \/ k = n + 1
  BY <1>1
<1>4. n + 1 \in 1..(n + 1) /\ ((n + 1) + 1)..(n + 1) = {} /\ \A k \in 1..n : k \in 1..(n + 1)
  BY <1>1
<1>5. Settled' <=> Settled /\ ~About(m)
  BY <1>1, <1>2, <1>3, <1>4 DEF Settled
<1>6. CASE About(m)
  <2>1. focus' # Nothing => m.kind # "didClose" /\ m.file = focus'
    BY <1>6
  <2> QED
    BY <1>1, <1>2, <1>4, <1>5, <1>6, <2>1 DEF FocusLast
<1>7. CASE ~About(m)
  <2>1. ASSUME focus # Nothing, ~Settled
        PROVE  \E j \in 1..Len(r) :
                 /\ About(r[j]) /\ r[j].kind # "didClose" /\ r[j].file = focus
                 /\ \A k \in (j + 1)..Len(r) : ~About(r[k])
    <3>1. PICK j \in 1..n :
            /\ About(inbox[j]) /\ inbox[j].kind # "didClose" /\ inbox[j].file = focus
            /\ \A k \in (j + 1)..n : ~About(inbox[k])
      BY <2>1 DEF FocusLast
    <3>2. \A k \in (j + 1)..(n + 1) : (k \in 1..n /\ k \in (j + 1)..n) \/ k = n + 1
      BY <1>1
    <3>3. \A k \in (j + 1)..(n + 1) : ~About(r[k])
      BY <1>1, <1>7, <3>1, <3>2
    <3> QED
      BY <1>1, <1>4, <3>1, <3>3
  <2>2. focus' = focus
    BY <1>7
  <2>3. FocusLast'
    BY <1>2, <1>5, <1>7, <2>1, <2>2 DEF FocusLast
  <2> QED
    BY <1>5, <2>2, <2>3
<1> QED
  BY <1>6, <1>7

(* Nobody is told of marks. *)
LEMMA MarksKept ==
  ASSUME IInv, MarksSent, UNCHANGED <<docs, sources, shown>>,
         \/ outbox' = outbox
         \/ \E m \in Outputs : m.kind = "response" /\ outbox' = Append(outbox, m),
         Settled' => Settled /\ focus' = focus
  PROVE  MarksSent'
<1>1. ASSUME NEW f, NEW x, ShownAt(outbox, shown, f, x)
      PROVE  ShownAt(outbox', shown, f, x)
  <2>1. CASE outbox' = outbox
    BY <1>1, <2>1
  <2>2. CASE \E m \in Outputs : m.kind = "response" /\ outbox' = Append(outbox, m)
    <3>1. PICK m \in Outputs : m.kind = "response" /\ outbox' = Append(outbox, m)
      BY <2>2
    <3>2. ~Tells(m, f)
      BY <3>1 DEF Tells
    <3>3. outbox \in Seq(Outputs)
      BY DEF IInv, Types
    <3> QED
      BY <1>1, <3>1, <3>2, <3>3, ShownTold
  <2> QED
    BY <2>1, <2>2
<1>2. ASSUME NEW f \in Files, NEW report, Marked(f, report)
      PROVE  /\ docs[f] # NoText =>
                \E x : /\ ShownAt(outbox', shown, f, x)
                       /\ report[f] \subseteq x
                       /\ focus' = f /\ Settled' => x = report[f]
  BY <1>1, <1>2 DEF Marked
<1>3. ASSUME NEW f \in Files, docs'[f] # NoText
      PROVE  \E report \in Reports(sources') : \A g \in Files : Marked(g, report)'
  <2>1. PICK report \in Reports(sources) : \A g \in Files : Marked(g, report)
    BY <1>3 DEF MarksSent
  <2>2. ASSUME NEW g \in Files
        PROVE  Marked(g, report)'
    <3>1. docs[g] # NoText =>
            \E x : /\ ShownAt(outbox', shown, g, x)
                   /\ report[g] \subseteq x
                   /\ focus' = g /\ Settled' => x = report[g]
      BY <1>2, <2>1
    <3> QED
      BY <3>1 DEF Marked
  <2> QED
    BY <2>1, <2>2
<1> QED
  BY <1>3 DEF MarksSent

(* An analysis tells the files that have marks, and the one it is about. *)
LEMMA MarksOfAnalysis ==
  ASSUME IInv, MarksSent, NEW target \in Files,
         NEW open \in [Files -> Texts \cup {NoText}], docs' = open, Analyze(target, open),
         \A f \in Files : f # target => docs'[f] = docs[f],
         shown' = shown, focus' = focus,
         Settled' /\ focus # Nothing => target = focus
  PROVE  MarksSent'
<1> DEFINE src == Sources(target, open)
<1>1. Gathered(src, open) /\ target \in DOMAIN src /\ sources' = src
  BY SourcesGathered DEF IInv, Analyze
<1>2. PICK report \in Reports(src) :
        outbox' = Append(outbox, [kind |-> "publishDiagnostics", shown |-> Published(target, report)])
  BY DEF Analyze
<1> DEFINE m == [kind |-> "publishDiagnostics", shown |-> Published(target, report)]
           D == {target} \cup {g \in DOMAIN report : report[g] # {}}
<1>3. report \in [DOMAIN src -> SUBSET Problems] /\ DOMAIN report = DOMAIN src
  BY <1>1, ReportType
<1>4. m.shown = [f \in D |-> report[f]] /\ m.kind = "publishDiagnostics"
  BY DEF Published
<1>5. m \in Outputs
  <2>1. Published(target, report) \in Marks
    BY <1>1, PublishedType
  <2> QED
    BY <2>1 DEF Outputs
<1>6. outbox' = Append(outbox, m) /\ outbox \in Seq(Outputs)
  BY <1>2 DEF IInv, Types
<1> HIDE DEF m
<1> HIDE DEF src
<1>7. ASSUME NEW f \in Files, docs'[f] # NoText
      PROVE  \E x : /\ ShownAt(outbox', shown, f, x)
                    /\ report[f] \subseteq x
                    /\ focus = f /\ Settled' => x = report[f]
  <2>1. f \in DOMAIN report
    BY <1>1, <1>3, <1>7 DEF Gathered
  <2>2. CASE f \in D
    <3>1. Tells(m, f) /\ m.shown[f] = report[f]
      BY <1>4, <2>2 DEF Tells
    <3>2. ShownAt(outbox', shown, f, report[f])
      BY <1>5, <1>6, <3>1, ShownTold
    <3> QED
      BY <3>2
  <2>3. CASE f \notin D
    <3>1. ~Tells(m, f) /\ f # target /\ report[f] = {}
      BY <1>4, <2>1, <2>3 DEF Tells
    <3>2. docs[f] # NoText
      BY <1>7, <3>1
    <3>3. PICK old \in Reports(sources) : Marked(f, old)
      BY <3>2 DEF MarksSent
    <3>4. PICK x : ShownAt(outbox, shown, f, x)
      BY <3>2, <3>3 DEF Marked
    <3>5. ShownAt(outbox', shown, f, x)
      BY <1>5, <1>6, <3>1, <3>4, ShownTold
    <3>6. ~(focus = f /\ Settled')
      BY <3>1, TextsAssumption
    <3> QED
      BY <3>1, <3>5, <3>6
  <2> QED
    BY <2>2, <2>3
<1> QED
  BY <1>1, <1>7 DEF MarksSent, Marked
LEMMA DInvAnalysis ==
  ASSUME DInv, handle_did_open \/ handle_did_change \/ handle_did_save
  PROVE  FocusLast' /\ MarksSent'
<1> DEFINE m == Head(inbox)
<1>1. /\ inbox # <<>> /\ inbox' = Tail(inbox)
      /\ m.kind \in {"didOpen", "didChange", "didSave"} /\ About(m)
      /\ UNCHANGED editor
  BY DEF handle_did_open, handle_did_change, handle_did_save, Take, About
<1>2. FocusLast' /\ (Settled' /\ focus # Nothing => m.file = focus)
  BY <1>1, FocusTaken DEF DInv, editor
<1>3. m.file \in Files
  BY <1>1, HeadFacts DEF DInv, IInv, Documents, Touches
<1>4. CASE handle_did_open \/ handle_did_change
  <2>1. docs' = [docs EXCEPT ![m.file] = m.text] /\ Analyze(m.file, docs')
    BY <1>4 DEF handle_did_open, handle_did_change
  <2>2. m.text \in Texts
    <3>1. m.kind \in {"didOpen", "didChange"}
      BY <1>4 DEF handle_did_open, handle_did_change, Take
    <3> QED
      BY <1>1, <3>1, HeadFacts DEF DInv, IInv, Documents
  <2>3. /\ docs' \in [Files -> Texts \cup {NoText}]
        /\ \A f \in Files : f # m.file => docs'[f] = docs[f]
    BY <1>3, <2>1, <2>2 DEF DInv, IInv, Types
  <2> HIDE DEF m
  <2> QED
    BY <1>1, <1>2, <1>3, <2>1, <2>3, MarksOfAnalysis DEF DInv, editor
<1>5. CASE handle_did_save
  <2>1. docs' = docs /\ Analyze(m.file, docs)
    BY <1>5 DEF handle_did_save
  <2>2. docs \in [Files -> Texts \cup {NoText}]
    BY DEF DInv, IInv, Types
  <2> HIDE DEF m
  <2> QED
    BY <1>1, <1>2, <1>3, <2>1, <2>2, MarksOfAnalysis DEF DInv, editor
<1> QED
  BY <1>2, <1>4, <1>5

LEMMA DInvClose ==
  ASSUME DInv, handle_did_close
  PROVE  FocusLast' /\ MarksSent'
<1> DEFINE m == Head(inbox)
           out == [kind |-> "publishDiagnostics", shown |-> [g \in {m.file} |-> {}]]
<1>1. /\ inbox # <<>> /\ inbox' = Tail(inbox) /\ m.kind = "didClose" /\ About(m)
      /\ UNCHANGED <<editor, sources>> /\ docs' = [docs EXCEPT ![m.file] = NoText]
      /\ outbox' = Append(outbox, out)
  BY DEF handle_did_close, Take, About
<1>2. FocusLast' /\ (Settled' => focus = Nothing)
  BY <1>1, FocusTaken DEF DInv, editor
<1>3. m.file \in Files
  BY <1>1, HeadFacts DEF DInv, IInv, Touches
<1>4. out \in Outputs /\ outbox \in Seq(Outputs)
  <2>1. {m.file} \in SUBSET Files /\ [g \in {m.file} |-> {}] \in [{m.file} -> SUBSET Problems]
    BY <1>3
  <2>2. [g \in {m.file} |-> {}] \in Marks
    BY <2>1 DEF Marks
  <2> QED
    BY <2>2 DEF Outputs, DInv, IInv, Types
<1>5. \A f : f # m.file => ~Tells(out, f)
  BY DEF Tells
<1>6. \A f \in Files : docs'[f] # NoText => f # m.file /\ docs[f] # NoText
  BY <1>1, <1>3 DEF DInv, IInv, Types
<1> HIDE DEF out
<1> HIDE DEF m
<1>7. ASSUME NEW f \in Files, docs'[f] # NoText
      PROVE  \E report \in Reports(sources') : \A g \in Files : Marked(g, report)'
  <2>1. PICK report \in Reports(sources) : \A g \in Files : Marked(g, report)
    BY <1>6, <1>7 DEF DInv, MarksSent
  <2>2. ASSUME NEW g \in Files, docs'[g] # NoText
        PROVE  \E x : /\ ShownAt(outbox', shown', g, x)
                      /\ report[g] \subseteq x
                      /\ focus' = g /\ Settled' => x = report[g]
    <3>1. PICK x : ShownAt(outbox, shown, g, x) /\ report[g] \subseteq x
      BY <1>6, <2>1, <2>2 DEF Marked
    <3>2. ShownAt(outbox', shown, g, x)
      BY <1>1, <1>4, <1>5, <1>6, <2>2, <3>1, ShownTold
    <3>3. shown' = shown /\ focus' = focus /\ g # Nothing
      BY <1>1, TextsAssumption DEF editor
    <3> QED
      BY <1>2, <3>1, <3>2, <3>3
  <2>3. \A g \in Files : Marked(g, report)'
    BY <2>2 DEF Marked
  <2> QED
    BY <1>1, <2>1, <2>3
<1> QED
  BY <1>2, <1>7 DEF MarksSent

LEMMA DInvOther ==
  ASSUME DInv, \/ handle_initialize \/ handle_shutdown \/ handle_query
               \/ handle_exit \/ end_of_input
  PROVE  FocusLast' /\ MarksSent'
<1>1. /\ inbox # <<>> /\ inbox' = Tail(inbox) /\ ~About(Head(inbox))
      /\ UNCHANGED <<editor, docs, sources>>
  BY DEF handle_initialize, handle_shutdown, handle_query, handle_exit, end_of_input,
         Take, About, server
<1>2. FocusLast' /\ (Settled' => Settled)
  BY <1>1, FocusTaken DEF DInv, editor
<1>3. \/ outbox' = outbox
      \/ \E m \in Outputs : m.kind = "response" /\ outbox' = Append(outbox, m)
  <2>1. CASE handle_exit \/ end_of_input
    BY <2>1 DEF handle_exit, end_of_input
  <2>2. CASE handle_initialize \/ handle_shutdown \/ handle_query
    <3>1. Respond(Head(inbox)) /\ Head(inbox) \in Questions \cup Formalities
      BY <1>1, <2>2, FormalStep, QueryStep, HeadFacts
         DEF handle_initialize, handle_shutdown, DInv, IInv
    <3>2. PICK a \in Answers(Head(inbox)) :
            outbox' = Append(outbox, [kind |-> "response", id |-> Head(inbox).id, result |-> a])
      BY <3>1 DEF Respond
    <3>3. a \in Results /\ Head(inbox).id \in Nat
      BY <3>1, <3>2, AnswersType DEF DInv, IInv, Questions, Formalities
    <3>4. [kind |-> "response", id |-> Head(inbox).id, result |-> a] \in Outputs
      BY <3>3 DEF Outputs
    <3> QED
      BY <3>2, <3>4
  <2> QED
    BY <2>1, <2>2
<1> QED
  BY <1>1, <1>2, <1>3, MarksKept DEF DInv, editor

(* The editor sends something. *)
LEMMA DInvSend ==
  ASSUME DInv, NEW m \in Messages, Send(m),
         IF About(m) THEN focus' = IF m.kind = "didClose" THEN Nothing ELSE m.file
         ELSE focus' = focus
  PROVE  FocusLast' /\ MarksSent'
<1>1. /\ inbox' = Append(inbox, m)
      /\ outbox' = outbox /\ UNCHANGED <<docs, sources, shown>>
  BY DEF Send, server
<1>2. IInv /\ FocusLast /\ MarksSent
  BY DEF DInv
<1>3. FocusLast' /\ (Settled' => Settled /\ focus' = focus)
  BY <1>1, <1>2, FocusSent
<1> QED
  BY <1>1, <1>2, <1>3, MarksKept

LEMMA DInvAsk ==
  ASSUME DInv, NEW kind, NEW f, NEW n, Ask(kind, f, n),
         \/ kind \in {"initialize", "shutdown"} /\ f = Nothing /\ n = Nothing
         \/ kind \in Queries /\ f \in Open(buffers) /\ n \in Names \cup {Keyword, Nothing}
  PROVE  FocusLast' /\ MarksSent'
<1> DEFINE text == IF f = Nothing THEN NoText ELSE buffers[f]
           m == [kind |-> kind, id |-> Len(answered'), file |-> f, name |-> n, text |-> text]
<1>1. answered' = Append(answered, 0) /\ Send(m) /\ focus' = focus
  BY DEF Ask
<1>2. Len(answered') \in Nat
  <2>1. answered \in Seq(Nat)
    BY DEF DInv, IInv, Types
  <2> QED
    BY <1>1, <2>1, AppendFacts
<1>3. m \in Messages
  <2>1. CASE kind \in {"initialize", "shutdown"} /\ f = Nothing /\ n = Nothing
    <3>1. m \in Formalities
      BY <1>2, <2>1 DEF Formalities
    <3> QED
      BY <3>1 DEF Messages
  <2>2. CASE kind \in Queries /\ f \in Open(buffers) /\ n \in Names \cup {Keyword, Nothing}
    <3>1. f \in Files /\ buffers[f] \in Texts /\ f # Nothing
      BY <2>2, TextsAssumption DEF Open, DInv, IInv, Types
    <3>2. m \in Questions
      BY <1>2, <2>2, <3>1 DEF Questions
    <3> QED
      BY <3>2 DEF Messages
  <2> QED
    BY <2>1, <2>2
<1>4. ~About(m)
  BY DEF About, Queries
<1> HIDE DEF m
<1> QED
  BY <1>1, <1>3, <1>4, DInvSend

LEMMA DInvEdit ==
  ASSUME DInv, NEW f \in Files, OpenFile(f) \/ ChangeFile(f) \/ SaveFile(f) \/ CloseFile(f)
  PROVE  FocusLast' /\ MarksSent'
<1>1. CASE OpenFile(f)
  <2> DEFINE m == [kind |-> "didOpen", file |-> f, text |-> disk[f]]
  <2>1. disk[f] \in Texts
    BY DEF DInv, IInv, Types
  <2>2. m \in Messages
    BY <2>1 DEF Messages, Documents
  <2>3. Send(m) /\ focus' = f
    BY <1>1 DEF OpenFile, Edit
  <2>4. About(m) /\ m.kind # "didClose" /\ m.file = f
    BY DEF About
  <2> HIDE DEF m
  <2> QED
    BY <2>2, <2>3, <2>4, DInvSend
<1>2. CASE ChangeFile(f)
  <2>1. PICK t \in Texts : Edit([kind |-> "didChange", file |-> f, text |-> t])
    BY <1>2 DEF ChangeFile
  <2> DEFINE m == [kind |-> "didChange", file |-> f, text |-> t]
  <2>2. m \in Messages
    BY DEF Messages, Documents
  <2>3. Send(m) /\ focus' = f
    BY <1>2, <2>1 DEF ChangeFile, Edit
  <2>4. About(m) /\ m.kind # "didClose" /\ m.file = f
    BY DEF About
  <2> HIDE DEF m
  <2> QED
    BY <2>2, <2>3, <2>4, DInvSend
<1>3. CASE SaveFile(f)
  <2> DEFINE m == [kind |-> "didSave", file |-> f]
  <2>1. m \in Messages
    BY DEF Messages, Touches
  <2>2. Send(m) /\ focus' = f
    BY <1>3 DEF SaveFile, Edit
  <2>3. About(m) /\ m.kind # "didClose" /\ m.file = f
    BY DEF About
  <2> HIDE DEF m
  <2> QED
    BY <2>1, <2>2, <2>3, DInvSend
<1>4. CASE CloseFile(f)
  <2> DEFINE m == [kind |-> "didClose", file |-> f]
  <2>1. m \in Messages
    BY DEF Messages, Touches
  <2>2. Send(m) /\ focus' = Nothing
    BY <1>4 DEF CloseFile, Edit
  <2>3. About(m) /\ m.kind = "didClose"
    BY DEF About
  <2> HIDE DEF m
  <2> QED
    BY <2>1, <2>2, <2>3, DInvSend
<1> QED
  BY <1>1, <1>2, <1>3, <1>4

LEMMA DInvEditor ==
  ASSUME DInv, Editor
  PROVE  FocusLast' /\ MarksSent'
<1>1. CASE Initialize \/ Shutdown
  BY <1>1, DInvAsk DEF Initialize, Shutdown
<1>2. CASE Query
  <2>1. PICK f \in Open(buffers) :
          \/ \E kind \in {"documentSymbol", "completion", "unknown"} : Ask(kind, f, Nothing)
          \/ \E kind \in {"definition", "typeDefinition"},
                n \in buffers[f].uses \cup {Keyword} : Ask(kind, f, n)
    BY <1>2 DEF Query
  <2>2. buffers[f].uses \subseteq Names
    BY <2>1, TextFacts DEF Open, DInv, IInv, Types
  <2>3. ASSUME NEW kind \in {"documentSymbol", "completion", "unknown"}, Ask(kind, f, Nothing)
        PROVE  FocusLast' /\ MarksSent'
    BY <2>1, <2>3, DInvAsk DEF Queries
  <2>4. ASSUME NEW kind \in {"definition", "typeDefinition"},
               NEW n \in buffers[f].uses \cup {Keyword}, Ask(kind, f, n)
        PROVE  FocusLast' /\ MarksSent'
    BY <2>1, <2>2, <2>4, DInvAsk DEF Queries
  <2> QED
    BY <2>1, <2>3, <2>4
<1>3. CASE Leave
  <2>1. PICK kind \in {"exit", "eof"} : Send([kind |-> kind])
    BY <1>3 DEF Leave
  <2> DEFINE m == [kind |-> kind]
  <2>2. m \in Messages
    BY DEF Messages, Ends
  <2>3. Send(m) /\ ~About(m) /\ focus' = focus
    BY <1>3, <2>1 DEF About, Leave
  <2> HIDE DEF m
  <2> QED
    BY <2>2, <2>3, DInvSend
<1> QED
  BY <1>1, <1>2, <1>3, DInvEdit DEF Editor

(* The editor reads: what it was to have in the end stays the same. *)
LEMMA DInvReceive ==
  ASSUME DInv, Receive
  PROVE  FocusLast' /\ MarksSent'
<1>1. /\ outbox # <<>> /\ outbox' = Tail(outbox)
      /\ UNCHANGED <<focus, inbox, docs, sources>>
  BY DEF Receive, server
<1>2. FocusLast' /\ (Settled' <=> Settled)
  BY <1>1 DEF DInv, FocusLast, Settled
<1>3. outbox \in Seq(Outputs) /\ Head(outbox) \in Outputs
  BY <1>1, TailFacts DEF DInv, IInv, Types
<1>4. ASSUME NEW f \in Files
      PROVE  shown'[f] = IF Tells(Head(outbox), f) THEN Head(outbox).shown[f] ELSE shown[f]
  <2>1. CASE Head(outbox).kind = "response"
    BY <2>1 DEF Receive, Tells
  <2>2. CASE Head(outbox).kind # "response"
    <3>1. Head(outbox).kind = "publishDiagnostics"
      BY <1>3, <2>2 DEF Outputs
    <3>2. shown' = [g \in Files |-> IF g \in DOMAIN Head(outbox).shown
                                   THEN Head(outbox).shown[g] ELSE shown[g]]
      BY <2>2 DEF Receive
    <3> QED
      BY <3>1, <3>2 DEF Tells
  <2> QED
    BY <2>1, <2>2
<1>5. ASSUME NEW f \in Files, NEW x, ShownAt(outbox, shown, f, x)
      PROVE  ShownAt(outbox', shown', f, x)
  BY <1>1, <1>3, <1>4, <1>5, ShownRead
<1>6. ASSUME NEW f \in Files, docs'[f] # NoText
      PROVE  \E report \in Reports(sources') : \A g \in Files : Marked(g, report)'
  <2>1. PICK report \in Reports(sources) : \A g \in Files : Marked(g, report)
    BY <1>1, <1>6 DEF DInv, MarksSent
  <2>2. ASSUME NEW g \in Files, docs'[g] # NoText
        PROVE  \E x : /\ ShownAt(outbox', shown', g, x)
                      /\ report[g] \subseteq x
                      /\ focus' = g /\ Settled' => x = report[g]
    <3>1. PICK x : /\ ShownAt(outbox, shown, g, x)
                   /\ report[g] \subseteq x
                   /\ focus = g /\ Settled => x = report[g]
      BY <1>1, <2>1, <2>2 DEF Marked
    <3>2. ShownAt(outbox', shown', g, x)
      BY <1>5, <3>1
    <3> QED
      BY <1>1, <1>2, <3>1, <3>2
  <2>3. \A g \in Files : Marked(g, report)'
    BY <2>2 DEF Marked
  <2> QED
    BY <1>1, <2>1, <2>3
<1> QED
  BY <1>2, <1>6 DEF MarksSent

LEMMA NextDInv == DInv /\ [Next]_vars => DInv'
<1> SUFFICES ASSUME DInv, [Next]_vars PROVE DInv'
  OBVIOUS
<1>1. IInv'
  BY NextIInv DEF DInv
<1>2. CASE process_message
  BY <1>1, <1>2, DInvAnalysis, DInvClose, DInvOther DEF process_message, DInv
<1>3. CASE Receive
  BY <1>1, <1>3, DInvReceive DEF DInv
<1>4. CASE Editor
  BY <1>1, <1>4, DInvEditor DEF DInv
<1>5. CASE UNCHANGED vars
  <2>1. UNCHANGED <<focus, inbox, outbox, docs, sources, shown>>
    BY <1>5 DEF vars, editor, server
  <2>2. FocusLast'
    BY <2>1 DEF DInv, FocusLast, Settled
  <2>3. Settled' => Settled /\ focus' = focus
    BY <2>1 DEF Settled
  <2>4. MarksSent'
    BY <2>1, <2>3, MarksKept DEF DInv
  <2> QED
    BY <1>1, <2>2, <2>4 DEF DInv
<1> QED
  BY <1>2, <1>3, <1>4, <1>5 DEF Next

LEMMA InitDInv == Init => DInv
<1> SUFFICES ASSUME Init PROVE DInv
  OBVIOUS
<1>1. FocusLast
  BY DEF Init, FocusLast
<1>2. MarksSent
  BY DEF Init, MarksSent
<1> QED
  BY <1>1, <1>2, InitIInv DEF DInv

(* When nothing is under way, every open file was last analysed as the editor
   shows it, is marked with at least the problems found in it, and with no
   others if it is the one in which the user works. *)
THEOREM DiagnosticsAreShown == Spec => []DiagnosticsShown
<1>1. ASSUME DInv, inbox = <<>>, outbox = <<>>, Open(buffers) # {}
      PROVE  /\ \A f \in Open(buffers) : f \in DOMAIN sources /\ sources[f] = buffers[f]
             /\ \E report \in Reports(sources) : \A f \in Open(buffers) :
                  /\ report[f] \subseteq shown[f]
                  /\ f = focus => shown[f] = report[f]
  <2>1. Len(inbox) = 0 /\ Len(outbox) = 0
    BY <1>1
  <2>2. Settled
    BY <2>1 DEF Settled
  <2>3. \A f \in Files : docs[f] = buffers[f]
    <3>1. 1..((0 + 1) - 1) = {}
      OBVIOUS
    <3> QED
      BY <1>1, <2>1, <3>1 DEF DInv, IInv, Follows, EditorsText, TextAt
  <2>4. \A f \in Open(buffers) : f \in Files /\ docs[f] # NoText
    BY <2>3 DEF Open
  <2>5. \A f \in Open(buffers) : f \in DOMAIN sources /\ sources[f] = buffers[f]
    BY <1>1, <2>3, <2>4 DEF DInv, IInv, Analysed
  <2>6. PICK report \in Reports(sources) : \A f \in Files : Marked(f, report)
    BY <1>1, <2>4 DEF DInv, MarksSent
  <2>7. ASSUME NEW f \in Open(buffers)
        PROVE  report[f] \subseteq shown[f] /\ (f = focus => shown[f] = report[f])
    <3>1. PICK x : /\ ShownAt(outbox, shown, f, x)
                   /\ report[f] \subseteq x
                   /\ focus = f /\ Settled => x = report[f]
      BY <2>4, <2>6, <2>7 DEF Marked
    <3>2. 1..0 = {}
      OBVIOUS
    <3>3. x = shown[f]
      BY <2>1, <3>1, <3>2 DEF ShownAt
    <3> QED
      BY <2>2, <3>1, <3>3
  <2> QED
    BY <2>5, <2>6, <2>7
<1>2. DInv => DiagnosticsShown
  BY <1>1 DEF DiagnosticsShown
<1> QED
  BY <1>2, InitDInv, NextDInv, PTL DEF Spec

=============================================================================
