--------------------------- MODULE AAFFileProofs ---------------------------
(***************************************************************************)
(* What is proved of AAFFile, for any number of clients and any bound on   *)
(* the versions.  The signature protocol is safe when finding a document   *)
(* recognised and erasing its signature are not interleaved with another   *)
(* open (OpensOverlap = FALSE), on every platform, whether it enforces the *)
(* sharing modes or not, provided a crash loses no writes: the document is *)
(* a named file, or nobody crashes.                                        *)
(***************************************************************************)
EXTENDS AAFFile, TLAPS

(***************************************************************************)
(* The inductive invariant                                                 *)
(***************************************************************************)

\* A writer's file that closing would sign holds what was last saved.
ValidMeansSaved ==
  \A f \in Client :
    /\ Writing(f)
    /\ \/ phase[f] = "unsigned"
       \/ /\ isValid[f]
          /\ phase[f] \in {"attached", "open", "saving", "stamping", "abandoning"}
    => document.content = lastSaved

\* A client that found the document recognised can rely on it until it opens
\* it, because no other client is opening it.
RecognitionHolds ==
  /\ \A f, g \in Client : Opening(f) /\ Opening(g) => f = g
  /\ \A f \in Client :
       phase[f] \in {"checked", "recognized"} => document.signed

\* Only writers save, and what they write exists.
WritersHaveDocument ==
  \A f \in Client :
    /\ phase[f] \in {"unsigned", "saving"} => mode[f] = "modify"
    /\ Writing(f) => document.content # Absent

\* Who holds the document's root storage; a raw storage that could not be
\* opened is held but not signed.
HoldersAreOpen ==
  \A f \in Client : holds[f] =>
    /\ phase[f] \in {"created", "attached", "open", "saving", "lost"}
    /\ phase[f] = "created" /\ mode[f] = "modify" =>
         ~document.signed /\ document.content # Absent

\* The two kinds of document: a named file has no cache, a raw storage has
\* one client, which lays out a new document only to modify it.
KindsOfDocument ==
  /\ Named => disk = document /\ \A f \in Client : phase[f] # "created"
  /\ ~Named => \A f, g \in Client :
       /\ ~Opening(f) /\ phase[f] # "abandoning"
       /\ phase[f] # "none" /\ phase[g] # "none" => f = g
       /\ phase[f] = "created" /\ isNew[f] => mode[f] = "modify"

IInv ==
  /\ TypeOK
  /\ RecognizedMeansSaved
  /\ WritersHideDocument
  /\ ValidMeansSaved
  /\ RecognitionHolds
  /\ WritersHaveDocument
  /\ HoldersAreOpen
  /\ KindsOfDocument

(***************************************************************************)
(* What the helpers do                                                     *)
(***************************************************************************)

\* Writing a signature changes the signature of the document and no contents;
\* a named file has it on disk at once.
LEMMA SignatureWritten ==
  ASSUME TypeOK, NEW s \in BOOLEAN, WriteSignature(s)
  PROVE  /\ document' \in Document /\ disk' \in Document
         /\ document'.signed = s /\ document'.content = document.content
         /\ Named => disk' = document'
         /\ ~Named => disk' = disk
<1> USE DEF TypeOK, Document, WriteSignature, Put
<1> DEFINE d == [document EXCEPT !.signed = s]
<1>1. d \in Document /\ d.signed = s /\ d.content = document.content
  OBVIOUS
<1>2. document' = d /\ disk' = IF Named THEN d ELSE disk
  OBVIOUS
<1> HIDE DEF d
<1> QED
  BY <1>1, <1>2

\* Writing contents leaves the signature as it is.
LEMMA ContentWritten ==
  ASSUME TypeOK, NEW c \in Content, PutContent(c)
  PROVE  /\ document' \in Document /\ disk' \in Document
         /\ document'.signed = document.signed /\ document'.content = c
         /\ Named => disk' = document'
         /\ ~Named => disk' = disk
<1> USE DEF TypeOK, Document, PutContent, Put
<1> DEFINE d == [document EXCEPT !.content = c]
<1>1. d \in Document /\ d.signed = document.signed /\ d.content = c
  OBVIOUS
<1>2. document' = d /\ disk' = IF Named THEN d ELSE disk
  OBVIOUS
<1> HIDE DEF d
<1> QED
  BY <1>1, <1>2

\* Every step keeps the types.
LEMMA TypeStep == TypeOK /\ [Next]_vars => TypeOK'
<1> SUFFICES ASSUME TypeOK, [Next]_vars PROVE TypeOK'
  OBVIOUS
<1> USE FileAssumption DEF TypeOK, Document, Content, Version, Phase, Move, Set, Put, PutContent, WriteSignature, Change, Closed, objectVars, dictionaryVars, documentVars, historyVars, Torn, Absent
<1>1. ASSUME NEW f \in Client, NEW m \in {"read", "modify"}, IsAAFFile(f, m)
      PROVE  TypeOK'
  BY <1>1 DEF IsAAFFile
<1>2. ASSUME NEW f \in Client, IsRecognized(f) PROVE TypeOK'
  BY <1>2 DEF IsRecognized
<1>3. ASSUME NEW f \in Client, Unsign(f) PROVE TypeOK'
  <2>1. CASE MayWrite(f)
    <3>2. document' \in Document /\ disk' \in Document
      <4>1. WriteSignature(FALSE)
        BY <1>3, <2>1 DEF Unsign
      <4> QED
        BY <4>1, SignatureWritten
    <3>3. UNCHANGED <<mode, isNew, isValid, head, memory, holds, registration,
                      regWasEnabled, version, lastSaved>>
      BY <1>3 DEF Unsign
    <3>4. phase' \in [Client -> Phase]
      BY <1>3, <2>1 DEF Unsign
    <3> QED
      BY <3>2, <3>3, <3>4
  <2>2. CASE ~MayWrite(f)
    BY <1>3, <2>2 DEF Unsign
  <2> QED
    BY <2>1, <2>2
<1>4. ASSUME NEW f \in Client, Attach(f) PROVE TypeOK'
  <2>1. CASE UNCHANGED <<objectVars, holds, registration>>
    BY <1>4, <2>1 DEF Attach
  <2>2. CASE Restores(document.content) /\ Move(f, "attached")
    <3>1. document.content \in Version \cup {Torn}
      BY <2>2 DEF Restores
    <3> QED
      BY <1>4, <2>2, <3>1, ZenonT(30) DEF Attach
  <2>3. CASE RestoreThrows(document.content) /\ Move(f, "lost")
    BY <1>4, <2>3, ZenonT(30) DEF Attach
  <2> QED
    BY <1>4, <2>1, <2>2, <2>3 DEF Attach
<1>5. ASSUME NEW f \in Client, OpenNew(f) PROVE TypeOK'
  BY <1>5 DEF OpenNew
<1>6. ASSUME NEW f \in Client, Finish(f) PROVE TypeOK'
  BY <1>6 DEF Finish
<1>7. ASSUME NEW f \in Client, FinishFails(f) PROVE TypeOK'
  <2>1. CASE Named
    BY <1>7, <2>1, ZenonT(30) DEF FinishFails
  <2>2. CASE ~Named
    <3>1. PICK h \in BOOLEAN, r \in BOOLEAN :
            /\ head' = Set(head, f, h)
            /\ registration' = Set(registration, f, r)
      BY <1>7, <2>2 DEF FinishFails
    <3> QED
      BY <1>7, <2>2, <3>1 DEF FinishFails
  <2> QED
    BY <2>1, <2>2
<1>8. ASSUME NEW f \in Client, FinishThrows(f) PROVE TypeOK'
  BY <1>8 DEF FinishThrows
<1>9. ASSUME NEW f \in Client, NEW m \in {"read", "modify"},
             NEW new \in BOOLEAN, Create(f, m, new)
      PROVE  TypeOK'
  BY <1>9 DEF Create
<1>10. ASSUME NEW f \in Client, OpenCreated(f) PROVE TypeOK'
  BY <1>10 DEF OpenCreated
<1>11. ASSUME NEW f \in Client, OpenExisting(f) PROVE TypeOK'
  <2>1. document' \in Document /\ disk' \in Document
    <3>1. CASE mode[f] = "modify"
      <4>1. WriteSignature(FALSE)
        BY <1>11, <3>1 DEF OpenExisting
      <4> QED
        BY <4>1, SignatureWritten
    <3>2. CASE mode[f] # "modify"
      BY <1>11, <3>2 DEF OpenExisting
    <3> QED
      BY <3>1, <3>2
  <2>2. holds' \in [Client -> BOOLEAN]
    BY <1>11 DEF OpenExisting
  <2>3. memory' \in [Client -> Version \cup {Torn}]
    BY <1>11 DEF OpenExisting, Restores
  <2> QED
    BY <1>11, <2>1, <2>2, <2>3 DEF OpenExisting
<1>12. ASSUME NEW f \in Client, Edit(f) PROVE TypeOK'
  BY <1>12 DEF Edit
<1>13. ASSUME NEW f \in Client, SaveBegin(f) PROVE TypeOK'
  BY <1>13 DEF SaveBegin
<1>14. ASSUME NEW f \in Client, SaveEnd(f) PROVE TypeOK'
  BY <1>14 DEF SaveEnd
<1>15. ASSUME NEW f \in Client, SaveFails(f) PROVE TypeOK'
  BY <1>15 DEF SaveFails
<1>16. ASSUME NEW f \in Client, Close(f) PROVE TypeOK'
  BY <1>16 DEF Close
<1>17. ASSUME NEW f \in Client, Stamp(f) PROVE TypeOK'
  BY <1>17 DEF Stamp
<1>18. ASSUME NEW f \in Client, StampNothing(f) PROVE TypeOK'
  BY <1>18 DEF StampNothing
<1>19. ASSUME NEW f \in Client, StampFails(f) PROVE TypeOK'
  BY <1>19 DEF StampFails
<1>20. ASSUME NEW f \in Client, Release(f) PROVE TypeOK'
  BY <1>20 DEF Release
<1>21. ASSUME NEW f \in Client, Crash(f) PROVE TypeOK'
  BY <1>21 DEF Crash
<1>22. CASE Evict
  BY <1>22 DEF Evict
<1>23. CASE UNCHANGED vars
  BY <1>23 DEF vars
<1> QED
  BY <1>1, <1>2, <1>3, <1>4, <1>5, <1>6, <1>7, <1>8, <1>9, <1>10, <1>11, <1>12, <1>13, <1>14, <1>15, <1>16, <1>17, <1>18, <1>19, <1>20, <1>21, <1>22, <1>23 DEF Next, Step

(***************************************************************************)
(* Every step keeps the inductive invariant                                *)
(***************************************************************************)

\* What the theorems assume of the clients: no two of them are opening the
\* document at a time, and those of a raw storage do not crash.
Serialized == OpensOverlap = FALSE /\ (Named \/ MayCrash = FALSE)

\* Another client may start to open the document only when nobody else is
\* opening it, and what it relies on is what it has just looked at.
LEMMA IsAAFFileStep ==
  ASSUME Serialized, IInv, TypeOK', NEW f \in Client, NEW m \in {"read", "modify"},
         IsAAFFile(f, m)
  PROVE  IInv'
<1> USE DEF TypeOK, Document, IInv, Serialized, Writing, Opening, Move, Set,
            documentVars, historyVars, IsAAFFile
<1>1. /\ RecognizedMeansSaved'
      /\ WritersHideDocument'
      /\ ValidMeansSaved'
      /\ RecognitionHolds'
      /\ WritersHaveDocument'
      /\ HoldersAreOpen'
      /\ KindsOfDocument'
  BY DEF RecognizedMeansSaved, WritersHideDocument, ValidMeansSaved,
         RecognitionHolds, WritersHaveDocument, HoldersAreOpen, KindsOfDocument
<1> QED
  BY <1>1

\* Looking again at the file can only end the opening.
LEMMA IsRecognizedStep ==
  ASSUME Serialized, IInv, TypeOK', NEW f \in Client, IsRecognized(f)
  PROVE  IInv'
<1> USE DEF TypeOK, Document, IInv, Serialized, Writing, Opening, Move,
            objectVars, dictionaryVars, documentVars, historyVars, IsRecognized
<1>1. /\ RecognizedMeansSaved'
      /\ WritersHideDocument'
      /\ ValidMeansSaved'
      /\ RecognitionHolds'
      /\ WritersHaveDocument'
      /\ HoldersAreOpen'
      /\ KindsOfDocument'
  BY DEF RecognizedMeansSaved, WritersHideDocument, ValidMeansSaved,
         RecognitionHolds, WritersHaveDocument, HoldersAreOpen, KindsOfDocument
<1> QED
  BY <1>1

\* The document was recognised, hence what was last saved, and no writer had
\* it; it is hidden from here on.
LEMMA UnsignStep ==
  ASSUME Serialized, IInv, TypeOK', NEW f \in Client, Unsign(f)
  PROVE  IInv'
<1> USE DEF TypeOK, Document, IInv, Serialized, Writing, Opening, Move,
            WriteSignature, Put, objectVars, dictionaryVars, documentVars,
            historyVars, Unsign
<1>1. /\ RecognizedMeansSaved'
      /\ RecognitionHolds'
      /\ HoldersAreOpen'
      /\ KindsOfDocument'
  BY DEF RecognizedMeansSaved, RecognitionHolds, HoldersAreOpen,
         KindsOfDocument
<1>2. WritersHideDocument'
  BY DEF WritersHideDocument, RecognitionHolds
<1>3. ValidMeansSaved'
  BY DEF RecognizedMeansSaved, ValidMeansSaved, RecognitionHolds
<1>4. WritersHaveDocument'
  BY DEF RecognizedMeansSaved, RecognitionHolds, WritersHaveDocument, Content,
         Version, Torn, Absent
<1> QED
  BY <1>1, <1>2, <1>3, <1>4

\* The root storage is opened on a document that its writer has hidden.
LEMMA AttachStep ==
  ASSUME Serialized, IInv, TypeOK', NEW f \in Client, Attach(f)
  PROVE  IInv'
<1> USE DEF TypeOK, Document, IInv, Serialized, Writing, Opening, Move, Set,
            objectVars, documentVars, historyVars, Attach
<1>1. RecognizedMeansSaved'
  BY DEF RecognizedMeansSaved
<1>2. WritersHideDocument'
  BY DEF WritersHideDocument
<1>3. ValidMeansSaved'
  BY DEF ValidMeansSaved
<1>4. RecognitionHolds'
  BY DEF RecognitionHolds
<1>5. WritersHaveDocument'
  BY DEF WritersHaveDocument
<1>6. HoldersAreOpen'
  BY DEF HoldersAreOpen
<1>7. KindsOfDocument'
  BY DEF KindsOfDocument
<1> QED
  BY <1>1, <1>2, <1>3, <1>4, <1>5, <1>6, <1>7

\* There was no document, so nobody was using it or opening it.
LEMMA OpenNewStep ==
  ASSUME Serialized, IInv, TypeOK', NEW f \in Client, OpenNew(f)
  PROVE  IInv'
<1> USE DEF TypeOK, Document, IInv, Serialized, Writing, Opening, Move, Set,
            Put, Change, OpenNew
<1>1. /\ RecognizedMeansSaved'
      /\ ValidMeansSaved'
      /\ HoldersAreOpen'
      /\ KindsOfDocument'
  BY DEF RecognizedMeansSaved, ValidMeansSaved, HoldersAreOpen, KindsOfDocument
<1>2. WritersHideDocument'
  BY DEF WritersHideDocument, WritersHaveDocument
<1>3. RecognitionHolds'
  BY DEF RecognizedMeansSaved, RecognitionHolds, Content, Version, Torn, Absent
<1>4. WritersHaveDocument'
  BY DEF WritersHaveDocument, Content, Version, Torn, Absent
<1> QED
  BY <1>1, <1>2, <1>3, <1>4

\* The end of an open call touches the objects in memory only.
LEMMA FinishStep ==
  ASSUME Serialized, IInv, TypeOK', NEW f \in Client, Finish(f)
  PROVE  IInv'
<1> USE DEF TypeOK, Document, IInv, Serialized, Writing, Opening, Move, Set,
            Change, documentVars, Finish
<1>1. /\ RecognizedMeansSaved'
      /\ WritersHideDocument'
      /\ ValidMeansSaved'
      /\ RecognitionHolds'
      /\ WritersHaveDocument'
      /\ HoldersAreOpen'
      /\ KindsOfDocument'
  BY DEF RecognizedMeansSaved, WritersHideDocument, ValidMeansSaved,
         RecognitionHolds, WritersHaveDocument, HoldersAreOpen, KindsOfDocument
<1> QED
  BY <1>1

\* A failed open keeps the document hidden until it has been closed.
LEMMA FinishFailsStep ==
  ASSUME Serialized, IInv, TypeOK', NEW f \in Client, FinishFails(f)
  PROVE  IInv'
<1> USE DEF TypeOK, Document, IInv, Serialized, Writing, Opening, Move, Set,
            documentVars, historyVars, FinishFails
<1>1. /\ RecognizedMeansSaved'
      /\ WritersHideDocument'
      /\ ValidMeansSaved'
      /\ RecognitionHolds'
      /\ WritersHaveDocument'
      /\ HoldersAreOpen'
      /\ KindsOfDocument'
  BY SMTT(30)
     DEF RecognizedMeansSaved, WritersHideDocument, ValidMeansSaved,
         RecognitionHolds, WritersHaveDocument, HoldersAreOpen, KindsOfDocument
<1> QED
  BY <1>1

\* A file object nobody can reach keeps the document hidden.
LEMMA FinishThrowsStep ==
  ASSUME Serialized, IInv, TypeOK', NEW f \in Client, FinishThrows(f)
  PROVE  IInv'
<1> USE DEF TypeOK, Document, IInv, Serialized, Writing, Opening, Move,
            objectVars, dictionaryVars, documentVars, historyVars, FinishThrows
<1>1. /\ RecognizedMeansSaved'
      /\ WritersHideDocument'
      /\ ValidMeansSaved'
      /\ RecognitionHolds'
      /\ WritersHaveDocument'
      /\ HoldersAreOpen'
      /\ KindsOfDocument'
  BY DEF RecognizedMeansSaved, WritersHideDocument, ValidMeansSaved,
         RecognitionHolds, WritersHaveDocument, HoldersAreOpen, KindsOfDocument
<1> QED
  BY <1>1

\* An OMFile on a raw storage that has not been opened has written nothing.
LEMMA CreateStep ==
  ASSUME Serialized, IInv, TypeOK', NEW f \in Client, NEW m \in {"read", "modify"},
         NEW new \in BOOLEAN, Create(f, m, new)
  PROVE  IInv'
<1> USE DEF TypeOK, Document, IInv, Serialized, Writing, Opening, Move, Set,
            documentVars, historyVars, Create
<1>1. /\ RecognizedMeansSaved'
      /\ WritersHideDocument'
      /\ ValidMeansSaved'
      /\ RecognitionHolds'
      /\ WritersHaveDocument'
      /\ HoldersAreOpen'
      /\ KindsOfDocument'
  BY DEF RecognizedMeansSaved, WritersHideDocument, ValidMeansSaved,
         RecognitionHolds, WritersHaveDocument, HoldersAreOpen, KindsOfDocument
<1> QED
  BY <1>1

\* The raw storage is this client's alone, and laid out anew.
LEMMA OpenCreatedStep ==
  ASSUME Serialized, IInv, TypeOK', NEW f \in Client, OpenCreated(f)
  PROVE  IInv'
<1> USE DEF TypeOK, Document, IInv, Serialized, Writing, Opening, Move, Set,
            Put, Change, dictionaryVars, OpenCreated
<1>1. /\ RecognizedMeansSaved'
      /\ ValidMeansSaved'
      /\ KindsOfDocument'
  BY DEF RecognizedMeansSaved, ValidMeansSaved, KindsOfDocument
<1>2. WritersHideDocument'
  BY DEF WritersHideDocument, KindsOfDocument
<1>3. RecognitionHolds'
  BY DEF RecognitionHolds, KindsOfDocument
<1>4. WritersHaveDocument'
  BY DEF WritersHaveDocument, Content, Version, Torn, Absent
<1>5. HoldersAreOpen'
  BY DEF HoldersAreOpen, KindsOfDocument
<1> QED
  BY <1>1, <1>2, <1>3, <1>4, <1>5

\* Opened or not, a document to be modified is hidden.
LEMMA OpenExistingStep ==
  ASSUME Serialized, IInv, TypeOK', NEW f \in Client, OpenExisting(f)
  PROVE  IInv'
<1> USE DEF TypeOK, Document, IInv, Serialized, Writing, Opening, Move, Set,
            WriteSignature, Put, documentVars, historyVars, OpenExisting
<1>1. /\ RecognizedMeansSaved'
      /\ WritersHideDocument'
      /\ KindsOfDocument'
  BY DEF RecognizedMeansSaved, WritersHideDocument, KindsOfDocument
<1>2. ValidMeansSaved'
  BY DEF RecognizedMeansSaved, ValidMeansSaved
<1>3. RecognitionHolds'
  BY DEF RecognitionHolds, KindsOfDocument
<1>4. WritersHaveDocument'
  BY DEF WritersHaveDocument, Content, Version, Torn, Absent
<1>5. HoldersAreOpen'
  BY DEF RecognizedMeansSaved, HoldersAreOpen, Content, Version, Torn, Absent
<1> QED
  BY <1>1, <1>2, <1>3, <1>4, <1>5

\* Edits stay in memory.
LEMMA EditStep ==
  ASSUME Serialized, IInv, TypeOK', NEW f \in Client, Edit(f)
  PROVE  IInv'
<1> USE DEF TypeOK, Document, IInv, Serialized, Writing, Opening, Set, Change,
            dictionaryVars, documentVars, Edit
<1>1. /\ RecognizedMeansSaved'
      /\ WritersHideDocument'
      /\ ValidMeansSaved'
      /\ RecognitionHolds'
      /\ WritersHaveDocument'
      /\ HoldersAreOpen'
      /\ KindsOfDocument'
  BY DEF RecognizedMeansSaved, WritersHideDocument, ValidMeansSaved,
         RecognitionHolds, WritersHaveDocument, HoldersAreOpen, KindsOfDocument
<1> QED
  BY <1>1

\* A save tears the contents of a hidden document, and marks the file
\* invalid before it does.
LEMMA SaveBeginStep ==
  ASSUME Serialized, IInv, TypeOK', NEW f \in Client, SaveBegin(f)
  PROVE  IInv'
<1> USE DEF TypeOK, Document, IInv, Serialized, Writing, Opening, Move, Set,
            PutContent, Put, documentVars, historyVars, SaveBegin
<1>1. /\ WritersHideDocument'
      /\ RecognitionHolds'
      /\ KindsOfDocument'
  BY DEF WritersHideDocument, RecognitionHolds, KindsOfDocument
<1>2. RecognizedMeansSaved'
  BY DEF RecognizedMeansSaved, WritersHideDocument
<1>3. ValidMeansSaved'
  BY DEF WritersHideDocument, ValidMeansSaved
<1>4. WritersHaveDocument'
  BY DEF WritersHaveDocument, Content, Version, Torn, Absent
<1>5. HoldersAreOpen'
  BY DEF HoldersAreOpen, KindsOfDocument
<1> QED
  BY <1>1, <1>2, <1>3, <1>4, <1>5

\* A file is valid again when its document holds all that was saved.
LEMMA SaveEndStep ==
  ASSUME Serialized, IInv, TypeOK', NEW f \in Client, SaveEnd(f)
  PROVE  IInv'
<1> USE DEF TypeOK, Document, IInv, Serialized, Writing, Opening, Move, Set,
            PutContent, Put, SaveEnd
<1>1. /\ RecognizedMeansSaved'
      /\ WritersHideDocument'
      /\ ValidMeansSaved'
      /\ RecognitionHolds'
      /\ KindsOfDocument'
  BY DEF RecognizedMeansSaved, WritersHideDocument, ValidMeansSaved,
         RecognitionHolds, KindsOfDocument
<1>2. WritersHaveDocument'
  BY DEF WritersHaveDocument, Content, Version, Torn, Absent
<1>3. HoldersAreOpen'
  BY DEF HoldersAreOpen, KindsOfDocument
<1> QED
  BY <1>1, <1>2, <1>3

\* A save that fails leaves its file invalid.
LEMMA SaveFailsStep ==
  ASSUME Serialized, IInv, TypeOK', NEW f \in Client, SaveFails(f)
  PROVE  IInv'
<1> USE DEF TypeOK, Document, IInv, Serialized, Writing, Opening, Move,
            objectVars, dictionaryVars, documentVars, historyVars, SaveFails
<1>1. /\ RecognizedMeansSaved'
      /\ WritersHideDocument'
      /\ ValidMeansSaved'
      /\ RecognitionHolds'
      /\ WritersHaveDocument'
      /\ HoldersAreOpen'
      /\ KindsOfDocument'
  BY DEF RecognizedMeansSaved, WritersHideDocument, ValidMeansSaved,
         RecognitionHolds, WritersHaveDocument, HoldersAreOpen, KindsOfDocument
<1> QED
  BY <1>1

\* Closing the root storage keeps the document hidden.
LEMMA CloseStep ==
  ASSUME Serialized, IInv, TypeOK', NEW f \in Client, Close(f)
  PROVE  IInv'
<1> USE DEF TypeOK, Document, IInv, Serialized, Writing, Opening, Move, Set,
            objectVars, dictionaryVars, documentVars, historyVars, Close
<1>1. /\ RecognizedMeansSaved'
      /\ WritersHideDocument'
      /\ ValidMeansSaved'
      /\ RecognitionHolds'
      /\ WritersHaveDocument'
      /\ HoldersAreOpen'
      /\ KindsOfDocument'
  BY DEF RecognizedMeansSaved, WritersHideDocument, ValidMeansSaved,
         RecognitionHolds, WritersHaveDocument, HoldersAreOpen, KindsOfDocument
<1> QED
  BY <1>1

\* Only a valid file signs its document, which then holds what was saved.
LEMMA StampStep ==
  ASSUME Serialized, IInv, TypeOK', NEW f \in Client, Stamp(f)
  PROVE  IInv'
<1> USE DEF TypeOK, Document, IInv, Serialized, Writing, Opening, Move, Set,
            Closed, dictionaryVars, historyVars, Stamp
<1>1. /\ WritersHideDocument'
      /\ ValidMeansSaved'
      /\ RecognitionHolds'
      /\ WritersHaveDocument'
      /\ KindsOfDocument'
  BY DEF WritersHideDocument, ValidMeansSaved, RecognitionHolds,
         WritersHaveDocument, KindsOfDocument
<1>2. RecognizedMeansSaved'
  BY DEF RecognizedMeansSaved, ValidMeansSaved
<1>3. HoldersAreOpen'
  BY DEF HoldersAreOpen, KindsOfDocument
<1> QED
  BY <1>1, <1>2, <1>3

\* A file that is invalid or only read leaves the signature as it is.
LEMMA StampNothingStep ==
  ASSUME Serialized, IInv, TypeOK', NEW f \in Client, StampNothing(f)
  PROVE  IInv'
<1> USE DEF TypeOK, Document, IInv, Serialized, Writing, Opening, Move, Set,
            Closed, dictionaryVars, documentVars, historyVars, StampNothing
<1>1. /\ RecognizedMeansSaved'
      /\ WritersHideDocument'
      /\ ValidMeansSaved'
      /\ RecognitionHolds'
      /\ WritersHaveDocument'
      /\ HoldersAreOpen'
      /\ KindsOfDocument'
  BY DEF RecognizedMeansSaved, WritersHideDocument, ValidMeansSaved,
         RecognitionHolds, WritersHaveDocument, HoldersAreOpen, KindsOfDocument
<1> QED
  BY <1>1

\* A signature that could not be written leaves the document hidden.
LEMMA StampFailsStep ==
  ASSUME Serialized, IInv, TypeOK', NEW f \in Client, StampFails(f)
  PROVE  IInv'
<1> USE DEF TypeOK, Document, IInv, Serialized, Writing, Opening, Move,
            objectVars, dictionaryVars, documentVars, historyVars, StampFails
<1>1. /\ RecognizedMeansSaved'
      /\ WritersHideDocument'
      /\ ValidMeansSaved'
      /\ RecognitionHolds'
      /\ WritersHaveDocument'
      /\ HoldersAreOpen'
      /\ KindsOfDocument'
  BY DEF RecognizedMeansSaved, WritersHideDocument, ValidMeansSaved,
         RecognitionHolds, WritersHaveDocument, HoldersAreOpen, KindsOfDocument
<1> QED
  BY <1>1

\* Releasing a file object writes nothing new to the document.
LEMMA ReleaseStep ==
  ASSUME Serialized, IInv, TypeOK', NEW f \in Client, Release(f)
  PROVE  IInv'
<1> USE DEF TypeOK, Document, IInv, Serialized, Writing, Opening, Move,
            objectVars, dictionaryVars, historyVars, Release
<1>1. /\ RecognizedMeansSaved'
      /\ ValidMeansSaved'
      /\ RecognitionHolds'
      /\ HoldersAreOpen'
      /\ KindsOfDocument'
  BY DEF RecognizedMeansSaved, ValidMeansSaved, RecognitionHolds,
         HoldersAreOpen, KindsOfDocument
<1>2. WritersHideDocument'
  BY DEF WritersHideDocument, HoldersAreOpen, KindsOfDocument
<1>3. WritersHaveDocument'
  BY DEF WritersHaveDocument, HoldersAreOpen
<1> QED
  BY <1>1, <1>2, <1>3

\* A crash loses nothing of a named file, and a raw storage does not crash.
LEMMA CrashStep ==
  ASSUME Serialized, IInv, TypeOK', NEW f \in Client, Crash(f)
  PROVE  IInv'
<1> USE DEF TypeOK, Document, IInv, Serialized, Writing, Opening, Move, Set,
            objectVars, dictionaryVars, historyVars, Crash
<1>1. KindsOfDocument'
  BY DEF KindsOfDocument
<1>2. RecognizedMeansSaved'
  BY DEF RecognizedMeansSaved, KindsOfDocument
<1>3. WritersHideDocument'
  BY DEF WritersHideDocument, KindsOfDocument
<1>4. ValidMeansSaved'
  BY DEF ValidMeansSaved, KindsOfDocument
<1>5. RecognitionHolds'
  BY DEF RecognitionHolds, KindsOfDocument
<1>6. WritersHaveDocument'
  BY DEF WritersHaveDocument, KindsOfDocument
<1>7. HoldersAreOpen'
  BY DEF HoldersAreOpen, KindsOfDocument
<1> QED
  BY <1>1, <1>2, <1>3, <1>4, <1>5, <1>6, <1>7

\* Nothing is left to evict for a named file, and eviction moves bytes of a
\* raw storage to the disk without changing them.
LEMMA EvictStep ==
  ASSUME Serialized, IInv, TypeOK', Evict
  PROVE  IInv'
<1> USE DEF TypeOK, Document, IInv, Serialized, Writing, Opening, objectVars,
            dictionaryVars, historyVars, Evict
<1>1. /\ RecognizedMeansSaved'
      /\ WritersHideDocument'
      /\ ValidMeansSaved'
      /\ RecognitionHolds'
      /\ WritersHaveDocument'
      /\ HoldersAreOpen'
      /\ KindsOfDocument'
  BY DEF RecognizedMeansSaved, WritersHideDocument, ValidMeansSaved,
         RecognitionHolds, WritersHaveDocument, HoldersAreOpen, KindsOfDocument
<1> QED
  BY <1>1

(***************************************************************************)
(* The theorems                                                            *)
(***************************************************************************)

\* A document that is there and recognised was saved; nobody uses it yet.
LEMMA InitEstablishes == Init => IInv
<1> SUFFICES ASSUME Init PROVE IInv
  OBVIOUS
<1> USE FileAssumption DEF Init
<1>1. /\ document \in Document /\ disk = document
      /\ lastSaved \in Version \cup {Torn}
      /\ document.signed => document.content = lastSaved
  <2>1. CASE document = [signed |-> FALSE, content |-> Absent]
    BY <2>1 DEF Document, Content, Version
  <2>2. CASE document = [signed |-> TRUE, content |-> 1]
    BY <2>2 DEF Document, Content, Version
  <2> QED
    BY <2>1, <2>2
<1>2. TypeOK
  BY <1>1 DEF TypeOK, Version, Phase
<1>3. RecognizedMeansSaved
  BY <1>1 DEF RecognizedMeansSaved
<1>4. /\ WritersHideDocument /\ ValidMeansSaved /\ RecognitionHolds
      /\ WritersHaveDocument /\ HoldersAreOpen /\ KindsOfDocument
  BY <1>1 DEF WritersHideDocument, Writing, ValidMeansSaved, RecognitionHolds,
         Opening, WritersHaveDocument, HoldersAreOpen, KindsOfDocument
<1> QED
  BY <1>2, <1>3, <1>4 DEF IInv

\* Every step of every client keeps the inductive invariant.
LEMMA NextKeeps ==
  ASSUME Serialized, IInv, [Next]_vars
  PROVE  IInv'
<1> TypeOK'
  BY TypeStep DEF IInv
<1>1. ASSUME NEW f \in Client, NEW m \in {"read", "modify"},
             IsAAFFile(f, m)
      PROVE  IInv'
  BY <1>1, IsAAFFileStep
<1>2. ASSUME NEW f \in Client, IsRecognized(f) PROVE IInv'
  BY <1>2, IsRecognizedStep
<1>3. ASSUME NEW f \in Client, Unsign(f) PROVE IInv'
  BY <1>3, UnsignStep
<1>4. ASSUME NEW f \in Client, Attach(f) PROVE IInv'
  BY <1>4, AttachStep
<1>5. ASSUME NEW f \in Client, OpenNew(f) PROVE IInv'
  BY <1>5, OpenNewStep
<1>6. ASSUME NEW f \in Client, Finish(f) PROVE IInv'
  BY <1>6, FinishStep
<1>7. ASSUME NEW f \in Client, FinishFails(f) PROVE IInv'
  BY <1>7, FinishFailsStep
<1>8. ASSUME NEW f \in Client, FinishThrows(f) PROVE IInv'
  BY <1>8, FinishThrowsStep
<1>9. ASSUME NEW f \in Client, NEW m \in {"read", "modify"},
             NEW new \in BOOLEAN, Create(f, m, new)
      PROVE  IInv'
  BY <1>9, CreateStep
<1>10. ASSUME NEW f \in Client, OpenCreated(f) PROVE IInv'
  BY <1>10, OpenCreatedStep
<1>11. ASSUME NEW f \in Client, OpenExisting(f) PROVE IInv'
  BY <1>11, OpenExistingStep
<1>12. ASSUME NEW f \in Client, Edit(f) PROVE IInv'
  BY <1>12, EditStep
<1>13. ASSUME NEW f \in Client, SaveBegin(f) PROVE IInv'
  BY <1>13, SaveBeginStep
<1>14. ASSUME NEW f \in Client, SaveEnd(f) PROVE IInv'
  BY <1>14, SaveEndStep
<1>15. ASSUME NEW f \in Client, SaveFails(f) PROVE IInv'
  BY <1>15, SaveFailsStep
<1>16. ASSUME NEW f \in Client, Close(f) PROVE IInv'
  BY <1>16, CloseStep
<1>17. ASSUME NEW f \in Client, Stamp(f) PROVE IInv'
  BY <1>17, StampStep
<1>18. ASSUME NEW f \in Client, StampNothing(f) PROVE IInv'
  BY <1>18, StampNothingStep
<1>19. ASSUME NEW f \in Client, StampFails(f) PROVE IInv'
  BY <1>19, StampFailsStep
<1>20. ASSUME NEW f \in Client, Release(f) PROVE IInv'
  BY <1>20, ReleaseStep
<1>21. ASSUME NEW f \in Client, Crash(f) PROVE IInv'
  BY <1>21, CrashStep
<1>22. CASE Evict
  BY <1>22, EvictStep
<1>23. CASE UNCHANGED vars
  BY <1>23 DEF vars, objectVars, dictionaryVars, documentVars, historyVars,
       IInv, TypeOK, RecognizedMeansSaved, WritersHideDocument, Writing,
       ValidMeansSaved, RecognitionHolds, Opening, WritersHaveDocument,
       HoldersAreOpen, KindsOfDocument
<1> QED
  BY <1>1, <1>2, <1>3, <1>4, <1>5, <1>6, <1>7, <1>8, <1>9, <1>10, <1>11,
     <1>12, <1>13, <1>14, <1>15, <1>16, <1>17, <1>18, <1>19, <1>20, <1>21,
     <1>22, <1>23
     DEF Next, Step

\* The variables of the file objects and of the document keep their types,
\* whatever the platform, however the clients interleave and crash.
THEOREM TypeCorrect == Spec => []TypeOK
<1>1. Init => TypeOK
  BY InitEstablishes DEF IInv
<1> QED
  BY <1>1, TypeStep, PTL DEF Spec

\* The inductive invariant of the signature protocol holds for clients that
\* open the document one at a time (Serialized).
THEOREM Invariance == ASSUME Serialized PROVE Spec => []IInv
<1>1. IInv /\ [Next]_vars => IInv'
  BY NextKeeps
<1> QED
  BY <1>1, InitEstablishes, PTL DEF Spec

\* A document that is recognised holds exactly what the last successful save
\* wrote (OMFile::saveFile, OMSSStoredObjectFactory::close).
THEOREM RecognizedIsSaved ==
  ASSUME Serialized PROVE Spec => []RecognizedMeansSaved
<1>1. IInv => RecognizedMeansSaved
  BY DEF IInv
<1> QED
  BY <1>1, Invariance, PTL

\* A document is hidden while it is open for modification, and only one
\* client at a time has it so (OMSSStoredObjectFactory::openModify).
THEOREM WritersAreAlone ==
  ASSUME Serialized PROVE Spec => []WritersHideDocument
<1>1. IInv => WritersHideDocument
  BY DEF IInv
<1> QED
  BY <1>1, Invariance, PTL

\* What a client restores when it opens a document: what the last successful
\* save wrote (OMFile::restoreRoot, from AAFFileOpenExistingRead and Modify).
LEMMA RestoredIsSaved ==
  ASSUME IInv, NEW f \in Client,
         \/ Attach(f) /\ Move(f, "attached")
         \/ OpenExisting(f) /\ Move(f, "attached")
  PROVE  memory'[f] = lastSaved
<1> USE DEF IInv, TypeOK
<1>1. CASE Attach(f) /\ Move(f, "attached")
  <2>1. memory'[f] = document.content
    BY <1>1 DEF Attach, Move, Set, Phase
  <2>2. CASE phase[f] = "recognized"
    BY <2>1, <2>2 DEF RecognitionHolds, RecognizedMeansSaved
  <2>3. CASE phase[f] = "unsigned"
    BY <2>1, <2>3 DEF ValidMeansSaved, WritersHaveDocument, Writing
  <2> QED
    BY <1>1, <2>2, <2>3 DEF Attach
<1>2. CASE OpenExisting(f) /\ Move(f, "attached")
  BY <1>2 DEF OpenExisting, Move, Set, Phase, RecognizedMeansSaved
<1> QED
  BY <1>1, <1>2

\* Whoever opens a document gets what the last successful save wrote, never
\* half a save (AAFFileOpenExistingRead and Modify; OMFile::restoreRoot).
THEOREM OpensSeeLastSave ==
  ASSUME Serialized PROVE Spec => ReadersSeeLastSave
<1> DEFINE Seen ==
      \A f \in Client :
        phase[f] # "attached" /\ phase'[f] = "attached" /\ ~isNew'[f] =>
          memory'[f] = lastSaved
<1>1. ASSUME IInv, Next PROVE Seen
  <2> SUFFICES ASSUME NEW f \in Client, phase[f] # "attached",
                      phase'[f] = "attached", ~isNew'[f]
               PROVE  memory'[f] = lastSaved
    OBVIOUS
  <2> USE <1>1 DEF IInv, TypeOK, Move, Set
  <2>1. ~Evict
    BY DEF Evict
  <2>2. PICK g \in Client : Step(g)
    BY <2>1 DEF Next
  <2>3. f = g
    BY <2>2 DEF Step, IsAAFFile, IsRecognized, Unsign, Attach, OpenNew, Finish,
          FinishFails, FinishThrows, Create, OpenCreated, OpenExisting, Edit,
          SaveBegin, SaveEnd, SaveFails, Close, Stamp, StampNothing,
          StampFails, Closed, Release, Crash
  <2>4. \/ Attach(f) /\ Move(f, "attached")
        \/ OpenExisting(f) /\ Move(f, "attached")
    BY <2>2, <2>3, ZenonT(30)
       DEF Step, IsAAFFile, IsRecognized, Unsign, Attach, OpenNew, Finish,
           FinishFails, FinishThrows, Create, OpenCreated, OpenExisting, Edit,
           SaveBegin, SaveEnd, SaveFails, Close, Stamp, StampNothing,
           StampFails, Closed, Release, Crash, objectVars
  <2> QED
    BY <2>4, RestoredIsSaved
<1>2. IInv /\ [Next]_vars => [Seen]_vars
  BY <1>1
<1> QED
  BY <1>2, Invariance, PTL DEF Spec, ReadersSeeLastSave

(***************************************************************************)
(* Readers, where the platform enforces the sharing modes.  This does not  *)
(* need Serialized: opens may overlap and any process may crash.           *)
(***************************************************************************)

\* Two clients hold the document only to read it.
SharesRespected ==
  Exclusive => \A f, g \in Client :
    f # g /\ holds[f] /\ holds[g] => mode[f] = "read"

\* A client holds the document in these phases only; a named one is there.
HeldDocument ==
  \A f \in Client : holds[f] =>
    /\ phase[f] \in {"created", "attached", "open", "saving", "lost"}
    /\ Named => document.content # Absent

\* Only a client that holds the document to modify it saves.
SaversHold ==
  \A f \in Client : phase[f] = "saving" => mode[f] = "modify" /\ holds[f]

Sharing ==
  /\ TypeOK
  /\ SharesRespected
  /\ HeldDocument
  /\ SaversHold
  /\ KindsOfDocument

\* Every step keeps it.
LEMMA SharingKept ==
  ASSUME Sharing, [Next]_vars
  PROVE  Sharing'
<1> TypeOK'
  BY TypeStep DEF Sharing
<1> USE DEF TypeOK, Document, Sharing, SharesRespected, HeldDocument,
            SaversHold, KindsOfDocument, Opening
<1>1. ASSUME NEW f \in Client, NEW m \in {"read", "modify"},
             IsAAFFile(f, m)
      PROVE  Sharing'
  BY <1>1 DEF Move, Set, documentVars, historyVars, IsAAFFile
<1>2. ASSUME NEW f \in Client, IsRecognized(f) PROVE Sharing'
  BY <1>2 DEF Move, objectVars, dictionaryVars, documentVars, historyVars,
           IsRecognized
<1>3. ASSUME NEW f \in Client, Unsign(f) PROVE Sharing'
  BY <1>3 DEF Move, WriteSignature, Put, objectVars, dictionaryVars,
           documentVars, historyVars, Unsign
<1>4. ASSUME NEW f \in Client, Attach(f) PROVE Sharing'
  <2> USE <1>4 DEF Move, Set, objectVars, documentVars, historyVars, Attach
  <2>1. SharesRespected'
    BY DEF MayRead, MayWrite
  <2>2. HeldDocument'
    BY DEF Content, Version, Torn, Absent, Restores, RestoreThrows
  <2>3. SaversHold'
    OBVIOUS
  <2>4. KindsOfDocument'
    OBVIOUS
  <2> QED
    BY <2>1, <2>2, <2>3, <2>4
<1>5. ASSUME NEW f \in Client, OpenNew(f) PROVE Sharing'
  <2> USE <1>5 DEF Move, Set, Put, Change, OpenNew
  <2>1. SharesRespected'
    OBVIOUS
  <2>2. HeldDocument'
    BY DEF Content, Version, Torn, Absent
  <2>3. SaversHold'
    OBVIOUS
  <2>4. KindsOfDocument'
    OBVIOUS
  <2> QED
    BY <2>1, <2>2, <2>3, <2>4
<1>6. ASSUME NEW f \in Client, Finish(f) PROVE Sharing'
  BY <1>6 DEF Move, Set, Change, documentVars, Finish
<1>7. ASSUME NEW f \in Client, FinishFails(f) PROVE Sharing'
  BY <1>7 DEF Move, Set, documentVars, historyVars, FinishFails
<1>8. ASSUME NEW f \in Client, FinishThrows(f) PROVE Sharing'
  BY <1>8 DEF Move, objectVars, dictionaryVars, documentVars, historyVars,
           FinishThrows
<1>9. ASSUME NEW f \in Client, NEW m \in {"read", "modify"},
             NEW new \in BOOLEAN, Create(f, m, new)
      PROVE  Sharing'
  BY <1>9 DEF Move, Set, documentVars, historyVars, Create
<1>10. ASSUME NEW f \in Client, OpenCreated(f) PROVE Sharing'
  <2> USE <1>10 DEF Move, Set, Put, Change, dictionaryVars, OpenCreated
  <2>1. SharesRespected'
    OBVIOUS
  <2>2. HeldDocument'
    BY DEF Content, Version, Torn, Absent
  <2>3. SaversHold'
    OBVIOUS
  <2>4. KindsOfDocument'
    OBVIOUS
  <2> QED
    BY <2>1, <2>2, <2>3, <2>4
<1>11. ASSUME NEW f \in Client, OpenExisting(f) PROVE Sharing'
  <2> USE <1>11 DEF Move, Set, WriteSignature, Put, documentVars, historyVars,
              OpenExisting
  <2>1. SharesRespected'
    BY SMTT(30)
  <2>2. HeldDocument'
    BY DEF Content, Version, Torn, Absent, Restores
  <2>3. SaversHold'
    OBVIOUS
  <2>4. KindsOfDocument'
    OBVIOUS
  <2> QED
    BY <2>1, <2>2, <2>3, <2>4
<1>12. ASSUME NEW f \in Client, Edit(f) PROVE Sharing'
  BY <1>12 DEF Set, Change, dictionaryVars, documentVars, Edit
<1>13. ASSUME NEW f \in Client, SaveBegin(f) PROVE Sharing'
  <2> USE <1>13 DEF Move, Set, PutContent, Put, documentVars, historyVars,
              SaveBegin
  <2>1. SharesRespected'
    OBVIOUS
  <2>2. HeldDocument'
    BY DEF Content, Version, Torn, Absent
  <2>3. SaversHold'
    OBVIOUS
  <2>4. KindsOfDocument'
    OBVIOUS
  <2> QED
    BY <2>1, <2>2, <2>3, <2>4
<1>14. ASSUME NEW f \in Client, SaveEnd(f) PROVE Sharing'
  <2> USE <1>14 DEF Move, Set, PutContent, Put, SaveEnd
  <2>1. SharesRespected'
    OBVIOUS
  <2>2. HeldDocument'
    BY DEF Content, Version, Torn, Absent
  <2>3. SaversHold'
    OBVIOUS
  <2>4. KindsOfDocument'
    OBVIOUS
  <2> QED
    BY <2>1, <2>2, <2>3, <2>4
<1>15. ASSUME NEW f \in Client, SaveFails(f) PROVE Sharing'
  BY <1>15 DEF Move, objectVars, dictionaryVars, documentVars, historyVars,
           SaveFails
<1>16. ASSUME NEW f \in Client, Close(f) PROVE Sharing'
  BY <1>16 DEF Move, Set, objectVars, dictionaryVars, documentVars,
           historyVars, Close
<1>17. ASSUME NEW f \in Client, Stamp(f) PROVE Sharing'
  BY <1>17 DEF Move, Set, Closed, dictionaryVars, historyVars, Stamp
<1>18. ASSUME NEW f \in Client, StampNothing(f) PROVE Sharing'
  BY <1>18 DEF Move, Set, Closed, dictionaryVars, documentVars, historyVars,
           StampNothing
<1>19. ASSUME NEW f \in Client, StampFails(f) PROVE Sharing'
  BY <1>19 DEF Move, objectVars, dictionaryVars, documentVars, historyVars,
           StampFails
<1>20. ASSUME NEW f \in Client, Release(f) PROVE Sharing'
  <2> USE <1>20 DEF Move, objectVars, dictionaryVars, historyVars, Release
  <2>1. SharesRespected'
    OBVIOUS
  <2>2. HeldDocument'
    OBVIOUS
  <2>3. SaversHold'
    OBVIOUS
  <2>4. KindsOfDocument'
    OBVIOUS
  <2> QED
    BY <2>1, <2>2, <2>3, <2>4
<1>21. ASSUME NEW f \in Client, Crash(f) PROVE Sharing'
  BY <1>21 DEF Move, Set, objectVars, dictionaryVars, historyVars, Crash
<1>22. CASE Evict
  BY <1>22 DEF objectVars, dictionaryVars, historyVars, Evict
<1>23. CASE UNCHANGED vars
  BY <1>23 DEF vars, objectVars, dictionaryVars, documentVars, historyVars
<1> HIDE DEF TypeOK, Document, Sharing, SharesRespected, HeldDocument,
             SaversHold, KindsOfDocument, Opening
<1> QED
  BY <1>1, <1>2, <1>3, <1>4, <1>5, <1>6, <1>7, <1>8, <1>9, <1>10, <1>11,
     <1>12, <1>13, <1>14, <1>15, <1>16, <1>17, <1>18, <1>19, <1>20, <1>21,
     <1>22, <1>23
     DEF Next, Step

\* Where nothing else holds the document but readers, its contents do not
\* change.
LEMMA ReadersKept ==
  ASSUME Exclusive = TRUE, Sharing, Next,
         NEW f \in Client, holds[f], mode[f] = "read", holds'[f]
  PROVE  document'.content = document.content
<1> USE DEF Sharing, TypeOK, Document
<1>1. CASE Evict
  BY <1>1 DEF Evict
<1>2. ASSUME NEW g \in Client, Step(g)
      PROVE  document'.content = document.content
  <2>1. CASE UNCHANGED document
    BY <2>1
  <2>2. CASE OpenNew(g)
    BY <2>2 DEF OpenNew, HeldDocument, KindsOfDocument
  <2>3. CASE OpenCreated(g)
    BY <2>3 DEF OpenCreated, HeldDocument, KindsOfDocument, SharesRespected
  <2>4. CASE Unsign(g) \/ OpenExisting(g)
    <3>1. WriteSignature(FALSE) \/ UNCHANGED document
      BY <2>4 DEF Unsign, OpenExisting, documentVars
    <3> QED
      BY <3>1, SignatureWritten
  <2>5. CASE SaveBegin(g) \/ SaveEnd(g)
    BY <2>5 DEF SaveBegin, SaveEnd, SaversHold, SharesRespected, documentVars
  <2>6. CASE Stamp(g)
    BY <2>6 DEF Stamp
  <2>7. CASE Crash(g)
    <3>1. CASE Named
      BY <2>7, <3>1 DEF Crash, KindsOfDocument
    <3>2. CASE ~Named
      BY <2>7, <3>2 DEF Crash, KindsOfDocument, HeldDocument, Set
    <3> QED
      BY <3>1, <3>2
  <2>8. \/ UNCHANGED document \/ OpenNew(g) \/ OpenCreated(g) \/ Unsign(g)
        \/ OpenExisting(g) \/ SaveBegin(g) \/ SaveEnd(g) \/ Stamp(g) \/ Crash(g)
    BY <1>2 DEF Step, IsAAFFile, IsRecognized, Attach, Finish, FinishFails,
          FinishThrows, Create, Edit, SaveFails, Close, StampNothing,
          StampFails, Release, documentVars
  <2> QED
    BY <2>1, <2>2, <2>3, <2>4, <2>5, <2>6, <2>7, <2>8
<1> QED
  BY <1>1, <1>2 DEF Next

\* Where the platform enforces the sharing modes, what a reader loads lazily
\* is what was there when it opened the document
\* (OMMS_SSStoredObjectFactory::openFile).
THEOREM ReadersIsolated ==
  ASSUME Exclusive = TRUE PROVE Spec => ReadersAreIsolated
<1> DEFINE Kept ==
      \A f \in Client : holds[f] /\ mode[f] = "read" /\ holds'[f] =>
        document'.content = document.content
<1>1. Init => Sharing
  BY InitEstablishes
     DEF Init, IInv, Sharing, SharesRespected, HeldDocument, SaversHold
<1>2. Sharing /\ [Next]_vars => Sharing'
  BY SharingKept
<1>3. Sharing /\ [Next]_vars => [Kept]_vars
  BY ReadersKept
<1> QED
  BY <1>1, <1>2, <1>3, PTL DEF Spec, ReadersAreIsolated

(***************************************************************************)
(* What is in the cache of a raw storage                                   *)
(***************************************************************************)

\* The cache is empty while nobody uses the document and while it is read.
CacheEmpty ==
  /\ (\A f \in Client : phase[f] = "none") => disk = document
  /\ \A f \in Client : phase[f] # "none" /\ mode[f] = "read" => disk = document

\* Every step keeps it, and leaves nothing in the cache of a valid file that
\* is closed.
LEMMA DurableKept ==
  ASSUME Serialized, IInv, CacheEmpty, ClosedMeansDurable, [Next]_vars
  PROVE  CacheEmpty' /\ ClosedMeansDurable'
<1> SUFFICES ASSUME ~Named PROVE CacheEmpty' /\ ClosedMeansDurable'
  BY NextKeeps DEF IInv, KindsOfDocument, CacheEmpty, ClosedMeansDurable
<1> USE DEF TypeOK, Document, IInv, CacheEmpty, ClosedMeansDurable,
            KindsOfDocument, Serialized, Opening
<1>1. ASSUME NEW f \in Client, NEW m \in {"read", "modify"},
             IsAAFFile(f, m)
      PROVE  CacheEmpty' /\ ClosedMeansDurable'
  BY <1>1 DEF Move, Set, documentVars, historyVars, IsAAFFile
<1>2. ASSUME NEW f \in Client, IsRecognized(f) PROVE CacheEmpty' /\ ClosedMeansDurable'
  BY <1>2 DEF Move, objectVars, dictionaryVars, documentVars, historyVars,
           IsRecognized
<1>3. ASSUME NEW f \in Client, Unsign(f) PROVE CacheEmpty' /\ ClosedMeansDurable'
  BY <1>3 DEF Move, WriteSignature, Put, objectVars, dictionaryVars,
           documentVars, historyVars, Unsign
<1>4. ASSUME NEW f \in Client, Attach(f) PROVE CacheEmpty' /\ ClosedMeansDurable'
  BY <1>4 DEF Move, Set, objectVars, documentVars, historyVars, Attach
<1>5. ASSUME NEW f \in Client, OpenNew(f) PROVE CacheEmpty' /\ ClosedMeansDurable'
  BY <1>5 DEF Move, Set, Put, Change, OpenNew
<1>6. ASSUME NEW f \in Client, Finish(f) PROVE CacheEmpty' /\ ClosedMeansDurable'
  BY <1>6 DEF Move, Set, Change, documentVars, Finish
<1>7. ASSUME NEW f \in Client, FinishFails(f) PROVE CacheEmpty' /\ ClosedMeansDurable'
  BY <1>7 DEF Move, Set, documentVars, historyVars, FinishFails
<1>8. ASSUME NEW f \in Client, FinishThrows(f) PROVE CacheEmpty' /\ ClosedMeansDurable'
  BY <1>8 DEF Move, objectVars, dictionaryVars, documentVars, historyVars,
           FinishThrows
<1>9. ASSUME NEW f \in Client, NEW m \in {"read", "modify"},
             NEW new \in BOOLEAN, Create(f, m, new)
      PROVE  CacheEmpty' /\ ClosedMeansDurable'
  BY <1>9 DEF Move, Set, documentVars, historyVars, Create
<1>10. ASSUME NEW f \in Client, OpenCreated(f) PROVE CacheEmpty' /\ ClosedMeansDurable'
  BY <1>10 DEF Move, Set, Put, Change, dictionaryVars, OpenCreated
<1>11. ASSUME NEW f \in Client, OpenExisting(f) PROVE CacheEmpty' /\ ClosedMeansDurable'
  BY <1>11 DEF Move, Set, WriteSignature, Put, documentVars, historyVars,
           OpenExisting
<1>12. ASSUME NEW f \in Client, Edit(f) PROVE CacheEmpty' /\ ClosedMeansDurable'
  BY <1>12 DEF Set, Change, dictionaryVars, documentVars, Edit
<1>13. ASSUME NEW f \in Client, SaveBegin(f) PROVE CacheEmpty' /\ ClosedMeansDurable'
  BY <1>13 DEF Move, Set, PutContent, Put, documentVars, historyVars, SaveBegin
<1>14. ASSUME NEW f \in Client, SaveEnd(f) PROVE CacheEmpty' /\ ClosedMeansDurable'
  BY <1>14 DEF Move, Set, PutContent, Put, SaveEnd, WritersHaveDocument
<1>15. ASSUME NEW f \in Client, SaveFails(f) PROVE CacheEmpty' /\ ClosedMeansDurable'
  BY <1>15 DEF Move, objectVars, dictionaryVars, documentVars, historyVars,
           SaveFails
<1>16. ASSUME NEW f \in Client, Close(f) PROVE CacheEmpty' /\ ClosedMeansDurable'
  BY <1>16 DEF Move, Set, objectVars, dictionaryVars, documentVars,
           historyVars, Close
<1>17. ASSUME NEW f \in Client, Stamp(f) PROVE CacheEmpty' /\ ClosedMeansDurable'
  BY <1>17 DEF Move, Set, Closed, dictionaryVars, historyVars, Stamp
<1>18. ASSUME NEW f \in Client, StampNothing(f) PROVE CacheEmpty' /\ ClosedMeansDurable'
  BY <1>18 DEF Move, Set, Closed, dictionaryVars, documentVars, historyVars,
           StampNothing
<1>19. ASSUME NEW f \in Client, StampFails(f) PROVE CacheEmpty' /\ ClosedMeansDurable'
  BY <1>19 DEF Move, objectVars, dictionaryVars, documentVars, historyVars,
           StampFails, MayWrite, HoldersAreOpen
<1>20. ASSUME NEW f \in Client, Release(f) PROVE CacheEmpty' /\ ClosedMeansDurable'
  BY <1>20 DEF Move, objectVars, dictionaryVars, historyVars, Release
<1>21. ASSUME NEW f \in Client, Crash(f) PROVE CacheEmpty' /\ ClosedMeansDurable'
  BY <1>21 DEF Move, Set, objectVars, dictionaryVars, historyVars, Crash
<1>22. CASE Evict
  BY <1>22 DEF objectVars, dictionaryVars, historyVars, Evict
<1>23. CASE UNCHANGED vars
  BY <1>23 DEF vars, objectVars, dictionaryVars, documentVars, historyVars
<1> QED
  BY <1>1, <1>2, <1>3, <1>4, <1>5, <1>6, <1>7, <1>8, <1>9, <1>10, <1>11,
     <1>12, <1>13, <1>14, <1>15, <1>16, <1>17, <1>18, <1>19, <1>20, <1>21,
     <1>22, <1>23
     DEF Next, Step

\* When a valid file on a raw storage has been closed, all of it is on disk
\* (OMSSStoredObjectFactory::close calls synchronize()).
THEOREM ClosedIsDurable ==
  ASSUME Serialized PROVE Spec => []ClosedMeansDurable
<1>1. Init => CacheEmpty /\ ClosedMeansDurable
  BY DEF Init, CacheEmpty, ClosedMeansDurable
<1>2. IInv /\ CacheEmpty /\ ClosedMeansDurable /\ [Next]_vars =>
        CacheEmpty' /\ ClosedMeansDurable'
  BY DurableKept
<1> QED
  BY <1>1, <1>2, Invariance, PTL DEF Spec
=============================================================================
