------------------------------ MODULE AAFFile ------------------------------
(***************************************************************************)
(* The life of an AAF file in structured storage: ImplAAFFile (the object  *)
(* behind IAAFFile), the OMFile it owns, and the signature protocol of     *)
(* OMSSStoredObjectFactory by which a document is recognised.              *)
(*                                                                         *)
(* One document is used by several client processes, each with at most one *)
(* file object.  A writer erases the document's signature before it        *)
(* attaches to it and writes it back when it has closed it, provided the   *)
(* last save did not fail; a document is recognised by its signature.      *)
(* When the document is a named file the steps of different processes      *)
(* interleave and what they write is on disk at once; when it is a raw     *)
(* storage it belongs to one client, and what is written sits in a cache   *)
(* that CachedRawStorage models.  Any process may crash between two steps. *)
(***************************************************************************)
EXTENDS Integers

CONSTANTS
  Client,        \* the processes that use the document
  MaxVersion,    \* the bound on the contents clients can make
  Named,         \* is the document a named file, or a raw storage?
  Exclusive,     \* does the platform enforce STGM_SHARE_EXCLUSIVE/DENY_WRITE?
  OpensOverlap,  \* may two processes be opening the document at a time?
  MayCrash       \* may a process end without closing its file?

ASSUME FileAssumption ==
  /\ MaxVersion \in Nat \ {0}
  /\ Named \in BOOLEAN /\ Exclusive \in BOOLEAN
  /\ OpensOverlap \in BOOLEAN /\ MayCrash \in BOOLEAN

Torn == -1                 \* the contents a save leaves when it fails midway
Absent == -2               \* there is no document
Version == 0 .. MaxVersion \* 0: a document that was created and never saved
Content == Version \cup {Torn, Absent}
Document == [signed : BOOLEAN, content : Content]
Phase == {"none",          \* no file object
          "checked",       \* AAFFileIsAAFFile succeeded
          "recognized",    \* OMFile::isRecognized succeeded
          "unsigned",      \* the null signature is written
          "created",       \* an OMFile on a raw storage, never opened
          "attached",      \* the OMFile is open, ImplAAFFile still opening
          "open",          \* isOpen(), no call in progress
          "saving",        \* inside OMStoredObject::save
          "stamping",      \* closing: the root storage is closed
          "abandoning",    \* the same, closing after an open that failed
          "closed",        \* isClosed()
          "lost"}          \* an exception left an open object nobody can reach

VARIABLES
  phase,         \* how far each client's file object is
  mode,          \* OMFile::_mode: "read" or "modify"
  isNew,         \* OMFile::_isNew
  isValid,       \* OMFile::_isValid
  holds,         \* is the document's root storage open in this process?
  head,          \* is ImplAAFFile::_head set?
  memory,        \* the version of the contents in memory
  registration,  \* ImplAAFDictionary::_defRegistrationAllowed
  regWasEnabled, \* the local that Save restores it from
  document,      \* the document as the processes see it
  disk,          \* the document as a crash leaves it
  version,       \* the number of versions made so far
  lastSaved      \* history: the version the last successful save wrote

objectVars == <<mode, isNew, isValid, head, memory>>
dictionaryVars == <<registration, regWasEnabled>>
documentVars == <<document, disk>>
historyVars == <<version, lastSaved>>
vars == <<phase, objectVars, holds, dictionaryVars, documentVars, historyVars>>

\* What the sharing modes let a client do to a named file: STGM_READ with
\* DENY_WRITE next to readers, STGM_READWRITE only alone.
MayRead(f) == Exclusive => \A g \in Client \ {f} : holds[g] => mode[g] = "read"
\* Fault: a file is opened to modify it in the sharing mode of a reader.
MayWriteBesideReaders(f) ==
  Exclusive => \A g \in Client \ {f} : holds[g] => mode[g] = "read"

MayWrite(f) == Exclusive => \A g \in Client \ {f} : ~holds[g]

Move(f, p) == phase' = [phase EXCEPT ![f] = p]
Set(var, f, value) == [var EXCEPT ![f] = value]

\* A write to the document: a named file takes it at once, a raw storage
\* keeps it in its cache.
Put(d) == document' = d /\ disk' = IF Named THEN d ELSE disk
PutContent(c) == Put([document EXCEPT !.content = c])

\* OMSSStoredObjectFactory::writeSignature, with the null signature or its own.
WriteSignature(s) == Put([document EXCEPT !.signed = s])

\* OMFile::restoreRoot: a document that was never saved has no root object, a
\* half-saved one may or may not have all that the root needs.
Restores(c) == c \in (Version \ {0}) \cup {Torn}
RestoreThrows(c) == c \in {0, Torn}

\* A process that has found the document recognised and not yet attached to it.
Opening(f) == phase[f] \in {"checked", "recognized", "unsigned"}

\* Fault: a change is counted twice.
ChangeTwice(f) ==
  /\ version < MaxVersion
  /\ version' = version + 2
  /\ memory' = Set(memory, f, version + 2)

\* Every change to the objects of a file makes a new version of its contents.
Change(f) ==
  /\ version < MaxVersion
  /\ version' = version + 1
  /\ memory' = Set(memory, f, version + 1)

(***************************************************************************)
(* AAFFileOpenExistingRead and AAFFileOpenExistingModify                   *)
(***************************************************************************)

\* AAFFileOpenExisting*: AAFFileIsAAFFile, a new ImplAAFFile, Initialize.
IsAAFFile(f, m) ==
  /\ Named /\ phase[f] = "none"
  /\ OpensOverlap \/ \A g \in Client : ~Opening(g)
  /\ MayRead(f) /\ document.signed
  /\ Move(f, "checked")
  /\ mode' = Set(mode, f, m)
  /\ registration' = Set(registration, f, TRUE)
  /\ UNCHANGED <<isNew, isValid, holds, head, memory, regWasEnabled,
                 documentVars, historyVars>>

\* OMFile::openExisting*: the file is looked at again, ASSERT("Recognized file").
IsRecognized(f) ==
  /\ phase[f] = "checked"
  /\ Move(f, IF MayRead(f) /\ document.signed THEN "recognized" ELSE "none")
  /\ UNCHANGED <<objectVars, holds, dictionaryVars, documentVars, historyVars>>

\* Fault: the signature of a document opened for modification is left alone.
UnsignNothing(f) ==
  /\ phase[f] = "recognized" /\ mode[f] = "modify"
  /\ Move(f, IF MayWrite(f) THEN "unsigned" ELSE "none")
  /\ UNCHANGED <<objectVars, holds, dictionaryVars, documentVars, historyVars>>

\* OMSSStoredObjectFactory::openModify writes the null signature by name,
\* before anything holds the document; ASSERT("File exists") if it may not.
Unsign(f) ==
  /\ phase[f] = "recognized" /\ mode[f] = "modify"
  /\ IF MayWrite(f)
       THEN Move(f, "unsigned") /\ WriteSignature(FALSE)
       ELSE Move(f, "none") /\ UNCHANGED documentVars
  /\ UNCHANGED <<objectVars, holds, dictionaryVars, historyVars>>

\* openFile and the constructor of OMFile: the root storage is opened in a
\* sharing mode and the root is restored from it.  When openFile fails there
\* is no OMFile; when the restore throws, the storage stays open.
Attach(f) ==
  /\ \/ phase[f] = "recognized" /\ mode[f] = "read"
     \/ phase[f] = "unsigned"
  /\ \/ /\ Move(f, "none")
        /\ UNCHANGED <<objectVars, holds, registration>>
     \/ /\ IF mode[f] = "read" THEN MayRead(f) ELSE MayWrite(f)
        /\ holds' = Set(holds, f, TRUE)
        /\ \/ /\ Restores(document.content)
              /\ Move(f, "attached")
              /\ isNew' = Set(isNew, f, FALSE)
              /\ isValid' = Set(isValid, f, TRUE)
              /\ head' = Set(head, f, FALSE)
              /\ memory' = Set(memory, f, document.content)
              /\ registration' = Set(registration, f, FALSE)
              /\ UNCHANGED mode
           \/ /\ RestoreThrows(document.content)
              /\ Move(f, "lost")
              /\ UNCHANGED <<objectVars, registration>>
  /\ UNCHANGED <<regWasEnabled, documentVars, historyVars>>

\* AAFFileOpenNewModify: createFile fails if the document is there.  The
\* header exists before the file does.
OpenNew(f) ==
  /\ Named /\ phase[f] = "none" /\ document.content = Absent
  /\ Move(f, "attached")
  /\ mode' = Set(mode, f, "modify")
  /\ isNew' = Set(isNew, f, TRUE)
  /\ isValid' = Set(isValid, f, TRUE)
  /\ holds' = Set(holds, f, TRUE)
  /\ head' = Set(head, f, TRUE)
  /\ Change(f)
  /\ registration' = Set(registration, f, TRUE)
  /\ Put([signed |-> FALSE, content |-> 0])
  /\ lastSaved' = 0
  /\ UNCHANGED regWasEnabled

\* The rest of an open call succeeds: dictionary, header, and, in a document
\* opened for modification, the identification of this application.
Finish(f) ==
  /\ phase[f] = "attached"
  /\ Move(f, "open")
  /\ head' = Set(head, f, TRUE)
  /\ registration' = Set(registration, f, TRUE)
  /\ IF mode[f] = "modify" /\ ~isNew[f]
       THEN Change(f)
       ELSE UNCHANGED <<memory, version>>
  /\ UNCHANGED <<mode, isNew, isValid, holds, regWasEnabled, documentVars,
                 lastSaved>>

\* It fails with an AAFRESULT (FILEREV_DIFF, say).  A named open catches it
\* and closes the OMFile; ImplAAFFile::Open catches it and leaves everything.
FinishFails(f) ==
  /\ phase[f] = "attached"
  /\ IF Named
       THEN /\ Move(f, "abandoning")
            /\ holds' = Set(holds, f, FALSE)
            /\ UNCHANGED <<head, registration>>
       ELSE /\ Move(f, "open")
            /\ \E h \in {head[f], TRUE} : head' = Set(head, f, h)
            /\ \E r \in {registration[f], TRUE} :
                 registration' = Set(registration, f, r)
            /\ UNCHANGED holds
  /\ UNCHANGED <<mode, isNew, isValid, memory, regWasEnabled, documentVars,
                 historyVars>>

\* It fails with another exception, which nobody in the implementation
\* catches: the object stays open and no client ever gets it.
FinishThrows(f) ==
  /\ Named /\ phase[f] = "attached"
  /\ Move(f, "lost")
  /\ UNCHANGED <<objectVars, holds, dictionaryVars, documentVars, historyVars>>

(***************************************************************************)
(* AAFCreateAAFFileOnRawStorage and ImplAAFFile::Open                      *)
(***************************************************************************)

\* ImplAAFFile::CreateAAFFileOnRawStorage; write access is not available in
\* structured storage.  The raw storage is this client's alone.
Create(f, m, new) ==
  /\ ~Named /\ \A g \in Client : phase[g] = "none"
  /\ new => m = "modify"
  /\ Move(f, "created")
  /\ mode' = Set(mode, f, m)
  /\ isNew' = Set(isNew, f, new)
  /\ isValid' = Set(isValid, f, TRUE)
  /\ head' = Set(head, f, new)
  /\ registration' = Set(registration, f, TRUE)
  /\ UNCHANGED <<holds, memory, regWasEnabled, documentVars, historyVars>>

\* OMFile::open of a new file: createModify lays a new document over the old.
OpenCreated(f) ==
  /\ phase[f] = "created" /\ isNew[f]
  /\ Move(f, "attached")
  /\ holds' = Set(holds, f, TRUE)
  /\ Change(f)
  /\ Put([signed |-> FALSE, content |-> 0])
  /\ lastSaved' = 0
  /\ UNCHANGED <<mode, isNew, isValid, head, dictionaryVars>>

\* OMFile::open of an existing file: ASSERT("Recognized file"), the null
\* signature, openFile, restoreRoot.  A failure leaves the OMFile unopened,
\* the signature erased, and the root storage open if it came that far.
OpenExisting(f) ==
  /\ phase[f] = "created" /\ ~isNew[f] /\ document.signed
  /\ IF mode[f] = "modify" THEN WriteSignature(FALSE) ELSE UNCHANGED documentVars
  /\ \/ /\ \E h \in {holds[f], TRUE} : holds' = Set(holds, f, h)
        /\ UNCHANGED <<phase, memory, registration>>
     \/ /\ Restores(document.content)
        /\ Move(f, "attached")
        /\ memory' = Set(memory, f, document.content)
        /\ holds' = Set(holds, f, TRUE)
        /\ registration' = Set(registration, f, FALSE)
  /\ UNCHANGED <<mode, isNew, isValid, head, regWasEnabled, historyVars>>

(***************************************************************************)
(* Save, Close and the end of a file object                                *)
(***************************************************************************)

\* Fault: edits reach the document without a save.
EditInPlace(f) ==
  /\ phase[f] = "open" /\ head[f]
  /\ Change(f)
  /\ IF holds[f] THEN PutContent(version + 1) ELSE UNCHANGED documentVars
  /\ UNCHANGED <<phase, mode, isNew, isValid, holds, head, dictionaryVars,
                 lastSaved>>

\* Any change a client makes to the objects of an open file.
Edit(f) ==
  /\ phase[f] = "open" /\ head[f]
  /\ Change(f)
  /\ UNCHANGED <<phase, mode, isNew, isValid, holds, head, dictionaryVars,
                 documentVars, lastSaved>>

\* Fault: saveFile does not mark the file invalid first.
SaveStaysValid(f) ==
  /\ phase[f] = "open" /\ mode[f] = "modify" /\ head[f]
  /\ regWasEnabled' = Set(regWasEnabled, f, registration[f])
  /\ registration' = Set(registration, f, FALSE)
  /\ IF holds[f]
       THEN Move(f, "saving") /\ PutContent(Torn)
       ELSE UNCHANGED <<phase, documentVars>>
  /\ UNCHANGED <<objectVars, holds, historyVars>>

\* ImplAAFFile::Save up to the first bytes written.  The file is marked
\* invalid and the dictionary closed to registration.  If the root storage
\* was closed by a Close that failed, the save fails here.
SaveBegin(f) ==
  /\ phase[f] = "open" /\ mode[f] = "modify" /\ head[f]
  /\ regWasEnabled' = Set(regWasEnabled, f, registration[f])
  /\ registration' = Set(registration, f, FALSE)
  /\ isValid' = Set(isValid, f, FALSE)
  /\ IF holds[f]
       THEN Move(f, "saving") /\ PutContent(Torn)
       ELSE UNCHANGED <<phase, documentVars>>
  /\ UNCHANGED <<mode, isNew, holds, head, memory, historyVars>>

\* The save is complete: the file is valid, registration as it was.
SaveEnd(f) ==
  /\ phase[f] = "saving"
  /\ Move(f, "open")
  /\ isValid' = Set(isValid, f, TRUE)
  /\ registration' = Set(registration, f, regWasEnabled[f])
  /\ PutContent(memory[f])
  /\ lastSaved' = memory[f]
  /\ UNCHANGED <<mode, isNew, holds, head, memory, regWasEnabled, version>>

\* The save throws (the disk is full, say), through ImplAAFFile::Save.
SaveFails(f) ==
  /\ phase[f] = "saving"
  /\ Move(f, "open")
  /\ UNCHANGED <<objectVars, holds, dictionaryVars, documentVars, historyVars>>

\* ImplAAFFile::Close, OMFile::close: the objects and the root storage.
Close(f) ==
  /\ phase[f] = "open"
  /\ Move(f, "stamping")
  /\ holds' = Set(holds, f, FALSE)
  /\ UNCHANGED <<objectVars, dictionaryVars, documentVars, historyVars>>

\* Closing has ended; after an open that failed the object is released too.
Closed(f) ==
  /\ Move(f, IF phase[f] = "stamping" THEN "closed" ELSE "none")
  /\ head' = Set(head, f, FALSE)
  /\ UNCHANGED <<mode, isNew, isValid, memory, holds, dictionaryVars,
                 historyVars>>

\* Fault: the cached raw storage is not synchronized on close.
StampWithoutSynchronize(f) ==
  /\ phase[f] \in {"stamping", "abandoning"}
  /\ isValid[f] /\ mode[f] = "modify" /\ MayWrite(f)
  /\ WriteSignature(TRUE)
  /\ Closed(f)

\* OMSSStoredObjectFactory::close of a valid, writable file: the signature,
\* and for a raw storage synchronize().
Stamp(f) ==
  /\ phase[f] \in {"stamping", "abandoning"}
  /\ isValid[f] /\ mode[f] = "modify" /\ MayWrite(f)
  /\ document' = [document EXCEPT !.signed = TRUE]
  /\ disk' = document'
  /\ Closed(f)

\* A file that is invalid or only read is closed as it is.
StampNothing(f) ==
  /\ phase[f] \in {"stamping", "abandoning"}
  /\ ~isValid[f] \/ mode[f] = "read"
  /\ Closed(f)
  /\ UNCHANGED documentVars

\* Another process has the named file by now: ASSERT("File exists") throws
\* out of OMFile::close, which has not cleared _isOpen.
StampFails(f) ==
  /\ phase[f] \in {"stamping", "abandoning"}
  /\ isValid[f] /\ mode[f] = "modify" /\ ~MayWrite(f)
  /\ Move(f, IF phase[f] = "stamping" THEN "open" ELSE "none")
  /\ UNCHANGED <<objectVars, holds, dictionaryVars, documentVars, historyVars>>

\* The client drops a file object: the destructors of ImplAAFFile and OMFile
\* delete the raw storage, whose destructor synchronizes; a root storage that
\* was never closed stays open in the process.
Release(f) ==
  /\ phase[f] \in {"created", "open", "closed"}
  /\ Move(f, IF holds[f] THEN "lost" ELSE "none")
  /\ disk' = document
  /\ UNCHANGED <<objectVars, holds, dictionaryVars, document, historyVars>>

(***************************************************************************)
(* The environment                                                         *)
(***************************************************************************)

\* A process ends; what its cache held is gone.
Crash(f) ==
  /\ MayCrash /\ phase[f] # "none"
  /\ Move(f, "none")
  /\ holds' = Set(holds, f, FALSE)
  /\ document' = disk
  /\ UNCHANGED <<objectVars, dictionaryVars, disk, historyVars>>

\* The cache of a raw storage evicts dirty pages: the page that holds the
\* signature, or some or all of those that hold the contents.
Evict ==
  /\ disk # document
  /\ \/ disk' = [disk EXCEPT !.signed = document.signed]
     \/ \E c \in {document.content, Torn} : disk' = [disk EXCEPT !.content = c]
  /\ UNCHANGED <<phase, objectVars, holds, dictionaryVars, document, historyVars>>

Init ==
  /\ phase = [f \in Client |-> "none"]
  /\ mode = [f \in Client |-> "read"]
  /\ isNew = [f \in Client |-> FALSE]
  /\ isValid = [f \in Client |-> FALSE]
  /\ holds = [f \in Client |-> FALSE]
  /\ head = [f \in Client |-> FALSE]
  /\ memory = [f \in Client |-> 0]
  /\ registration = [f \in Client |-> TRUE]
  /\ regWasEnabled = [f \in Client |-> TRUE]
  /\ document \in {[signed |-> FALSE, content |-> Absent],
                   [signed |-> TRUE, content |-> 1]}
  /\ disk = document
  /\ version = 1
  /\ lastSaved = IF document.signed THEN 1 ELSE 0

Step(f) ==
  \/ \E m \in {"read", "modify"} : IsAAFFile(f, m)
  \/ IsRecognized(f) \/ Unsign(f) \/ Attach(f) \/ OpenNew(f)
  \/ Finish(f) \/ FinishFails(f) \/ FinishThrows(f)
  \/ \E m \in {"read", "modify"}, new \in BOOLEAN : Create(f, m, new)
  \/ OpenCreated(f) \/ OpenExisting(f)
  \/ Edit(f) \/ SaveBegin(f) \/ SaveEnd(f) \/ SaveFails(f)
  \/ Close(f) \/ Stamp(f) \/ StampNothing(f) \/ StampFails(f)
  \/ Release(f) \/ Crash(f)

Next == (\E f \in Client : Step(f)) \/ Evict

Spec == Init /\ [][Next]_vars

-----------------------------------------------------------------------------

\* Every variable keeps its type.
TypeOK ==
  /\ phase \in [Client -> Phase]
  /\ mode \in [Client -> {"read", "modify"}]
  /\ isNew \in [Client -> BOOLEAN] /\ isValid \in [Client -> BOOLEAN]
  /\ holds \in [Client -> BOOLEAN] /\ head \in [Client -> BOOLEAN]
  /\ memory \in [Client -> Version \cup {Torn}]
  /\ registration \in [Client -> BOOLEAN]
  /\ regWasEnabled \in [Client -> BOOLEAN]
  /\ document \in Document /\ disk \in Document
  /\ version \in Version /\ lastSaved \in Version \cup {Torn}

\* A document that is recognised holds exactly what the last successful save
\* wrote: never half a save, never an edit that was not saved, whatever saves
\* failed and whatever processes crashed before ("failing save() leaves the
\* file invalid", OMFile::saveFile; OMSSStoredObjectFactory::close).
RecognizedMeansSaved == document.signed => document.content = lastSaved

\* While a client has the document open to modify it, and while it is closing
\* it, the document is not recognised, so nobody else gets to open it
\* (OMSSStoredObjectFactory::openModify against OMFile::close).
Writing(f) ==
  /\ mode[f] = "modify"
  /\ phase[f] \in {"unsigned", "attached", "open", "saving", "stamping",
                   "abandoning", "lost"}

WritersHideDocument ==
  /\ \A f \in Client : Writing(f) => ~document.signed
  /\ \A f, g \in Client : Writing(f) /\ Writing(g) => f = g

\* A save that failed leaves the document unrecognised ("failing save() leaves
\* the file invalid", OMFile::saveFile).
FailedSaveLeavesInvalid ==
  document.content = Torn /\ (\A f \in Client : phase[f] # "saving") =>
    ~document.signed

\* What an open call restores is what the last successful save wrote
\* (AAFFileOpenExistingRead and Modify; OMFile::restoreRoot).
ReadersSeeLastSave ==
  [][\A f \in Client :
       phase[f] # "attached" /\ phase'[f] = "attached" /\ ~isNew'[f] =>
         memory'[f] = lastSaved]_vars

\* While the platform enforces the sharing modes, the contents under a client
\* that reads, and loads its objects lazily, do not change
\* (OMMS_SSStoredObjectFactory::openFile).
ReadersAreIsolated ==
  [][\A f \in Client : holds[f] /\ mode[f] = "read" /\ holds'[f] =>
       document'.content = document.content]_vars

\* When a valid file on a raw storage is closed, nothing of it is left in the
\* cache (OMSSStoredObjectFactory::close calls synchronize()).
ClosedMeansDurable ==
  \A f \in Client : phase[f] = "closed" /\ isValid[f] => disk = document

\* "Any unsaved changes will be written to the file before the Close
\* operation is complete" (AAF.idl, IAAFFile::Close).
CloseSaves ==
  [][\A f \in Client :
       phase[f] = "stamping" /\ phase'[f] = "closed" /\ mode[f] = "modify" =>
         document'.content = memory[f]]_vars

\* A file that is open has a header for GetHeader to return
\* (ImplAAFFile::GetHeader; AAF.idl lists AAFRESULT_NO_HEADER).
OpenFileHasHeader == \A f \in Client : phase[f] = "open" => head[f]

\* Between calls, definitions may be registered in the dictionary of an open
\* file (ImplAAFDictionary::RegisterTypeDef asserts _defRegistrationAllowed).
RegistrationAllowed ==
  \A f \in Client : phase[f] = "open" => registration[f]
=============================================================================
