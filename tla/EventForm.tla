----------------------------- MODULE EventForm ------------------------------
(***************************************************************************)
(* Files of a form: the images of a new event                              *)
(* (frontend/src/components/ui/multi-document-uploader.tsx in the dialog   *)
(* events/EventCreationModal.tsx) or one document of an organizer          *)
(* (organizer/DocumentUploader.tsx).  A file is read before it becomes     *)
(* part of the form, which may have changed meanwhile.  Left out are the   *)
(* other fields, the steps and the preview, and the order of the files     *)
(* that are added together.                                                *)
(***************************************************************************)
EXTENDS Naturals, FiniteSets, SequencesExt

CONSTANTS Files,    \* names of files
          MaxFiles, \* maxFiles of the images
          Reads     \* selections that can be read at once: a bound

VARIABLES
  single,   \* a document, not images: a constant of a behaviour
  open,     \* the form is shown
  files,    \* the value of the field, a sequence of names
  reading,  \* handleFileSelection, see ReadType
  submit,   \* onFinalSubmit: the images being uploaded; << >> when it is not
  creating, \* the request of the event is under way (isCreating)
  wanted,   \* history: the files chosen and neither removed nor unreadable
  crossed   \* history: the field changed or was chosen for during a reading

formVars == <<files, wanted, crossed>>
vars == <<single, open, formVars, reading, submit, creating>>

Lists == UNION {[1..n -> Files] : n \in 0..(MaxFiles + Cardinality(Files))}
NotReading == [on |-> FALSE, base |-> << >>, new |-> {}]

\* base: the value that the closure of the handler has; new: what it reads.
ReadType == [on : BOOLEAN, base : Lists, new : SUBSET Files]

TypeOK ==
  /\ single \in BOOLEAN /\ open \in BOOLEAN
  /\ files \in Lists /\ wanted \in SUBSET Files /\ crossed \in BOOLEAN
  /\ reading \in [Reads -> ReadType]
  /\ submit \in Lists /\ creating \in BOOLEAN

Init ==
  /\ single \in BOOLEAN /\ open = TRUE
  /\ files = << >> /\ wanted = {} /\ crossed = FALSE
  /\ reading = [r \in Reads |-> NotReading]
  /\ submit = << >> /\ creating = FALSE

UnderWay(rs) == {r \in Reads : rs[r].on}
Limit == IF single THEN 1 ELSE MaxFiles

\* The field gets a value; with an empty one a crossing is over.
Set(new, want) ==
  /\ files' = new
  /\ wanted' = want
  /\ crossed' = \/ UnderWay(reading') # {}
                \/ crossed /\ (new # << >> \/ want # {})
-----------------------------------------------------------------------------
\* Mutant: the number is not looked at.
Unlimited(fs) == fs \ ToSet(files)

\* validateMultipleFiles: names that are there are left out, too many files
\* altogether; a single document replaces the other.
Valid(fs) ==
  IF single THEN fs
  ELSE IF Len(files) + Cardinality(fs) > Limit THEN {} ELSE fs \ ToSet(files)

\* handleFileSelection up to its await; the crossing of selections counts.
Choose(r, fs) ==
  /\ open /\ ~reading[r].on
  /\ Valid(fs) # {} /\ (single => Cardinality(fs) = 1)
  /\ reading' = [reading EXCEPT ![r] =
                   [on |-> TRUE, base |-> files, new |-> Valid(fs)]]
  /\ wanted' = Valid(fs) \cup (IF single THEN {} ELSE wanted)
  /\ crossed' = (crossed \/ UnderWay(reading) # {})
  /\ UNCHANGED <<single, open, files, submit, creating>>

\* Mutant: added to what is there by now, which was not validated.
AddedLate(r, read) == files \o SetToSeq(read)

\* What the handler makes of the images: its own value with the files added.
Added(r, read) == reading[r].base \o SetToSeq(read)

\* The files have been read, but for those that could not be.  A form that was
\* closed has no field any more.
ImagesRead(r) ==
  /\ ~single /\ reading[r].on
  /\ reading' = [reading EXCEPT ![r] = NotReading]
  /\ \E read \in SUBSET reading[r].new :
       LET want == wanted \ (reading[r].new \ read) IN
       IF open /\ read # {} THEN Set(Added(r, read), want)
       ELSE /\ wanted' = IF open THEN want ELSE wanted
            /\ UNCHANGED <<files, crossed>>
  /\ UNCHANGED <<single, open, submit, creating>>

\* The document takes the place of another; unreadable, it leaves none.
DocumentRead(r) ==
  /\ single /\ reading[r].on
  /\ reading' = [reading EXCEPT ![r] = NotReading]
  /\ \/ Set(SetToSeq(reading[r].new), wanted)
     \/ Set(<< >>, wanted \ reading[r].new)
  /\ UNCHANGED <<single, open, submit, creating>>

\* handleRemoveFile, with the value rendered.
RemoveFile(i) ==
  /\ open /\ i \in DOMAIN files
  /\ UNCHANGED reading
  /\ Set(RemoveAt(files, i), wanted \ {files[i]})
  /\ UNCHANGED <<single, open, submit, creating>>

\* handleRemoveAllFiles.
RemoveAllFiles ==
  /\ open /\ ~single /\ Len(files) > 1
  /\ UNCHANGED reading
  /\ Set(<< >>, {})
  /\ UNCHANGED <<single, open, submit, creating>>

\* A document that cannot be accepted.
Reject ==
  /\ single
  /\ UNCHANGED reading
  /\ Set(<< >>, {})
  /\ UNCHANGED <<single, open, submit, creating>>
-----------------------------------------------------------------------------
\* reset, with the dialog closed; readings go on.
Reset ==
  /\ UNCHANGED reading
  /\ Set(<< >>, {})
  /\ open' = FALSE

\* The button is off during a submission and a creation.
Submit ==
  /\ open /\ ~single /\ submit = << >> /\ ~creating
  /\ files # << >>
  /\ submit' = files
  /\ UNCHANGED <<single, open, formVars, reading, creating>>

\* handleThumbnails is done or has failed: what was submitted is sent, without
\* waiting for the answer, or is not; the dialog is reset and closed, even one
\* that was closed and opened again meanwhile.
Uploaded ==
  /\ submit # << >>
  /\ submit' = << >>
  /\ creating' \in BOOLEAN
  /\ Reset
  /\ UNCHANGED single

\* Then the page of the new event is shown, and this one is gone.
Created ==
  /\ creating
  /\ creating' = FALSE /\ open' = FALSE
  /\ reading' = [r \in Reads |-> NotReading]
  /\ Set(<< >>, {})
  /\ UNCHANGED <<single, submit>>

CreateFails ==
  /\ creating
  /\ creating' = FALSE
  /\ UNCHANGED <<single, open, formVars, reading, submit>>

\* Cancelled: a submission goes on.
Close ==
  /\ open /\ ~single
  /\ Reset
  /\ UNCHANGED <<single, submit, creating>>

Open ==
  /\ ~open
  /\ open' = TRUE
  /\ UNCHANGED <<single, formVars, reading, submit, creating>>

Next ==
  \/ \E r \in Reads : \/ \E fs \in SUBSET Files : Choose(r, fs)
                      \/ ImagesRead(r) \/ DocumentRead(r)
  \/ \E i \in 1..MaxFiles : RemoveFile(i)
  \/ RemoveAllFiles \/ Reject \/ Submit \/ Uploaded \/ Created \/ CreateFails
  \/ Close \/ Open

Spec == Init /\ [][Next]_vars
-----------------------------------------------------------------------------
\* The field keeps to what was validated against the value it had then: no
\* more files than allowed and none twice, in whatever order files are read,
\* removed and chosen; and if nothing else happened during any reading, it has
\* exactly the files that were chosen, could be read and were not removed
\* (multi-document-uploader.tsx:170, DocumentUploader.tsx:115).
FilesFit ==
  /\ Len(files) <= Limit /\ IsInjective(files)
  /\ open /\ UnderWay(reading) = {} /\ ~crossed => ToSet(files) = wanted
=============================================================================
