----------------------------- MODULE FileUpload -----------------------------
(***************************************************************************)
(* The upload of one CV file (services/product_files.py and                *)
(* object_storage.py).                                                     *)
(*                                                                         *)
(* An intent is a row with a staging object the client may write to until  *)
(* the intent expires.  A call of complete reads the row, reads the        *)
(* object, checks what it read, stores it under a clean key of its own     *)
(* that no client can write to, and commits the row.  It locks nothing:    *)
(* two calls, and the client with the store, may take turns in any order.  *)
(*                                                                         *)
(* The declared checksum names the declared content; "infected" content is *)
(* what the validation of the PDF or the scanner refuses.                  *)
(***************************************************************************)
EXTENDS FiniteSets, Integers

CONSTANTS
  Call,      \* calls of complete, each with an idempotency key of its own
  Absent     \* no object, and nothing read

VARIABLES
  file,      \* the row: status, key of its object, expiry
  store,     \* the objects: the staging one, and a clean one for each call
  declared,  \* what the file really is whose checksum was declared
  call,      \* how far each call has come, and what it has read
  reply      \* idempotency record of each call

fileVars == <<file, store, declared, call, reply>>

Staging == "staging"
ASSUME FileAssumption == Staging \notin Call

Content == {"clean", "infected", "other"}
NotCalled == [at |-> "none", read |-> Absent]

FileInit ==
  /\ file = [status |-> "pending", key |-> Staging, open |-> TRUE]
  /\ store = [k \in Call \cup {Staging} |-> Absent]
  /\ declared \in {"clean", "infected"}
  /\ call = [c \in Call |-> NotCalled]
  /\ reply = [c \in Call |-> "none"]

-----------------------------------------------------------------------------

\* The client, or whoever has the signed URL, which is valid as long as the
\* intent; "other" is any content with another checksum.
Put ==
  /\ file.open
  /\ \E c \in {declared, "other"} : store' = [store EXCEPT ![Staging] = c]
  /\ UNCHANGED <<file, declared, call, reply>>

Expire ==
  /\ file.open
  /\ file' = [file EXCEPT !.open = FALSE]
  /\ UNCHANGED <<store, declared, call, reply>>

At(c, step) == call[c].at = step
GoTo(c, step) == call' = [call EXCEPT ![c].at = step]

\* The record is inserted uncommitted, the row is read; a row that is uploaded
\* already is the answer.
Begin(c) ==
  /\ At(c, "none") /\ reply[c] = "none"
  /\ \/ /\ file.status = "pending" /\ file.open
        /\ GoTo(c, "begun")
        /\ UNCHANGED reply
     \/ /\ file.status = "uploaded"
        /\ reply' = [reply EXCEPT ![c] = "accepted"]
        /\ UNCHANGED call
  /\ UNCHANGED <<file, store, declared>>

\* stat and read; without an object the call ends and nothing is committed.
ReadObject(c) ==
  /\ At(c, "begun")
  /\ call' = [call EXCEPT ![c] = IF store[Staging] = Absent THEN NotCalled
                                 ELSE [at |-> "read", read |-> store[Staging]]]
  /\ UNCHANGED <<file, store, declared, reply>>

\* Size, type, checksum, structure and scanner.
Passes(c) == call[c].read = declared /\ declared = "clean"

\* _reject writes the row that was read, whatever it has become.
Reject(c) ==
  /\ At(c, "read") /\ ~Passes(c)
  /\ file' = [file EXCEPT !.status = "rejected"]
  /\ reply' = [reply EXCEPT ![c] = "refused"]
  /\ GoTo(c, "done")
  /\ UNCHANGED <<store, declared>>

\* Fault: the object is served from where the client put it.
StagingKey(c) == Staging

CleanKey(c) == c

StoreClean(c) ==
  /\ At(c, "read") /\ Passes(c)
  /\ store' = [store EXCEPT ![CleanKey(c)] = call[c].read]
  /\ GoTo(c, "stored")
  /\ UNCHANGED <<file, declared, reply>>

Accept(c) ==
  /\ At(c, "stored")
  /\ file' = [file EXCEPT !.status = "uploaded", !.key = CleanKey(c)]
  /\ reply' = [reply EXCEPT ![c] = "accepted"]
  /\ GoTo(c, "committed")
  /\ UNCHANGED <<store, declared>>

\* After the commit; an error is only logged.
DeleteStaging(c) ==
  /\ At(c, "committed")
  /\ store' \in {store, [store EXCEPT ![Staging] = Absent]}
  /\ GoTo(c, "done")
  /\ UNCHANGED <<file, declared, reply>>

\* The scanner does not answer, the store fails or the process dies: what was
\* not committed is gone, a clean object stays.
GiveUp(c) ==
  /\ call[c].at \in {"begun", "read", "stored", "committed"}
  /\ call' = [call EXCEPT ![c] = NotCalled]
  /\ UNCHANGED <<file, store, declared, reply>>

FileNext ==
  \/ Put \/ Expire
  \/ \E c \in Call : \/ Begin(c) \/ ReadObject(c) \/ Reject(c) \/ StoreClean(c)
                     \/ Accept(c) \/ DeleteStaging(c) \/ GiveUp(c)

\* read_owned: what a scan may be created from and a worker reads.
Readable == file.status = "uploaded"

-----------------------------------------------------------------------------
(* Properties. *)

FileTypeOK ==
  /\ file \in [status: {"pending", "uploaded", "rejected"}, key: Call \cup {Staging}, open: BOOLEAN]
  /\ store \in [Call \cup {Staging} -> Content \cup {Absent}]
  /\ declared \in Content
  /\ call \in [Call -> [at: {"none", "begun", "read", "stored", "committed", "done"},
                        read: Content \cup {Absent}]]
  /\ reply \in [Call -> {"none", "accepted", "refused"}]

\* What a readable file gives is what was declared, checked and found clean,
\* however the client rewrites the staging object while calls check it, and
\* whichever of two calls commits last.
ReadableIsChecked == Readable => store[file.key] = "clean" /\ declared = "clean"
=============================================================================
