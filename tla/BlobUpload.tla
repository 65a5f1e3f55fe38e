----------------------------- MODULE BlobUpload -----------------------------
(***************************************************************************)
(* Objects: the upload into a file, and the commit that makes the row and  *)
(* announces it.                                                           *)
(*                                                                         *)
(* An upload truncates the file of its object and copies the body into it, *)
(* part by part; another one of the same object may truncate and copy the  *)
(* same bytes meanwhile.  A commit asks whether there is a file, whatever  *)
(* is in it.  Clients may upload and commit in any order and repeat both.  *)
(* The id of an object is drawn by presign, which keeps no state.  Files   *)
(* and rows survive a crash.                                               *)
(***************************************************************************)
EXTENDS ApiTokens

CONSTANTS
    Objects, \* ids of objects that were drawn by presign
    Last     \* number of parts of an object

VARIABLES
    file,   \* file[o]: the parts that are in the file, or None
    object, \* object[o]: there is a row of blob_objects
    events, \* events[o]: number of blob.created of the object
    told,   \* told[o]: a commit of the object was answered 200
    cut     \* <<o, pc>>: a request was cut off at this stage

blobVars == <<file, object, events, told, cut>>

Parts == 1 .. Last
CostlyStage == {"copy", "publish", "answer"}

UploadInit ==
    /\ file = [o \in Objects |-> None]
    /\ object = [o \in Objects |-> FALSE]
    /\ events = [o \in Objects |-> 0]
    /\ told = [o \in Objects |-> FALSE]
    /\ cut = {}

\* What is lost when the requests are cut off.
Costs(R) == {<<req[r].id, req[r].pc>> : r \in {q \in R : req[q].pc \in CostlyStage}}

----------------------------------------------------------------------------
(* PUT /upload/{id}: FileBlob.Put *)

\* os.Create.
Truncate(r) ==
    /\ req[r].pc = "upload"
    /\ file' = [file EXCEPT ![req[r].id] = {}]
    /\ req' = [req EXCEPT ![r].pc = "copy", ![r].pos = 1]
    /\ UNCHANGED <<token, calls, object, events, told, cut>>

\* io.Copy writes at the offset of its own file descriptor.
CopyPart(r) ==
    /\ req[r].pc = "copy" /\ req[r].pos \in Parts
    /\ file' = [file EXCEPT ![req[r].id] = @ \cup {req[r].pos}]
    /\ req' = [req EXCEPT ![r].pos = @ + 1]
    /\ UNCHANGED <<token, calls, object, events, told, cut>>

\* Broken variant of EndOfBody: one part too early.
AlmostEndOfBody(r) == req[r].pos = Last

EndOfBody(r) == req[r].pos = Last + 1

\* 204.
FinishUpload(r) ==
    /\ req[r].pc = "copy" /\ EndOfBody(r)
    /\ Finish(r)
    /\ UNCHANGED <<token, calls, file, object, events, told, cut>>

----------------------------------------------------------------------------
(* POST /{id}/commit *)

\* The answer is 400 while there is no file.
Commit(r) ==
    /\ req[r].pc = "commit"
    /\ IF file[req[r].id] # None THEN Goto(r, "createObject") ELSE Finish(r)
    /\ UNCHANGED <<token, calls, file, object, events, told, cut>>

\* Broken variant of CreateObject: a conflict is taken for success.
CreateOrIgnore(r) ==
    /\ req[r].pc = "createObject"
    /\ object' = [object EXCEPT ![req[r].id] = TRUE]
    /\ Goto(r, "publish")
    /\ UNCHANGED <<token, calls, file, events, told, cut>>

\* The insert fails on the primary key when the object was committed before; the
\* answer is then 500.
CreateObject(r) ==
    /\ req[r].pc = "createObject"
    /\ IF object[req[r].id]
       THEN Finish(r) /\ UNCHANGED object
       ELSE object' = [object EXCEPT ![req[r].id] = TRUE] /\ Goto(r, "publish")
    /\ UNCHANGED <<token, calls, file, events, told, cut>>

\* blob.created is published.
Publish(r) ==
    /\ req[r].pc = "publish"
    /\ events' = [events EXCEPT ![req[r].id] = @ + 1]
    /\ Goto(r, "answer")
    /\ UNCHANGED <<token, calls, file, object, told, cut>>

Answer(r) ==
    /\ req[r].pc = "answer"
    /\ told' = [told EXCEPT ![req[r].id] = TRUE]
    /\ Finish(r)
    /\ UNCHANGED <<token, calls, file, object, events, cut>>

----------------------------------------------------------------------------
(* Trouble *)

\* A call fails, the client hangs up or its connection breaks.  A statement may take
\* effect and still return the error of the context that ended: an insert of CreateObject
\* then stands, and its handler gives up at "publish".
Interrupt(r) ==
    /\ req[r].pc # "idle"
    /\ cut' = cut \cup Costs({r})
    /\ Finish(r)
    /\ UNCHANGED <<token, calls, file, object, events, told>>

Crash ==
    /\ \E r \in Requests : req[r].pc # "idle"
    /\ cut' = cut \cup Costs(Requests)
    /\ req' = [r \in Requests |-> Idle]
    /\ UNCHANGED <<token, calls, file, object, events, told>>
=============================================================================
