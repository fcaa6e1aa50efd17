--------------------------- MODULE DocumentStore ---------------------------
(***************************************************************************)
(* documents.service.ts: uploads in two phases, with the session kept as a *)
(* job row; versions of a document; and download grants, which live in the *)
(* memory of the process.  Rows are read, awaited on and written by id.    *)
(***************************************************************************)
EXTENDS Naturals, FiniteSets

CONSTANTS
    Requests,      \* requests that may be in progress at once
    Uploads,       \* upload sessions
    Tokens,        \* download tokens
    MaxDocuments,  \* bound on the document rows
    Null

VARIABLES
    upload,       \* the job of each session: status, scan, documents made from it
    doc,          \* document rows: parent (itself for a first version), version, deleted
    rows,         \* how many there are
    grant,        \* grants: the entry of each token
    delivered,    \* history: downloads that each token paid for
    call,         \* what each request is in the middle of
    overlapped    \* history: have two requests for a version been in progress at once?

documentVars == <<upload, doc, rows, grant, delivered, call, overlapped>>
-----------------------------------------------------------------------------
Docs == 1..MaxDocuments
UploadRow == [status: {"none", "RUNNING", "FAILED", "DONE"}, infected: BOOLEAN, made: SUBSET Docs]
DocRow == [root: Docs, version: Nat, deleted: BOOLEAN]
Grant == [live: BOOLEAN, fresh: BOOLEAN, of: Docs]
Request == [at: {"idle", "create", "finish", "versions", "version", "grant"},
            upload: Uploads \cup {Null}, of: Docs, next: Nat]
Idle == [at |-> "idle", upload |-> Null, of |-> 1, next |-> 0]

Init ==
    /\ upload = [u \in Uploads |-> [status |-> "none", infected |-> FALSE, made |-> {}]]
    /\ doc = [d \in Docs |-> [root |-> d, version |-> 0, deleted |-> FALSE]]
    /\ rows = 0
    /\ grant = [t \in Tokens |-> [live |-> FALSE, fresh |-> FALSE, of |-> 1]]
    /\ delivered = [t \in Tokens |-> 0]
    /\ call = [r \in Requests |-> Idle] /\ overlapped = FALSE

Exists(d) == d <= rows
Readable(d) == Exists(d) /\ ~doc[d].deleted
At(r, stage) == call[r].at = stage
Step(r, next) == call' = [call EXCEPT ![r] = next]
Insert(root, version) ==
    /\ rows < MaxDocuments /\ rows' = rows + 1
    /\ doc' = [doc EXCEPT ![rows + 1] = [root |-> root, version |-> version, deleted |-> FALSE]]
-----------------------------------------------------------------------------
\* createUploadSession: the scan is decided by the name of the file.
CreateSession(u, infected) ==
    /\ upload[u].status = "none"
    /\ upload' = [upload EXCEPT ![u] = [status |-> "RUNNING", infected |-> infected, made |-> {}]]
    /\ UNCHANGED <<doc, rows, grant, delivered, call, overlapped>>

\* Wrong variant: a session that is done is completed again.
BeginCompleteAgain(r, u) ==
    /\ At(r, "idle") /\ upload[u].status # "none"
    /\ Step(r, [Idle EXCEPT !.at = "create", !.upload = u])
    /\ UNCHANGED <<upload, doc, rows, grant, delivered, overlapped>>

\* completeUploadSession: a session that is done is refused; an infected one is
\* marked FAILED, each time; the document is stored before the job is.
BeginComplete(r, u) ==
    /\ At(r, "idle") /\ upload[u].status \notin {"none", "DONE"}
    /\ Step(r, [Idle EXCEPT !.at = "create", !.upload = u])
    /\ UNCHANGED <<upload, doc, rows, grant, delivered, overlapped>>
RejectInfected(r) ==
    /\ At(r, "create") /\ upload[call[r].upload].infected
    /\ upload' = [upload EXCEPT ![call[r].upload].status = "FAILED"]
    /\ Step(r, Idle)
    /\ UNCHANGED <<doc, rows, grant, delivered, overlapped>>
CreateDocument(r) ==
    /\ At(r, "create") /\ ~upload[call[r].upload].infected
    /\ Insert(rows + 1, 1)
    /\ upload' = [upload EXCEPT ![call[r].upload].made = @ \cup {rows + 1}]
    /\ Step(r, [call[r] EXCEPT !.at = "finish"])
    /\ UNCHANGED <<grant, delivered, overlapped>>
FinishSession(r) ==
    /\ At(r, "finish")
    /\ upload' = [upload EXCEPT ![call[r].upload].status = "DONE"]
    /\ Step(r, Idle)
    /\ UNCHANGED <<doc, rows, grant, delivered, overlapped>>
-----------------------------------------------------------------------------
\* uploadNewVersion: the parent is read, then the newest version of it that is
\* not deleted, and one is added to that when the row is created.
Chain(d) == {e \in Docs : Readable(e) /\ (e = d \/ (doc[e].root = d /\ e # d))}
BeginVersion(r, d) ==
    /\ At(r, "idle") /\ Readable(d)
    /\ Step(r, [Idle EXCEPT !.at = "versions", !.of = d])
    /\ overlapped' = (overlapped \/ \E q \in Requests : At(q, "versions") \/ At(q, "version"))
    /\ UNCHANGED <<upload, doc, rows, grant, delivered>>

\* Wrong variant: the version that was named is numbered on, not the newest.
FindLatestNamed(r) ==
    /\ At(r, "versions")
    /\ Step(r, [call[r] EXCEPT !.at = "version", !.next = doc[call[r].of].version + 1])
    /\ UNCHANGED <<upload, doc, rows, grant, delivered, overlapped>>

FindLatest(r) ==
    /\ At(r, "versions")
    /\ LET d == call[r].of
           numbers == {doc[e].version : e \in Chain(d)}
           newest == IF numbers = {} THEN doc[d].version
                     ELSE CHOOSE n \in numbers : \A k \in numbers : k <= n IN
       Step(r, [call[r] EXCEPT !.at = "version", !.next = newest + 1])
    /\ UNCHANGED <<upload, doc, rows, grant, delivered, overlapped>>
CreateVersion(r) ==
    /\ At(r, "version")
    /\ Insert(call[r].of, call[r].next)
    /\ Step(r, Idle)
    /\ UNCHANGED <<upload, grant, delivered, overlapped>>

DeleteDocument(d) ==
    /\ Readable(d) /\ doc' = [doc EXCEPT ![d].deleted = TRUE]
    /\ UNCHANGED <<upload, rows, grant, delivered, call, overlapped>>
-----------------------------------------------------------------------------
\* getDownloadUrl reads the document and sets the grant later; downloadByGrant
\* takes the grant out in one go, whatever it then thinks of it.
BeginGrant(r, d) ==
    /\ At(r, "idle") /\ Readable(d)
    /\ Step(r, [Idle EXCEPT !.at = "grant", !.of = d])
    /\ UNCHANGED <<upload, doc, rows, grant, delivered, overlapped>>
SetGrant(r, t) ==
    /\ At(r, "grant") /\ ~grant[t].live /\ ~grant[t].fresh
    /\ grant' = [grant EXCEPT ![t] = [live |-> TRUE, fresh |-> TRUE, of |-> call[r].of]]
    /\ Step(r, Idle)
    /\ UNCHANGED <<upload, doc, rows, delivered, overlapped>>

\* Wrong variant: only a grant that is used for its document is taken out.
DownloadKept(t, d) ==
    /\ grant[t].live /\ grant[t].of = d
    /\ delivered' = [delivered EXCEPT ![t] = IF grant[t].fresh THEN @ + 1 ELSE @]
    /\ UNCHANGED <<upload, doc, rows, grant, call, overlapped>>

Download(t, d) ==
    /\ grant[t].live
    /\ grant' = [grant EXCEPT ![t].live = FALSE]
    /\ delivered' = [delivered EXCEPT ![t] = IF grant[t].fresh /\ grant[t].of = d THEN @ + 1 ELSE @]
    /\ UNCHANGED <<upload, doc, rows, call, overlapped>>
GrantExpires(t) ==
    /\ grant[t].fresh /\ grant[t].live /\ grant' = [grant EXCEPT ![t].fresh = FALSE]
    /\ UNCHANGED <<upload, doc, rows, delivered, call, overlapped>>
-----------------------------------------------------------------------------
\* A request fails between two statements; the process restarts.
Abandon(r) ==
    /\ ~At(r, "idle") /\ Step(r, Idle)
    /\ UNCHANGED <<upload, doc, rows, grant, delivered, overlapped>>
Restart ==
    /\ call' = [r \in Requests |-> Idle]
    /\ grant' = [t \in Tokens |-> [grant[t] EXCEPT !.live = FALSE]]
    /\ UNCHANGED <<upload, doc, rows, delivered, overlapped>>

Next ==
    \/ \E r \in Requests :
          \/ \E u \in Uploads : BeginComplete(r, u)
          \/ RejectInfected(r) \/ CreateDocument(r) \/ FinishSession(r)
          \/ \E d \in Docs : BeginVersion(r, d) \/ BeginGrant(r, d)
          \/ FindLatest(r) \/ CreateVersion(r)
          \/ \E t \in Tokens : SetGrant(r, t)
          \/ Abandon(r)
    \/ \E u \in Uploads, infected \in BOOLEAN : CreateSession(u, infected)
    \/ \E d \in Docs : DeleteDocument(d)
    \/ \E t \in Tokens : GrantExpires(t) \/ \E d \in Docs : Download(t, d)
    \/ Restart

Spec == Init /\ [][Next]_documentVars
-----------------------------------------------------------------------------
TypeOK ==
    /\ upload \in [Uploads -> UploadRow] /\ doc \in [Docs -> DocRow] /\ rows \in 0..MaxDocuments
    /\ grant \in [Tokens -> Grant] /\ delivered \in [Tokens -> Nat]
    /\ call \in [Requests -> Request]
    /\ overlapped \in BOOLEAN

\* A token is worth one download, of the document it was given for, however the
\* requests that carry it come in.
SingleUse == \A t \in Tokens : delivered[t] <= 1 /\ (delivered[t] = 1 => ~grant[t].live)

\* The two phases of an upload: an infected file never becomes a document, and a
\* session that is done, once the requests that raced for it are gone, is never
\* taken up again, although nothing locks it.
UploadsSettle ==
    [][ \A u \in Uploads :
          /\ upload[u].infected => upload'[u].made = {}
          /\ upload[u].status = "DONE" /\ (\A r \in Requests : call[r].upload # u) =>
                upload'[u] = upload[u] /\ \A r \in Requests : call'[r].upload # u ]_documentVars

\* Of the versions of one document that are not deleted no two have the same
\* number, if the requests for them did not overlap.
VersionsApart ==
    ~overlapped =>
        \A d, e \in Docs : d # e /\ Readable(d) /\ Readable(e) /\ doc[d].root = doc[e].root =>
            doc[d].version # doc[e].version

\* What a store of documents promises at any moment.
StoreSafe == SingleUse /\ VersionsApart
=============================================================================
