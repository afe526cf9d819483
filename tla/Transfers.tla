----------------------------- MODULE Transfers -----------------------------
(***************************************************************************)
(* The transfer commands of the command-line client against the server:    *)
(* upload with its resume file, deploy of a Web Yard, and download.        *)
(*                                                                         *)
(* Several commands may run at once over one source file and one resume    *)
(* file.  Every request is served in one step (the server's own            *)
(* interleavings are the subject of Uploads), but the answer may be lost,  *)
(* the process killed or the deploy interrupted while requests are under   *)
(* way, the source file edited and the grant expire at any time.           *)
(***************************************************************************)
EXTENDS Integers, FiniteSets

CONSTANTS
  Processes,    \* commands that may run at the same time
  Contents,     \* what the source file may hold
  Large,        \* the contents above SINGLE_UPLOAD_LIMIT_BYTES, all of one size
  Initial,      \* the contents it starts with
  Parts,        \* part numbers of a large content
  BatchSize,    \* GRANT_BATCH_SIZE
  MaxEdits,     \* bound on edits of the file and commits of its repository
  MaxDeploys,   \* bound on deploys
  MaxFaults,    \* bound on lost answers, kills, interrupts, expiries, deletions
  None

TransfersAssumption ==
  /\ Large \subseteq Contents /\ Initial \subseteq Contents /\ None \notin Contents
  /\ BatchSize \in Nat \ {0}
  /\ {MaxEdits, MaxDeploys, MaxFaults} \subseteq Nat

VARIABLES
  file,    \* the source file: its fingerprint, its content, the commit it is in
  resume,  \* logical path -> resume file, or None
  server,  \* rows : upload reservations by stable key, deploys : their states
  cmd,     \* process -> the command it runs
  faults

vars == <<file, resume, server, cmd, faults>>

Deploys == 1..MaxDeploys
Paths == {0} \cup Deploys              \* 0 is the object's own path
Prints == 1..(MaxEdits + 1)
Keys == Paths \X Prints                \* idempotency_digest over path and fingerprint

NoEtags == [n \in Parts |-> None]
NoRow == [state |-> "none", live |-> FALSE, content |-> None, commit |-> 0,
          granted |-> {}, parts |-> NoEtags, bytes |-> None]

(* One command: where it stands, what inspect() measured, the upload it    *)
(* writes to and what it knows of its parts.                               *)
Idle == [pc |-> "idle", kind |-> None, path |-> 0, print |-> 1, content |-> None,
         commit |-> 0, key |-> None, etags |-> NoEtags, todo |-> {}, body |-> None]

Init ==
  /\ file \in [print : {1}, content : Initial, commit : {1}]
  /\ resume = [p \in Paths |-> None]
  /\ server = [rows |-> [k \in Keys |-> NoRow], deploys |-> [d \in Deploys |-> "none"]]
  /\ cmd = [p \in Processes |-> Idle]
  /\ faults = 0

At(p, pc) == cmd[p].pc = pc

---------------------------------------------------------------------------
(* The server's answers.  An outcome says whether the request succeeded    *)
(* and what the server then holds.                                         *)

Row(p) == IF cmd[p].key = None THEN NoRow ELSE server.rows[cmd[p].key]

Outcome(ok, p, row) ==
  [ok |-> ok, server |-> IF cmd[p].key = None THEN server
                         ELSE [server EXCEPT !.rows[cmd[p].key] = row]]

(* reserve_or_replay: a new reservation, or the same one renewed while it  *)
(* is still requested and was asked for with the same provenance.          *)
ServeReserve(p) ==
  LET c == cmd[p]
      r == Row(p)
  IN IF r.state = "none"
       THEN Outcome(TRUE, p, [NoRow EXCEPT !.state = "requested", !.live = TRUE,
                                !.content = c.content, !.commit = c.commit])
       ELSE IF r.state = "requested" /\ r.commit = c.commit
              THEN Outcome(TRUE, p, [r EXCEPT !.live = TRUE])
              ELSE Outcome(FALSE, p, r)

(* Mutant: the body is stored whatever its checksum.                       *)
ServePutUnchecked(p) ==
  LET r == Row(p)
  IN IF r.state = "requested" /\ r.live
       THEN Outcome(TRUE, p, [r EXCEPT !.state = "uploaded", !.bytes = file.content])
       ELSE Outcome(FALSE, p, r)

(* The single-request upload: the bytes are those the file holds now.      *)
ServePut(p) ==
  LET r == Row(p)
  IN IF r.state = "requested" /\ r.live /\ file.content = r.content
       THEN Outcome(TRUE, p, [r EXCEPT !.state = "uploaded", !.bytes = file.content])
       ELSE Outcome(FALSE, p, r)

(* The first parts in order that have no etag yet, one batch of them.      *)
Pending(c) == {n \in Parts : c.etags[n] = None}
(* Mutant: every batch starts at the first part.                           *)
BatchFromStart(c) == {n \in Parts : Cardinality({m \in Parts : m < n}) < BatchSize}

Batch(c) == {n \in Pending(c) : Cardinality({m \in Pending(c) : m < n}) < BatchSize}

ServeGrants(p) ==
  LET r == Row(p)
  IN IF r.state = "requested" /\ r.content \in Large /\ r.live
       THEN Outcome(TRUE, p, [r EXCEPT !.granted = @ \cup Batch(cmd[p])])
       ELSE Outcome(FALSE, p, r)

(* Parts are read from the file as it is now; only a file of the measured  *)
(* size fills them.                                                        *)
Stored(p, ns) ==
  LET r == Row(p)
  IN IF r.state = "requested" /\ file.content \in Large
       THEN [r EXCEPT !.parts = [n \in Parts |->
               IF n \in ns \cap r.granted THEN file.content ELSE @[n]]]
       ELSE r

ServePart(p, n) ==
  Outcome(Row(p).state = "requested" /\ n \in Row(p).granted /\ file.content \in Large,
          p, Stored(p, {n}))

(* Completion of a large upload: every part received and named by its      *)
(* etag, and the whole is what the reservation declared.                   *)
ServeComplete(p) ==
  LET r == Row(p)
      c == cmd[p]
  IN IF \/ r.state = "uploaded" /\ r.content \notin Large
        \/ /\ r.state = "requested" /\ r.content \in Large
           /\ \A n \in Parts : r.parts[n] = c.etags[n] /\ r.parts[n] = r.content
       THEN Outcome(TRUE, p, [r EXCEPT !.state = "complete",
                                !.bytes = IF r.content \in Large THEN r.content ELSE @])
       ELSE Outcome(FALSE, p, r)

(* abort_storage removes the bytes whatever the state; then the row moves  *)
(* only from requested or uploaded.                                        *)
ServeAbort(p) ==
  LET r == Row(p)
  IN IF r.state \in {"requested", "uploaded"}
       THEN Outcome(TRUE, p, [r EXCEPT !.state = "aborted", !.bytes = None,
                                       !.parts = NoEtags, !.granted = {}])
       ELSE Outcome(FALSE, p, [r EXCEPT !.bytes = None])

ServeDownload(p) ==
  Outcome(Row(p).state = "complete", p, Row(p))

Deploying(ok, p, status) ==
  [ok |-> ok, server |-> [server EXCEPT !.deploys[cmd[p].path] = status]]

ServeStart(p) == Deploying(TRUE, p, "uploading")

(* Only a deploy that is uploading and has its files becomes live.         *)
ServeFinalise(p) ==
  LET d == cmd[p].path
      ok == /\ server.deploys[d] = "uploading"
            /\ \E k \in Keys : k[1] = d /\ server.rows[k].state = "complete"
  IN Deploying(ok, p, IF ok THEN "live" ELSE server.deploys[d])

ServeFailDeploy(p) ==
  LET ok == server.deploys[cmd[p].path] = "uploading"
  IN Deploying(ok, p, IF ok THEN "failed" ELSE server.deploys[cmd[p].path])

Serve(p) ==
  CASE At(p, "start") -> ServeStart(p)
    [] At(p, "reserve") -> ServeReserve(p)
    [] At(p, "put") -> ServePut(p)
    [] At(p, "grants") -> ServeGrants(p)
    [] At(p, "complete") -> ServeComplete(p)
    [] At(p, "abort") -> ServeAbort(p)
    [] At(p, "finalise") -> ServeFinalise(p)
    [] At(p, "fail") -> ServeFailDeploy(p)
    [] At(p, "ask") -> ServeDownload(p)

Requests == {"start", "reserve", "put", "grants", "complete", "abort", "finalise", "fail", "ask"}

(* What the server may hold once the requests under way are over: each was *)
(* applied or never arrived.  Parts are sent side by side.                 *)
UnderWay(p) ==
  IF At(p, "parts")
    THEN {Outcome(FALSE, p, Stored(p, ns)).server : ns \in SUBSET cmd[p].todo}
    ELSE {server} \cup (IF cmd[p].pc \in Requests THEN {Serve(p).server} ELSE {})

---------------------------------------------------------------------------
(* The commands                                                            *)

Fault == faults < MaxFaults /\ faults' = faults + 1

Become(p, c) == cmd' = [cmd EXCEPT ![p] = c]

GoTo(p, pc) == Become(p, [cmd[p] EXCEPT !.pc = pc])

Reported(c) == [Idle EXCEPT !.pc = "report", !.kind = c.kind, !.path = c.path,
                            !.key = c.key, !.content = c.content, !.body = c.body]

(* Mutant: any failed upload is aborted.                                   *)
AfterErrorAborts(c) ==
  IF c.pc \in {"put", "grants", "parts", "complete"} THEN [c EXCEPT !.pc = "abort"]
  ELSE IF c.kind = "deploy" /\ c.pc \notin {"start", "fail"} THEN [c EXCEPT !.pc = "fail"]
  ELSE Idle

(* An error ends the command.  single_upload first aborts an upload whose  *)
(* put failed, and deploy_one fails a deploy it has started; the answers   *)
(* to both are ignored.                                                    *)
AfterError(c) ==
  IF c.pc = "put" THEN [c EXCEPT !.pc = "abort"]
  ELSE IF c.kind = "deploy" /\ c.pc \notin {"start", "fail"} THEN [c EXCEPT !.pc = "fail"]
  ELSE Idle

(* The resume state follows the part just acknowledged.                    *)
AfterPart(c, n, etag) ==
  LET d == [c EXCEPT !.etags[n] = etag, !.todo = @ \ {n}]
  IN [d EXCEPT !.pc = IF d.todo # {} THEN "parts"
                      ELSE IF Pending(d) # {} THEN "grants" ELSE "complete"]

AfterUpload(c) ==
  IF c.kind = "deploy" THEN [c EXCEPT !.pc = "finalise"] ELSE Reported(c)

AfterAnswer(c) ==
  CASE c.pc = "start" -> [c EXCEPT !.pc = "resume"]
    [] c.pc = "reserve" -> [c EXCEPT !.commit = 0, !.pc = IF c.content \in Large THEN "grants" ELSE "put"]
    [] c.pc = "put" -> [c EXCEPT !.pc = "complete"]
    [] c.pc = "grants" -> [c EXCEPT !.pc = "parts", !.todo = Batch(c)]
    [] c.pc = "complete" -> AfterUpload(c)
    [] c.pc = "finalise" -> Reported(c)
    [] c.pc = "abort" -> AfterError(c)
    [] c.pc = "fail" -> Idle
    [] c.pc = "ask" -> [c EXCEPT !.pc = "fetch", !.content = server.rows[c.key].content]

(* The resume file a command writes: whose upload it is and its parts.     *)
Saved(c) == [print |-> c.print, key |-> c.key, etags |-> c.etags]

(* fresh_upload saves the resume state of a large reservation; a completed *)
(* upload removes it.                                                      *)
ResumeAfter(c) ==
  CASE c.pc = "reserve" /\ c.content \in Large -> [resume EXCEPT ![c.path] = Saved(c)]
    [] c.pc = "complete" /\ c.content \in Large -> [resume EXCEPT ![c.path] = None]
    [] OTHER -> resume

(* Bound: only uploads run side by side, because only they share a resume  *)
(* file and a reservation.  A deploy writes under paths of its own and is  *)
(* explored without uploads around it.                                     *)
MayRun(kind) ==
  /\ \A q \in Processes : At(q, "idle") \/ (kind = "upload" /\ cmd[q].kind = "upload")
  /\ kind = "deploy" => \A k \in Keys : k[1] = 0 => server.rows[k].state = "none"
  /\ kind = "upload" => \A d \in Deploys : server.deploys[d] = "none"

(* upload or deploy starts.                                                *)
Begin(p, kind, path) ==
  /\ At(p, "idle") /\ MayRun(kind)
  /\ kind = "deploy" <=> path # 0
  /\ kind = "deploy" => server.deploys[path] = "none"
  /\ Become(p, [Idle EXCEPT !.pc = IF kind = "deploy" THEN "start" ELSE "resume",
                            !.kind = kind, !.path = path])
  /\ UNCHANGED <<file, resume, server, faults>>

(* execute: one request and its answer.                                    *)
Answered(p) ==
  /\ cmd[p].pc \in Requests
  /\ LET out == Serve(p)
     IN /\ server' = out.server
        /\ Become(p, IF out.ok THEN AfterAnswer(cmd[p]) ELSE AfterError(cmd[p]))
        /\ resume' = IF out.ok THEN ResumeAfter(cmd[p]) ELSE resume
  /\ UNCHANGED <<file, faults>>

(* The request or its answer is lost, or the answer is not what the        *)
(* protocol allows: the client never sends a request again by itself.      *)
Lost(p) ==
  /\ Fault
  /\ cmd[p].pc \in Requests \cup {"resume", "parts"}
  /\ server' \in UnderWay(p)
  /\ Become(p, AfterError(cmd[p]))
  /\ UNCHANGED <<file, resume>>

(* A start whose answer fails validate_start is failed at once.            *)
Inconsistent(p) ==
  /\ Fault
  /\ At(p, "start")
  /\ server' = Serve(p).server
  /\ GoTo(p, "fail")
  /\ UNCHANGED <<file, resume>>

(* inspect: what the file holds, which must not change while it is read,   *)
(* and the key of the reservation that follows from it.                    *)
Inspected(p) ==
  [cmd[p] EXCEPT !.print = file.print, !.content = file.content,
                 !.commit = file.commit, !.key = <<cmd[p].path, file.print>>]

(* usable_resume: a resume file of another fingerprint, or of an upload    *)
(* the server does not know, is removed; otherwise the parts the server    *)
(* has received are kept, and the state of the upload is not looked at.    *)
UsableResume(p) ==
  /\ At(p, "resume")
  /\ LET c == Inspected(p)
         r == resume[c.path]
     IN IF r # None /\ r.print = c.print /\ server.rows[r.key].state # "none"
          THEN LET kept == [n \in Parts |-> IF server.rows[r.key].parts[n] # None
                                              THEN r.etags[n] ELSE None]
                   d == [c EXCEPT !.key = r.key, !.etags = kept]
               IN /\ resume' = [resume EXCEPT ![c.path].etags = kept]
                  /\ Become(p, [d EXCEPT !.pc = IF Pending(d) = {} THEN "complete" ELSE "grants"])
          ELSE /\ resume' = [resume EXCEPT ![c.path] = None]
               /\ Become(p, [c EXCEPT !.pc = "reserve"])
  /\ UNCHANGED <<file, server, faults>>

(* put_part, its three attempts taken together: acknowledged, or refused   *)
(* while others are under way.  Each acknowledged part is saved.           *)
PutPart(p, n) ==
  /\ At(p, "parts") /\ n \in cmd[p].todo
  /\ LET out == ServePart(p, n)
         c == AfterPart(cmd[p], n, file.content)
     IN IF out.ok
          THEN /\ server' = out.server
               /\ Become(p, c)
               /\ resume' = [resume EXCEPT ![c.path] = Saved(c)]
          ELSE /\ server' \in UnderWay(p)
               /\ Become(p, AfterError(cmd[p]))
               /\ UNCHANGED resume
  /\ UNCHANGED <<file, faults>>

(* until_interrupted: the upload under way is dropped and the deploy       *)
(* failed, also when its finalisation has been served.                     *)
Interrupt(p) ==
  /\ Fault
  /\ cmd[p].kind = "deploy" /\ cmd[p].pc \notin {"idle", "start", "fail"}
  /\ server' \in UnderWay(p)
  /\ GoTo(p, "fail")
  /\ UNCHANGED <<file, resume>>

(* The process is killed.                                                  *)
Kill(p) ==
  /\ Fault
  /\ ~At(p, "idle")
  /\ server' \in UnderWay(p)
  /\ Become(p, Idle)
  /\ UNCHANGED <<file, resume>>

(* download of one version.  A destination that exists is refused here,    *)
(* without --force, and not looked at again.                               *)
BeginDownload(p, k) ==
  /\ At(p, "idle") /\ MayRun("download")
  /\ k[1] = 0
  /\ Become(p, [Idle EXCEPT !.pc = "ask", !.kind = "download", !.key = k])
  /\ UNCHANGED <<file, resume, server, faults>>

(* The body is written to a temporary file of the command's own; one whose *)
(* size or checksum is not what the grant said is removed again.           *)
Fetch(p, body) ==
  /\ At(p, "fetch")
  /\ Row(p).bytes # None
  /\ Become(p, IF body = cmd[p].content
                 THEN [cmd[p] EXCEPT !.pc = "place", !.body = body]
                 ELSE Idle)
  /\ UNCHANGED <<file, resume, server, faults>>

(* The bytes went after the grant.                                         *)
FetchNothing(p) ==
  /\ At(p, "fetch")
  /\ Row(p).bytes = None
  /\ Become(p, Idle)
  /\ UNCHANGED <<file, resume, server, faults>>

(* place_download: a rename, over whatever is there by now.                *)
Place(p) ==
  /\ At(p, "place")
  /\ Become(p, Reported(cmd[p]))
  /\ UNCHANGED <<file, resume, server, faults>>

(* The command prints what it did and exits.                               *)
Report(p) ==
  /\ At(p, "report")
  /\ Become(p, Idle)
  /\ UNCHANGED <<file, resume, server, faults>>

---------------------------------------------------------------------------
(* The world around the commands                                           *)

Edit(c) ==
  /\ file.print + file.commit < MaxEdits + 2
  /\ file' = [file EXCEPT !.print = @ + 1, !.content = c]
  /\ UNCHANGED <<resume, server, cmd, faults>>

Commit ==
  /\ file.print + file.commit < MaxEdits + 2
  /\ file' = [file EXCEPT !.commit = @ + 1]
  /\ UNCHANGED <<resume, server, cmd, faults>>

(* GRANT_LIFETIME_MS passes: no capability of the upload opens any more.   *)
Expire(k) ==
  /\ Fault
  /\ server.rows[k].live
  /\ server' = [server EXCEPT !.rows[k].live = FALSE, !.rows[k].granted = {}]
  /\ UNCHANGED <<file, resume, cmd>>

(* The object is deleted: its settled versions go with their reservations. *)
DeleteObject ==
  /\ \E k \in Keys : k[1] = 0 /\ server.rows[k].state = "complete"
  /\ server' = [server EXCEPT !.rows = [k \in Keys |->
       IF k[1] = 0 /\ @[k].state \in {"complete", "aborted"} THEN NoRow ELSE @[k]]]
  /\ Fault
  /\ UNCHANGED <<file, resume, cmd>>

Step(p) ==
  \/ Answered(p) \/ UsableResume(p) \/ Fetch(p, Row(p).bytes) \/ FetchNothing(p) \/ Place(p) \/ Report(p)
  \/ \E n \in Parts : PutPart(p, n)

Next ==
  \/ \E p \in Processes :
       \/ Step(p) \/ Fetch(p, "short") \/ Lost(p) \/ Inconsistent(p) \/ Interrupt(p) \/ Kill(p)
       \/ Begin(p, "upload", 0)
       \/ \E d \in Deploys : Begin(p, "deploy", d)
       \/ \E k \in Keys : BeginDownload(p, k)
  \/ \E c \in Contents : Edit(c)
  \/ Commit \/ DeleteObject
  \/ \E k \in Keys : Expire(k)

(* A command under way goes on, and the user runs the upload again.        *)
Spec ==
  /\ Init /\ [][Next]_vars
  /\ \A p \in Processes : WF_vars(Step(p))
  /\ SF_vars(\E p \in Processes : Begin(p, "upload", 0))

---------------------------------------------------------------------------
(* Properties                                                              *)

Etags == [Parts -> Contents \cup {None}]

TypeOK ==
  /\ file \in [print : Prints, content : Contents, commit : Prints]
  /\ \A p \in Paths : resume[p] # None =>
       resume[p] \in [print : Prints, key : Keys, etags : Etags]
  /\ server.rows \in [Keys -> [state : {"none", "requested", "uploaded", "complete", "aborted"},
                       live : BOOLEAN, content : Contents \cup {None}, commit : {0} \cup Prints,
                       granted : SUBSET Parts, parts : Etags, bytes : Contents \cup {None}]]
  /\ \A k \in Keys : ~server.rows[k].live => server.rows[k].granted = {}
  /\ server.deploys \in [Deploys -> {"none", "uploading", "live", "failed"}]
  /\ \A p \in Processes : cmd[p].key # None => cmd[p].key \in Keys
  /\ faults \in 0..MaxFaults

(* When upload or deploy reports success, the server holds a complete,     *)
(* readable version with exactly the bytes the command measured before it  *)
(* sent them, and the deploy is live, whatever was edited, lost, resumed   *)
(* or run at the same time (upload_file, verify_complete).                 *)
ReportedIsStored ==
  [][\A p \in Processes :
       (~At(p, "report") /\ cmd'[p].pc = "report" /\ cmd[p].kind # "download") =>
          /\ server'.rows[cmd[p].key].state = "complete"
          /\ server'.rows[cmd[p].key].bytes = cmd[p].content
          /\ cmd[p].kind = "deploy" => server'.deploys[cmd[p].path] = "live"]_vars

(* No command destroys a completed large upload: commands that share its   *)
(* reservation and lose the race leave its bytes alone, because only       *)
(* single_upload aborts (abort_storage deletes before it looks).           *)
LargeVersionsReadable ==
  \A k \in Keys : LET r == server.rows[k]
    IN r.state = "complete" /\ r.content \in Large => r.bytes = r.content

(* A resume file that matches the source file belongs to the reservation   *)
(* of that very content, and every part it lists was sent from it, even    *)
(* when commands for older contents write the same resume file             *)
(* (usable_resume, ResumeState::matches).                                  *)
ResumeIsOfThisFile ==
  \A p \in Paths : (resume[p] # None /\ resume[p].print = file.print) =>
    /\ resume[p].key = <<p, file.print>>
    /\ \A n \in Parts : resume[p].etags[n] \in {None, file.content}

(* What a download puts at the destination is the whole object the grant   *)
(* promised, never a part of it (download, place_download).                *)
DownloadIsWhole ==
  \A p \in Processes :
    At(p, "report") /\ cmd[p].kind = "download" => cmd[p].body = cmd[p].content

(* A deploy that went live stays live when the command that made it        *)
(* reports an interrupt or a lost answer and fails it (fail_deploy).       *)
LiveDeployStays ==
  [][\A d \in Deploys : server.deploys[d] = "live" => server'.deploys[d] = "live"]_vars

(* Running the command again completes a large upload whose reservation is *)
(* alive, wherever it was lost or killed, unless the file changes, its     *)
(* repository moves to another commit or the grant expires first           *)
(* (usable_resume, multipart_upload).                                      *)
Underway ==
  LET r == server.rows[<<0, file.print>>]
  IN r.state = "requested" /\ r.live /\ r.content \in Large /\ r.commit = file.commit

LargeUploadFinishes == Underway ~> ~Underway
=============================================================================
