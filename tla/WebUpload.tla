----------------------------- MODULE WebUpload -----------------------------
(***************************************************************************)
(* The web service (04-app/nodeapp/lib/web.js): requests are routed, every *)
(* file of an uploaded form is piped into a COPY on a database connection  *)
(* of its own, and the callbacks of the HTTP server, of the form parser,   *)
(* of the database clients and of the COPY streams answer the request and  *)
(* end the connections.  The callbacks of all requests, and of all files   *)
(* of a request, interleave; the files of a request share its response.    *)
(*                                                                         *)
(* One life of the process is modelled.                                    *)
(***************************************************************************)
EXTENDS Integers, FiniteSets

CONSTANTS
  Requests,
  MaxFiles, \* bound: files in all the forms uploaded
  MaxConns, \* connections PgBouncer accepts (max_client_conn)
  WebFaults \* what may go wrong: a subset of WebFaultKinds

\* "headers": the form parser does not take the headers; "refused": a
\* connection fails; "copy": the server rejects a COPY; "lost": the connection
\* breaks during a COPY; "abort": the peer goes away during the upload; "parse":
\* the form parser reports an error; "again": a second answer throws
WebFaultKinds == {"headers", "refused", "copy", "lost", "abort", "parse", "again"}

ASSUME ConnAssumption == MaxConns \in Nat \ {0} /\ MaxFiles \in Nat
ASSUME WebFaultAssumption == WebFaults \subseteq WebFaultKinds

\* The files, numbered as the parser comes upon them
Files == 1..MaxFiles

VARIABLES
  server,    \* "starting", "listening" or "ended", by an exit or an exception nobody catches
  request,   \* request[r]: "new", "routed", "uploading", "parsed" or "broken"
  part,      \* part[f]: the request whose form file f is a part of
  arrived,   \* files the parser has read to the end
  file,      \* the file stream: "none", "waiting", "piped", "ended" or "discarded"
  db_client, \* the variable of the closure: "null" or "client"
  conn,      \* the connection: "none", "connecting", "open" or "closed"
  copy,      \* the COPY: "none", "active", "ready" (its outcome is known and
             \* the server ready for another query) or "dead" (connection lost)
  failed,    \* files whose COPY has failed
  stored,    \* files the database has stored
  heads,     \* heads[r]: how often the head of an answer has been written
  told       \* told[f]: the msg that file f was answered with, -1 if none

webvars == <<server, request, part, arrived, file, db_client, conn, copy, failed, stored,
             heads, told>>

answers == <<heads, told>>
form == <<request, part, arrived>>

\* The files of the form of request r
FilesOf(r) == {f \in Files : file[f] # "none" /\ part[f] = r}

\* The request broke off before the end of its file f
Cut(f) == file[f] # "none" /\ f \notin arrived /\ request[part[f]] = "broken"

\* The connections of the process, which end with it
Open == {f \in Files : server = "listening" /\ conn[f] \in {"connecting", "open"}}

InitWeb ==
  /\ server = "starting"
  /\ request = [r \in Requests |-> "new"]
  /\ part = [f \in Files |-> "none"] /\ arrived = {}
  /\ file = [f \in Files |-> "none"]
  /\ db_client = [f \in Files |-> "null"]
  /\ conn = [f \in Files |-> "none"]
  /\ copy = [f \in Files |-> "none"]
  /\ failed = {} /\ stored = {}
  /\ heads = [r \in Requests |-> 0] /\ told = [f \in Files |-> -1]

\* The connection test, and the server's errors and signals
web_start(ok) ==
  /\ server = "starting"
  /\ server' = IF ok THEN "listening" ELSE "ended"
  /\ UNCHANGED <<form, file, db_client, conn, copy, failed, stored, answers>>

web_shutdown ==
  /\ server = "listening"
  /\ server' = "ended"
  /\ UNCHANGED <<form, file, db_client, conn, copy, failed, stored, answers>>

\* res.writeHead and res.end: the first answer is sent.  A later one is dropped,
\* or its head throws, as the release of node has it, and nobody catches it.
write_head(r) ==
  /\ heads' = [heads EXCEPT ![r] = @ + 1]
  /\ \/ UNCHANGED server
     \/ heads[r] > 0 /\ "again" \in WebFaults /\ server' = "ended"

display_msg(f, r, msg) ==
  /\ write_head(r)
  /\ told' = [told EXCEPT ![f] = msg]

\* new busboy throws if it cannot take the headers
upload_file(r) ==
  /\ \/ request' = [request EXCEPT ![r] = "uploading"] /\ UNCHANGED server
     \/ /\ "headers" \in WebFaults /\ server' = "ended"
        /\ request' = [request EXCEPT ![r] = "routed"]
  /\ UNCHANGED answers

\* The form, or the answer that the method or the entry point is wrong
display_form(r) ==
  /\ request' = [request EXCEPT ![r] = "routed"]
  /\ write_head(r)
  /\ UNCHANGED told

create_server(r) ==
  /\ server = "listening" /\ request[r] = "new"
  /\ upload_file(r) \/ display_form(r)
  /\ UNCHANGED <<part, arrived, file, db_client, conn, copy, failed, stored>>

\* bboy.on('file'), for every file of the form: the parser reads one to its end
\* before it comes upon the next
on_file(r, f, named) ==
  /\ server = "listening" /\ request[r] = "uploading" /\ FilesOf(r) \subseteq arrived
  /\ file[f] = "none" /\ \A g \in 1..(f - 1) : file[g] # "none"
  /\ part' = [part EXCEPT ![f] = r]
  /\ IF named
       THEN /\ file' = [file EXCEPT ![f] = "waiting"]
            /\ db_client' = [db_client EXCEPT ![f] = "client"]
            /\ conn' = [conn EXCEPT ![f] = "connecting"]
            /\ UNCHANGED <<server, answers>>
       ELSE /\ file' = [file EXCEPT ![f] = "discarded"]
            /\ display_msg(f, r, 5)
            /\ UNCHANGED <<db_client, conn>>
  /\ UNCHANGED <<request, arrived, copy, failed, stored>>

\* The parser reads file f to its end: its stream takes a short file even while
\* nobody reads from it
file_arrives(f) ==
  /\ server = "listening" /\ file[f] # "none" /\ f \notin arrived
  /\ request[part[f]] = "uploading"
  /\ arrived' = arrived \cup {f}
  /\ UNCHANGED <<server, request, part, file, db_client, conn, copy, failed, stored, answers>>

\* bboy.on('finish'): nothing is answered, not even if the form had no file
form_ends(r) ==
  /\ server = "listening" /\ request[r] = "uploading" /\ FilesOf(r) \subseteq arrived
  /\ request' = [request EXCEPT ![r] = "parsed"]
  /\ UNCHANGED <<server, part, arrived, file, db_client, conn, copy, failed, stored, answers>>

\* The rest of the request never arrives; the parser, and a file cut short, just wait
request_broken(r, fault) ==
  /\ server = "listening" /\ request[r] = "uploading"
  /\ fault \in WebFaults \cap {"abort", "parse"}
  /\ request' = [request EXCEPT ![r] = "broken"]
  /\ UNCHANGED <<server, part, arrived, file, db_client, conn, copy, failed, stored, answers>>
-----------------------------------------------------------------------------
(* The callbacks of one file *)

\* db_client.end(); db_client = null
End(f) ==
  /\ db_client' = [db_client EXCEPT ![f] = "null"]
  /\ conn' = [conn EXCEPT ![f] = "closed"]

\* Variant: the error is only logged
connect_error_silent(f) ==
  /\ server = "listening" /\ conn[f] = "connecting"
  /\ "refused" \in WebFaults \/ Cardinality(Open) > MaxConns
  /\ End(f)
  /\ file' = [file EXCEPT ![f] = "discarded"]
  /\ UNCHANGED <<server, form, copy, failed, stored, answers>>

connect_error(f) ==
  /\ server = "listening" /\ conn[f] = "connecting"
  /\ "refused" \in WebFaults \/ Cardinality(Open) > MaxConns
  /\ End(f)
  /\ file' = [file EXCEPT ![f] = "discarded"]
  /\ display_msg(f, part[f], 3)
  /\ UNCHANGED <<form, copy, failed, stored>>

\* The COPY is sent to the server and the file piped into it
connected(f) ==
  /\ server = "listening" /\ conn[f] = "connecting"
  /\ Cardinality({g \in Files : conn[g] = "open"}) < MaxConns
  /\ conn' = [conn EXCEPT ![f] = "open"]
  /\ copy' = [copy EXCEPT ![f] = "active"]
  /\ file' = [file EXCEPT ![f] = "piped"]
  /\ UNCHANGED <<server, form, db_client, failed, stored, answers>>

\* Variant: the connection is closed as soon as the file has been written to it
on_finish_ending(f) ==
  /\ server = "listening" /\ file[f] = "piped" /\ f \in arrived \ failed
  /\ file' = [file EXCEPT ![f] = "ended"]
  /\ copy' = [copy EXCEPT ![f] = "none"]
  /\ End(f)
  /\ display_msg(f, part[f], 4)
  /\ UNCHANGED <<form, failed, stored>>

\* The last of the file has been written to the COPY stream, which emits
\* 'finish' without waiting for the server's verdict
on_finish(f) ==
  /\ server = "listening" /\ file[f] = "piped" /\ f \in arrived \ failed
  /\ file' = [file EXCEPT ![f] = "ended"]
  /\ display_msg(f, part[f], 4)
  /\ UNCHANGED <<form, db_client, conn, copy, failed, stored>>

\* What the failure of a COPY does: a connection that is lost when all of the
\* file has been sent leaves open whether the server has stored it
CopyFails(f, lost) ==
  /\ server = "listening" /\ copy[f] = "active"
  /\ (IF lost THEN "lost" ELSE "copy") \in WebFaults
  /\ failed' = failed \cup {f}
  /\ copy' = [copy EXCEPT ![f] = IF lost THEN "dead" ELSE "ready"]
  /\ stored' \in {stored, IF lost /\ file[f] = "ended" THEN stored \cup {f} ELSE stored}

\* Variant: the handler answers that there was a problem with the database
on_error_answered(f, lost) ==
  /\ CopyFails(f, lost)
  /\ conn' = [conn EXCEPT ![f] = IF lost THEN "closed" ELSE @]
  /\ display_msg(f, part[f], 3)
  /\ UNCHANGED <<form, file, db_client>>

\* Variant: the handler ends the client, as the other error handler does
on_error_ending(f, lost) ==
  /\ CopyFails(f, lost)
  /\ End(f)
  /\ UNCHANGED <<server, form, file, answers>>

\* The COPY stream emits 'error', before or after 'finish': it is logged.  The
\* file is no longer piped into it.
on_error(f, lost) ==
  /\ CopyFails(f, lost)
  /\ conn' = [conn EXCEPT ![f] = IF lost THEN "closed" ELSE @]
  /\ UNCHANGED <<server, form, file, db_client, answers>>

\* The server has stored the whole file
copy_complete(f) ==
  /\ server = "listening" /\ copy[f] = "active" /\ file[f] = "ended"
  /\ copy' = [copy EXCEPT ![f] = "ready"]
  /\ stored' = stored \cup {f}
  /\ UNCHANGED <<server, form, file, db_client, conn, failed, answers>>

\* Variant: there is no handler
on_drain_kept(f) ==
  /\ server = "listening" /\ copy[f] = "ready"
  /\ copy' = [copy EXCEPT ![f] = "none"]
  /\ UNCHANGED <<server, form, file, db_client, conn, failed, stored, answers>>

\* The query queue of the client is empty.  The handler has no client to end
\* if another callback has set the variable to null.
on_drain(f) ==
  /\ server = "listening" /\ copy[f] = "ready"
  /\ copy' = [copy EXCEPT ![f] = "none"]
  /\ IF db_client[f] = "null"
       THEN server' = "ended" /\ UNCHANGED <<db_client, conn>>
       ELSE End(f) /\ UNCHANGED server
  /\ UNCHANGED <<form, file, failed, stored, answers>>

Handle(f) ==
  connect_error(f) \/ connected(f) \/ on_finish(f) \/ copy_complete(f) \/ on_drain(f)

\* A file that is read from arrives
Flow(f) == file[f] = "piped" /\ f \notin failed /\ file_arrives(f)

Serve(r) ==
  \/ create_server(r) \/ form_ends(r)
  \/ \E f \in Files, named \in BOOLEAN : on_file(r, f, named)
  \/ \E fault \in WebFaults : request_broken(r, fault)

NextWeb ==
  \/ \E ok \in BOOLEAN : web_start(ok)
  \/ web_shutdown
  \/ \E r \in Requests : Serve(r)
  \/ \E f \in Files : Handle(f) \/ file_arrives(f) \/ \E lost \in BOOLEAN : on_error(f, lost)

WebSpec == InitWeb /\ [][NextWeb]_webvars

\* Whatever node, the browser and the database owe is done sooner or later
FairWebSpec == WebSpec /\ \A f \in Files : WF_webvars(Handle(f) \/ Flow(f))
-----------------------------------------------------------------------------
(* Properties *)

\* A request is answered at most once for every file of its form, and so the form
\* of display_form, which has one, is answered once: of the callbacks of a file only
\* one answers, whichever run in which order (display_msg in upload_file).
OneAnswerPerFile ==
  \A r \in Requests : heads[r] > 1 => heads[r] <= Cardinality(FilesOf(r))

\* The drain handler always finds the client it is to end: of the two callbacks
\* that end it, only one runs (db_client.on('drain'), db_client.connect).
EndedOnce == \A f \in Files : copy[f] = "ready" => db_client[f] = "client"

\* A file reported as being processed is stored in the end, unless its COPY fails
\* after the report or the process goes away: the drain handler does not end the
\* connection too early, and a request that breaks off in a later file takes
\* nothing from an earlier one (stream_db 'finish', db_client 'drain').
ProcessedIsStored ==
  \A f \in Files : told[f] = 4 ~> f \in stored \cup failed \/ server # "listening"

\* Every file of a form is answered, or its COPY failed, or the request broke off
\* in it, or the process went away (the handlers of upload_file).  A form without
\* a file is not answered.
AnsweredUnlessFailed ==
  \A f \in Files : file[f] # "none" ~>
    told[f] # -1 \/ f \in failed \/ Cut(f) \/ server # "listening"

\* No database connection stays open for ever, unless the request broke off in
\* its file: the drain handler, or the error callback of connect, ends it.
ConnectionEnds == \A f \in Files : f \in Open ~> f \notin Open \/ Cut(f)
=============================================================================
