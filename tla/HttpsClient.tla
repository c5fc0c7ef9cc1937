----------------------------- MODULE HttpsClient -----------------------------
(***************************************************************************)
(* The HTTPS requests of the signaling (apprtc_signal/https_client.c): one *)
(* request is sent, sent again wherever the server redirects it to, and    *)
(* the body of the answer, which comes in pieces, is handed to the caller. *)
(*                                                                         *)
(* The events of esp_http_client come on the task that performs.  A body   *)
(* is a sequence of units, numbered over all answers in the order they     *)
(* come; the headers of the request and the text of the URLs are left out. *)
(***************************************************************************)
EXTENDS Integers, Sequences

CONSTANTS
  Requests,        \* [method, header_cb, max_redirects]
  Pieces,          \* units that a piece of a body may have
  MaxBody,         \* bound: units of a body
  MaxRequests      \* bound: requests

ASSUME HttpsAssumption == Pieces \subseteq Nat \ {0}

Statuses == {200, 301, 302, 307, 308, 404}
Redirects(status) == status >= 301 /\ status < 400
KeepsMethod(status) == status \in {307, 308}

VARIABLES
  req,        \* the request of the caller
  at,         \* where https_request_advance is
  info,       \* http_info_t: data (NULL is empty), fill_size, size, location
  method,     \* what the client is set to send
  status,
  redirects,  \* redirect_count
  answer,     \* units of the answer so far
  units,      \* units of all answers
  requests,
  got,        \* history: the body handed over since the request was sent
  starved,    \* history: a buffer could not be allocated for this answer
  stale,      \* history: an answer before this one had a body
  broken      \* history: NULL was written to

NULL == <<>>
https == <<req, at, info, method, status, redirects, answer, units, requests, got,
           starved, stale, broken>>

Empty == [data |-> NULL, fill_size |-> 0, size |-> 0, location |-> FALSE]

HttpsInit ==
  /\ req \in Requests /\ at = "idle" /\ info = Empty
  /\ method = "GET" /\ status = 200 /\ redirects = 0
  /\ answer = <<>> /\ units = 0 /\ requests = 0
  /\ got = NULL /\ starved = FALSE /\ stale = FALSE /\ broken = FALSE

-----------------------------------------------------------------------------
(* The request *)

https_request_advance(r) ==
  /\ at = "idle" /\ requests < MaxRequests /\ requests' = requests + 1
  /\ req' = r /\ method' = r.method
  /\ info' = Empty /\ redirects' = 0
  /\ at' = "retry"
  /\ stale' = FALSE /\ got' = NULL
  /\ UNCHANGED <<status, answer, units, starved, broken>>

\* Fault: the body that came with the redirection stays in the buffer.
RETRY_KEEPS_BODY == [info EXCEPT !.location = FALSE]

\* RETRY_PERFORM: the buffer is given back, its size is kept.
RETRY_PERFORM == [info EXCEPT !.data = NULL, !.fill_size = 0, !.location = FALSE]

Perform ==
  /\ at = "retry"
  /\ info' = RETRY_PERFORM
  /\ status' \in Statuses
  /\ answer' = <<>> /\ starved' = FALSE /\ got' = NULL
  /\ at' = "header"
  /\ UNCHANGED <<req, method, redirects, units, requests, stale, broken>>

-----------------------------------------------------------------------------
(* _http_event_handler *)

\* HTTP_EVENT_ON_HEADER: the location is kept only for a caller with a callback.
Header ==
  /\ at = "header" /\ at' = "body"
  /\ \E has \in BOOLEAN :
       info' = [info EXCEPT !.location = (has /\ Redirects(status) /\ req.header_cb)]
  /\ UNCHANGED <<req, method, status, redirects, answer, units, requests, got, starved,
                 stale, broken>>

Piece(n) == [i \in 1..n |-> units + i]
Comes(n) ==
  /\ at = "body" /\ Len(answer) + n <= MaxBody
  /\ answer' = answer \o Piece(n)
  /\ units' = units + n
  /\ UNCHANGED <<req, at, method, status, redirects, requests, got, stale>>

\* HTTP_EVENT_ON_DATA with room, or with a buffer that grows.
Need(n) == info.fill_size + n
Copied(n, data) == SubSeq(data, 1, info.fill_size) \o Piece(n)
Data(n) ==
  /\ Comes(n) /\ ~(Need(n) <= info.size /\ info.data = NULL)
  /\ info' = [info EXCEPT
       !.data = Copied(n, info.data),
       !.size = IF Need(n) > @ THEN Need(n) ELSE @,
       !.fill_size = Need(n)]
  /\ UNCHANGED <<starved, broken>>

\* The buffer cannot grow: what came is dropped, and what is to come is taken for
\* the beginning.
DataFails(n) ==
  /\ Comes(n) /\ Need(n) > info.size
  /\ info' = [Empty EXCEPT !.location = info.location]
  /\ starved' = TRUE
  /\ UNCHANGED broken

\* The size of a buffer that was given back still has room.
DataLost(n) ==
  /\ Comes(n) /\ Need(n) <= info.size /\ info.data = NULL
  /\ broken' = TRUE
  /\ UNCHANGED <<info, starved>>

\* HTTP_EVENT_ON_FINISH, of a redirection too.
Finish ==
  /\ at = "body" /\ at' = "done"
  /\ got' = IF info.fill_size > 0 THEN info.data ELSE NULL
  /\ UNCHANGED <<req, info, method, status, redirects, answer, units, requests, starved,
                 stale, broken>>

\* The connection ends before the answer does.
Fails ==
  /\ at \in {"header", "body"} /\ at' = "idle"
  /\ UNCHANGED <<req, info, method, status, redirects, answer, units, requests, got,
                 starved, stale, broken>>

-----------------------------------------------------------------------------
(* After esp_http_client_perform *)

Result == UNCHANGED <<info, status, answer, units, requests, got, starved, broken>>

\* https_handle_redirect
Redirect ==
  /\ at = "done" /\ Redirects(status)
  /\ redirects < req.max_redirects /\ info.location
  /\ redirects' = redirects + 1
  /\ method' = IF KeepsMethod(status) THEN method ELSE "GET"
  /\ at' = "retry"
  /\ stale' = (stale \/ answer # <<>>)
  /\ UNCHANGED req /\ Result

\* Too many redirections, no location, or no memory for the URL.
Refused ==
  /\ at = "done" /\ Redirects(status)
  /\ at' = "idle"
  /\ UNCHANGED <<req, method, redirects, stale>> /\ Result

\* Every other status, 404 too, is success.
Succeeds ==
  /\ at = "done" /\ ~Redirects(status)
  /\ at' = "idle"
  /\ UNCHANGED <<req, method, redirects, stale>> /\ Result

HttpsNext ==
  \/ ~broken /\ \E r \in Requests : https_request_advance(r)
  \/ ~broken /\ (Perform \/ Header \/ Finish \/ Fails \/ Redirect \/ Refused \/ Succeeds)
  \/ ~broken /\ \E n \in Pieces : Data(n) \/ DataFails(n) \/ DataLost(n)

HttpsSpec == HttpsInit /\ [][HttpsNext]_https

-----------------------------------------------------------------------------
(* Properties *)

\* The body that a caller is given is the body of the answer under way, whole and
\* in its order, however it was cut and whatever answers came before it, unless
\* memory ran out on the way; and NULL is written to only after a redirection
\* with a body of its own.
BodyIsTheAnswer ==
  /\ at = "done" /\ ~starved => got = answer
  /\ broken => stale
=============================================================================
