-------------------------------- MODULE Cors --------------------------------
(***************************************************************************)
(* The router and its middleware for cross-origin requests, and a browser  *)
(* that makes one kind of call for a page of another origin: it asks with  *)
(* OPTIONS, sends the call if the answer permits it, and keeps the answer  *)
(* to the call from the page if that has the wrong headers.  A permission  *)
(* is remembered for some seconds, in which the service may have been      *)
(* restarted with other origins; so it may while a request is on its way.  *)
(*                                                                         *)
(* The browser is external: it does what the Fetch standard makes of the   *)
(* headers.  Calls of Connect and of gRPC-Web have headers that must be    *)
(* asked for, whatever the method.                                         *)
(***************************************************************************)
EXTENDS Naturals

CONSTANTS
  Origins,     \* origins of pages
  NoOrigin,    \* no Origin header: the service's own pages, or no browser
  AllowLists   \* the configurations of cors.allowed_origins

(* No origin, or no method: a header that is missing.                      *)
None == "none"

ASSUME OriginsAssumption ==
  /\ NoOrigin \notin Origins /\ None \notin Origins
  /\ AllowLists \subseteq SUBSET Origins /\ AllowLists # {}

VARIABLES
  allowed,    \* cors.allowed_origins of the running service
  past,       \* every value it has had since the page was opened
  page,       \* the page and the call it makes
  permitted,  \* whether the browser remembers a permission for the call
  request,    \* the request on its way: its method, or None
  response,   \* the headers of the answer, or NoAnswer
  ran,        \* whether the handler of an operation ran for the page
  shown,      \* whether the page was shown an answer
  blocked     \* whether the page was told of a network error instead

vars == <<allowed, past, page, permitted, request, response, ran, shown,
          blocked>>

NoAnswer == [origin |-> "no answer"]

(* Paths by the routes that take them; the middleware goes by a prefix.    *)
Paths == {"/pat.v1.PATService/CreatePAT", "/pat.v1.PATService/Other",
          "/oauth2/token-exchange", "/healthz"}

HasPATPrefix(path) ==
  path \in {"/pat.v1.PATService/CreatePAT", "/pat.v1.PATService/Other"}

ConnectHeaders == {"Content-Type", "Connect-Protocol-Version"}
GRPCWebHeaders == {"Content-Type", "X-Grpc-Web"}

Pages ==
  [origin : Origins \cup {NoOrigin}, credentials : BOOLEAN,
   headers : {ConnectHeaders, GRPCWebHeaders},
   method : {"POST", "GET", "PUT"}, path : Paths]

-----------------------------------------------------------------------------
(* The middleware: the headers it sets, for a list of origins.             *)

(* What an answer says when the middleware has set nothing.                *)
Silent ==
  [origin |-> None, credentials |-> FALSE, methods |-> {}, headers |-> {}]

(* Mutant: any origin is echoed, whether it is listed or not.              *)
corsOriginEchoed(list, origin) ==
  IF origin # NoOrigin THEN <<origin, TRUE>>
  ELSE IF list = {} THEN <<"*", FALSE>> ELSE <<None, FALSE>>

(* The origin that is let in, and whether with cookies.                    *)
corsOrigin(list, origin) ==
  IF origin \in list THEN <<origin, TRUE>>
  ELSE IF list = {} THEN <<"*", FALSE>> ELSE <<None, FALSE>>

(* Mutant: the headers of Connect are forgotten.                           *)
AllowHeadersPlain == {"Content-Type", "Authorization"}

(* The headers of a request that matter here, out of 14.                   *)
AllowHeaders == {"Content-Type", "Authorization", "Connect-Protocol-Version"}

corsMiddleware(list, origin, path) ==
  IF ~ HasPATPrefix(path) THEN Silent
  ELSE [origin |-> corsOrigin(list, origin)[1],
        credentials |-> corsOrigin(list, origin)[2],
        methods |-> {"POST", "OPTIONS", "GET"},
        headers |-> AllowHeaders]

(* The status of OPTIONS: 204 from the middleware, an error elsewhere (the *)
(* check finds no token, /healthz is for GET only).                        *)
PreflightSucceeds(path) == HasPATPrefix(path)

(* The routes that take a call to an operation: the handler of Connect     *)
(* runs it for POST alone.                                                 *)
RunsOperation(method, path) ==
  method = "POST" /\ path = "/pat.v1.PATService/CreatePAT"

-----------------------------------------------------------------------------
(* The browser.                                                            *)

Cross == page.origin # NoOrigin

(* May the page see an answer with these headers?                          *)
Readable(h) ==
  \/ ~ Cross
  \/ h.origin = page.origin /\ (page.credentials => h.credentials)
  \/ h.origin = "*" /\ ~ page.credentials

(* Do these headers of an answer to OPTIONS permit the call?               *)
Permits(h) ==
  /\ Readable(h)
  /\ page.method \in h.methods \cup {"GET", "POST"}
  /\ page.headers \subseteq h.headers

Init ==
  /\ allowed \in AllowLists
  /\ past = {allowed}
  /\ page \in Pages
  /\ permitted = FALSE
  /\ request = None /\ response = NoAnswer
  /\ ran = FALSE /\ shown = FALSE /\ blocked = FALSE

(* The page makes its call.                                                *)
Call ==
  /\ request = None
  /\ request' = IF Cross /\ ~ permitted THEN "OPTIONS" ELSE page.method
  /\ response' = NoAnswer
  /\ UNCHANGED <<allowed, past, page, permitted, ran, shown, blocked>>

(* The service answers: every request passes the middleware, OPTIONS to    *)
(* the PAT service goes no further.                                        *)
Serve ==
  /\ request # None /\ response = NoAnswer
  /\ response' = corsMiddleware(allowed, page.origin, page.path)
  /\ ran' = (ran \/ RunsOperation(request, page.path))
  /\ UNCHANGED <<allowed, past, page, permitted, request, shown, blocked>>

(* The browser takes the answer to OPTIONS, and goes on with the call.     *)
Preflighted ==
  /\ request = "OPTIONS" /\ response # NoAnswer
  /\ \/ /\ PreflightSucceeds(page.path) /\ Permits(response)
        /\ permitted' = TRUE
        /\ request' = page.method
        /\ UNCHANGED blocked
     \/ /\ ~ (PreflightSucceeds(page.path) /\ Permits(response))
        /\ blocked' = TRUE
        /\ request' = None
        /\ UNCHANGED permitted
  /\ response' = NoAnswer
  /\ UNCHANGED <<allowed, past, page, ran, shown>>

(* The browser takes the answer to the call.                               *)
Answered ==
  /\ request \notin {None, "OPTIONS"} /\ response # NoAnswer
  /\ \/ /\ Readable(response)
        /\ shown' = TRUE
        /\ UNCHANGED blocked
     \/ /\ ~ Readable(response)
        /\ blocked' = TRUE
        /\ UNCHANGED shown
  /\ request' = None /\ response' = NoAnswer
  /\ UNCHANGED <<allowed, past, page, permitted, ran>>

(* The permission lapses.                                                  *)
Forget ==
  /\ permitted
  /\ permitted' = FALSE
  /\ UNCHANGED <<allowed, past, page, request, response, ran, shown, blocked>>

(* The service comes back with another list.                               *)
Restart ==
  /\ allowed' \in AllowLists \ {allowed}
  /\ past' = past \cup {allowed'}
  /\ UNCHANGED <<page, permitted, request, response, ran, shown, blocked>>

Next ==
  \/ Call \/ Serve \/ Preflighted \/ Answered
  \/ Forget \/ Restart

Spec == Init /\ [][Next]_vars

-----------------------------------------------------------------------------
(* Properties.                                                             *)

(* What a list is meant to let in: pages of the origins on it; if it is    *)
(* empty all pages, without cookies.                                       *)
LetsIn(list) ==
  \/ ~ Cross
  \/ page.origin \in list
  \/ list = {} /\ ~ page.credentials

(* An operation runs for a page of another origin, or shows it an answer,  *)
(* only if that origin was let in at some time since the page was opened:  *)
(* the middleware itself refuses no call (middleware.go 69-94), so this    *)
(* rests on what it answers to OPTIONS.                                    *)
OnlyPagesLetIn == ran \/ shown => \E list \in past : LetsIn(list)

(* A page that was let in all the time, and uses Connect, meets no network *)
(* error at the PAT service, whatever restarts come between OPTIONS, the   *)
(* call and its answer.                                                    *)
PagesLetInServed ==
  blocked =>
    \/ \E list \in past : ~ LetsIn(list)
    \/ ~ HasPATPrefix(page.path)
    \/ page.headers # ConnectHeaders
    \/ page.method = "PUT"
=============================================================================
