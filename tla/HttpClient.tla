----------------------------- MODULE HttpClient -----------------------------
(***************************************************************************)
(* The HTTP client (http.c): do_request with the settings of its thread -   *)
(* extra headers and a timeout, meant for one request - and http_get with   *)
(* its redirects.  The session thread makes the LLM calls; a plugin makes   *)
(* requests in a forked child, which starts with a copy of the settings.    *)
(*                                                                         *)
(* A request is what the server sees of it that a caller has to rely on.    *)
(* Bytes, TLS and parsing come down to the status do_request returns.       *)
(***************************************************************************)
EXTENDS Naturals, Sequences

CONSTANTS MaxHdrs,  \* MAX_EXTRA_HDRS (4)
          MaxHops   \* redirects followed (3)

ASSUME HttpAssumption == MaxHdrs \in Nat /\ MaxHdrs >= 2 /\ MaxHops \in Nat

Sides == {"thread", "plugin"}
Errors == {"connect", "tls", "proto", "request", "nomem", "timeout"}
Codes == {"200", "302", "404", "408", "429", "500"}
Headers == {"key", "version", "mine", "other"}

\* timeout: "default" is TC_HTTP_TIMEOUT.
Settings == [hdrs : Seq(Headers), timeout : {"default", "llm"}]
Fresh == [hdrs |-> <<>>, timeout |-> "default"]
NoRequest == [by |-> "nobody", hdrs |-> <<>>, timeout |-> "default", asked |-> <<>>,
              stale |-> FALSE]

VARIABLES
    net,   \* per process: extra_hdrs and req_timeout
    turn,  \* who runs: the thread waits while its plugin runs
    hop    \* of the plugin's GET, 0 outside one

(* History. *)
VARIABLES
    sent,   \* the last request, and the headers asked for it
    asked,  \* the headers the plugin set since its last request
    stale   \* some of them were set for an earlier call, which sent none

httpVars == <<net, turn, hop, sent, asked, stale>>

HttpInit ==
    /\ net = [p \in Sides |-> Fresh]
    /\ turn = "thread" /\ hop = 0
    /\ sent = NoRequest /\ asked = <<>> /\ stale = FALSE

\* http_set_header; what does not fit is dropped.
Added(hdrs, h) == IF Len(hdrs) < MaxHdrs THEN Append(hdrs, h) ELSE hdrs

(* do_request by p, with the settings n: they are used up on every path of  *)
(* it, those that send nothing included.                                    *)

\* Mutant: a request refused before it is sent leaves its headers behind.
AfterRefusalKept(n, status) == IF status = "request" THEN n ELSE Fresh

AfterRequest(n, status) == Fresh

\* A refused request never leaves; any other error may come after its headers
\* were written.
Reached(status) == status # "request"

DoRequest(p, n, meant, status) ==
    /\ net' = [net EXCEPT ![p] = AfterRequest(n, status)]
    /\ sent' = IF Reached(status)
               THEN [by |-> p, hdrs |-> n.hdrs, timeout |-> n.timeout, asked |-> meant,
                     stale |-> stale]
               ELSE NoRequest
    /\ asked' = <<>> /\ stale' = FALSE

-----------------------------------------------------------------------------
(* The plugin's calls: tc_http_header, tc_http_get, tc_http_post.           *)

PluginStarts ==
    /\ turn = "thread"
    /\ turn' = "plugin"
    /\ net' = [net EXCEPT !["plugin"] = net["thread"]]
    /\ asked' = <<>> /\ stale' = FALSE
    /\ UNCHANGED <<hop, sent>>

PluginEnds ==
    /\ turn = "plugin" /\ hop = 0
    /\ turn' = "thread"
    /\ stale' = FALSE
    /\ UNCHANGED <<net, hop, sent, asked>>

\* An empty name takes back the headers set so far.
TcHttpHeader ==
    /\ turn = "plugin" /\ hop = 0
    /\ \/ \E h \in {"mine", "other"} :
            /\ net' = [net EXCEPT !["plugin"].hdrs = Added(@, h)]
            /\ asked' = Added(asked, h) /\ UNCHANGED stale
       \/ net' = [net EXCEPT !["plugin"].hdrs = <<>>] /\ asked' = <<>> /\ stale' = FALSE
    /\ UNCHANGED <<turn, hop, sent>>

TcHttpPost ==
    /\ turn = "plugin" /\ hop = 0
    /\ \E status \in Errors \cup Codes : DoRequest("plugin", net["plugin"], asked, status)
    /\ UNCHANGED <<turn, hop>>

\* http_get: the request, then up to MaxHops more while it is redirected to
\* a URL that resolves.
Redirected(status) == status = "302" /\ hop < MaxHops

GetRequest ==
    \E status \in Errors \cup Codes :
      /\ DoRequest("plugin", net["plugin"], asked, status)
      /\ \/ Redirected(status) /\ hop' = hop + 1
         \/ ~Redirected(status) /\ hop' = 0
         \/ hop' = 0                               \* no usable Location

\* A URL that does not fit the buffer is refused before do_request, which
\* would have used up the settings.
UrlTooLong ==
    /\ hop = 0
    /\ stale' = (asked # <<>>)
    /\ UNCHANGED <<net, hop, sent, asked>>

TcHttpGet ==
    /\ turn = "plugin"
    /\ GetRequest \/ UrlTooLong
    /\ UNCHANGED turn

HttpNext == PluginStarts \/ PluginEnds \/ TcHttpHeader \/ TcHttpPost \/ TcHttpGet
=============================================================================
