---------------------------- MODULE PostChannel ----------------------------
(***************************************************************************)
(* The delivery connection of BLESignalKGateway: what a cycle of the POST  *)
(* task does once it has a batch to send.  It decides from the Signal K    *)
(* client's settings how the server may be reached (resolve_transport),    *)
(* keeps or rebuilds one kept-alive HTTP handle (ensure_post_client,       *)
(* destroy_post_client), sets the handle's headers, performs the request,  *)
(* and slows down after the server refuses it.                             *)
(*                                                                         *)
(* Only the POST task runs these steps, so what is hard here is not a race *)
(* on the handle.  The handle outlives the request: it carries headers of  *)
(* earlier requests, points into strings the gateway replaces and may sit  *)
(* on a dead socket, while the settings it was built from change at any    *)
(* time, between any two getters the task calls: a step of the task makes  *)
(* at most one reading of them.  And the back-off compares readings of a   *)
(* clock that wraps, with no bound on the time between two of them.        *)
(*                                                                         *)
(* Time is counted in units of post_interval_ms, which is 1.               *)
(* A definition marked "Mutant" is a planted fault that no action uses.    *)
(***************************************************************************)
EXTENDS Integers

CONSTANTS
    Hosts,          \* server addresses
    Ports,          \* server ports
    Cas,            \* trust anchors
    Names,          \* leaf identities
    Tokens,         \* bearer tokens
    None,           \* the empty String, and a handle that is nullptr
    ClockRange,     \* millis() wraps after this many units
    BackoffCap,     \* kPostBackoffCapMs
    SlowRequest     \* bound: the longest a request takes

ASSUME ChannelAssumption ==
    /\ None \notin Hosts \cup Ports \cup Cas \cup Names \cup Tokens
    /\ ClockRange \in Nat /\ ClockRange % 2 = 0
    /\ BackoffCap \in Nat \ {0}
    /\ SlowRequest \in Nat
    /\ BackoffCap + SlowRequest < ClockRange \div 2

VARIABLES
    settings,   \* what the Signal K client's getters return
    pc,         \* where the POST task is
    request,    \* the locals of this cycle: token, addr, port, the transport
                \* and the anchor; and whether the pinned CA was reset
                \* between has_tofu_ca() and get_tofu_ca()
    client,     \* post_client_: None, or what the handle has inside
    strings,    \* post_url_, post_ca_pem_ and post_cn_
    backoff,    \* post_backoff_ms_
    until,      \* post_backoff_until_ms_
    clock,      \* millis()
    stale       \* the time since the last rejection, whole turns of the
                \* clock folded away once the interval is long over

vars == <<settings, pc, request, client, strings, backoff, until, clock, stale>>
timeVars == <<backoff, until, clock, stale>>

Pcs == {"wait", "cycle", "token", "host", "port", "drained", "ca", "san",
        "anchor", "ensure", "headers", "perform", "failed"}

Settings ==
    [ssl : BOOLEAN, ca : Cas \cup {None}, san : Names \cup {None},
     token : Tokens \cup {None}, host : Hosts \cup {None},
     port : Ports \cup {None}, connected : BOOLEAN]

Urls == [tls : BOOLEAN, host : Hosts \cup {None}, port : Ports \cup {None}]
NoUrl == [tls |-> FALSE, host |-> None, port |-> None]
Anchors == [ca : Cas \cup {None}, cn : Names \cup {None}]
NoAnchor == [ca |-> None, cn |-> None]
NoStrings == [url |-> NoUrl, anchor |-> NoAnchor]
\* The inside of an HTTP handle: the URL it copied, the strings its anchor
\* points into, the bearer among its headers, and whether a request failed
\* half way on it, after which esp_http_client never works again.
Handles == [url : Urls, anchor : Anchors, bearer : Tokens \cup {None},
            broken : BOOLEAN]
Requests == [token : Tokens \cup {None}, url : Urls, anchor : Anchors,
             torn : BOOLEAN]
NoRequest == [token |-> None, url |-> NoUrl, anchor |-> NoAnchor, torn |-> FALSE]

\* The null pointer is no handle.
ASSUME HandleAssumption == None \notin Handles

-----------------------------------------------------------------------------
(* The wrapping clock.                                                     *)

Later(t, d) == (t + d) % ClockRange

\* static_cast<long> of a difference of two readings.
AsLong(x) == IF x >= ClockRange \div 2 THEN x - ClockRange ELSE x

\* Mutant: the readings are compared, not their difference.
BackingOffByOrder == backoff > 0 /\ clock < until
BackingOff == backoff > 0 /\ AsLong((clock - until) % ClockRange) < 0

\* Mutant: the ceiling is forgotten until it is passed.
NextBackoffLate ==
    IF backoff = 0 THEN 2
    ELSE IF backoff > BackoffCap THEN BackoffCap ELSE 2 * backoff
\* The interval after one more rejection.
NextBackoff ==
    LET doubled == IF backoff = 0 THEN 2 ELSE 2 * backoff
    IN  IF doubled > BackoffCap THEN BackoffCap ELSE doubled

\* Once the interval is over, what the clock can tell of the time since is
\* where in its turn it stands.
Aged(t) == IF t > BackoffCap + ClockRange THEN t - ClockRange ELSE t

Passes(d) ==
    /\ clock' = Later(clock, d)
    /\ stale' = IF backoff = 0 THEN 0 ELSE Aged(stale + d)

-----------------------------------------------------------------------------
Init ==
    /\ settings \in Settings
    /\ pc = "wait"
    /\ request = NoRequest
    /\ client = None
    /\ strings = NoStrings
    /\ backoff = 0
    /\ until = 0
    /\ clock \in 0..(ClockRange - 1)
    /\ stale = 0

\* The Signal K client, on the event loop: it connects and disconnects, finds
\* the server elsewhere, gets or loses a token, pins or resets an anchor.
SettingsChange ==
    /\ \E field \in DOMAIN settings, value \in BOOLEAN \cup Cas \cup Names
                    \cup Tokens \cup Hosts \cup Ports \cup {None} :
            settings' = [settings EXCEPT ![field] = value]
    /\ settings' \in Settings
    /\ request' = [request EXCEPT !.torn =
                     @ \/ (pc \in {"san", "anchor"} /\ settings'.ca = None)]
    /\ UNCHANGED <<pc, client, strings, timeVars>>

-----------------------------------------------------------------------------
(* A cycle up to the back-off.                                             *)

\* vTaskDelay(post_interval_ms) between two cycles.
Delay ==
    /\ pc = "wait"
    /\ pc' = "cycle"
    /\ Passes(1)
    /\ UNCHANGED <<settings, request, client, strings, backoff, until>>

\* The function returns, and its locals are gone.
Return ==
    /\ pc' = "wait"
    /\ request' = NoRequest

NotConnected ==
    /\ pc = "cycle"
    /\ ~settings.connected
    /\ Return
    /\ UNCHANGED <<settings, client, strings, timeVars>>

Connected ==
    /\ pc = "cycle"
    /\ settings.connected
    /\ pc' = "token"
    /\ UNCHANGED <<settings, request, client, strings, timeVars>>

\* The token, the address and the port are read once, one after the other.
ReadToken ==
    /\ pc = "token"
    /\ request' = [request EXCEPT !.token = settings.token]
    /\ pc' = "host"
    /\ UNCHANGED <<settings, client, strings, timeVars>>

ReadHost ==
    /\ pc = "host"
    /\ request' = [request EXCEPT !.url.host = settings.host]
    /\ pc' = "port"
    /\ UNCHANGED <<settings, client, strings, timeVars>>

ReadPort ==
    /\ pc = "port"
    /\ request.url.host # None
    /\ settings.port # None
    /\ request' = [request EXCEPT !.url.port = settings.port]
    /\ pc' = "drained"
    /\ UNCHANGED <<settings, client, strings, timeVars>>

NoAddress ==
    /\ pc = "port"
    /\ request.url.host = None \/ settings.port = None
    /\ Return
    /\ UNCHANGED <<settings, client, strings, timeVars>>

\* The buffer's mutex was not to be had, or nothing was buffered: the
\* function returns before it looks at the back-off.
NothingToSend ==
    /\ pc = "drained"
    /\ Return
    /\ UNCHANGED <<settings, client, strings, timeVars>>

\* Mutant: a batch dropped while backing off starts the interval again.
DropWhileBackingOffRearms ==
    /\ pc = "drained"
    /\ BackingOff
    /\ until' = Later(clock, backoff)
    /\ stale' = 0
    /\ Return
    /\ UNCHANGED <<settings, client, strings, backoff, clock>>
DropWhileBackingOff ==
    /\ pc = "drained"
    /\ BackingOff
    /\ Return
    /\ UNCHANGED <<settings, client, strings, timeVars>>

-----------------------------------------------------------------------------
(* resolve_transport(): up to four readings of the trust settings, between *)
(* which they may change.                                                  *)

\* is_ssl_enabled(), once the batch is serialized.
ReadSsl ==
    /\ pc = "drained"
    /\ ~BackingOff
    /\ request' = [request EXCEPT !.url.tls = settings.ssl]
    /\ pc' = IF settings.ssl THEN "ca" ELSE "ensure"
    /\ UNCHANGED <<settings, client, strings, timeVars>>

\* has_tofu_ca().
CaPinned ==
    /\ pc = "ca"
    /\ settings.ca # None
    /\ pc' = "san"
    /\ UNCHANGED <<settings, request, client, strings, timeVars>>

\* Mutant: a CA without a name to bind the certificate to is good enough.
NameUnchecked == TRUE
HasName == settings.san # None

\* get_tofu_san().
ReadName ==
    /\ pc = "san"
    /\ HasName
    /\ request' = [request EXCEPT !.anchor.cn = settings.san]
    /\ pc' = "anchor"
    /\ UNCHANGED <<settings, client, strings, timeVars>>

\* SSL is on and nothing can verify the server: no CA, be it for want of an
\* anchor or for a leaf fingerprint, or a CA without an identity to bind.
TransportUnavailable ==
    /\ \/ pc = "ca" /\ settings.ca = None
       \/ pc = "san" /\ ~HasName
    /\ Return
    /\ UNCHANGED <<settings, client, strings, timeVars>>

\* get_tofu_ca(), which nobody tests again.
ReadCa ==
    /\ pc = "anchor"
    /\ request' = [request EXCEPT !.anchor.ca = settings.ca]
    /\ pc' = "ensure"
    /\ UNCHANGED <<settings, client, strings, timeVars>>

-----------------------------------------------------------------------------
(* ensure_post_client(), the headers and the request.                      *)

Chosen == [url |-> request.url, anchor |-> request.anchor]

HandleFits == client # None /\ strings = Chosen

Reuse ==
    /\ pc = "ensure"
    /\ HandleFits
    /\ pc' = "headers"
    /\ UNCHANGED <<settings, request, client, strings, timeVars>>

\* The old handle goes first, then the strings it points into.
Create ==
    /\ pc = "ensure"
    /\ ~HandleFits
    /\ client' = [url |-> request.url, anchor |-> request.anchor,
                  bearer |-> None, broken |-> FALSE]
    /\ strings' = Chosen
    /\ pc' = "headers"
    /\ UNCHANGED <<settings, request, timeVars>>

\* Mutant: the old handle stays when a new one cannot be made.
CreateFailsKeepingHandle ==
    /\ pc = "ensure"
    /\ ~HandleFits
    /\ strings' = NoStrings
    /\ Return
    /\ UNCHANGED <<settings, client, timeVars>>
\* esp_http_client_init() fails: there is no handle and no string.
CreateFails ==
    /\ pc = "ensure"
    /\ ~HandleFits
    /\ client' = None
    /\ strings' = NoStrings
    /\ Return
    /\ UNCHANGED <<settings, timeVars>>

\* Mutant: without a token the header is left as it was.
SetHeadersOnly ==
    /\ pc = "headers"
    /\ client' = IF request.token # None
                   THEN [client EXCEPT !.bearer = request.token] ELSE client
    /\ pc' = "perform"
    /\ UNCHANGED <<settings, request, strings, timeVars>>
\* Authorization is set, or deleted when there is no token.
SetHeaders ==
    /\ pc = "headers"
    /\ client' = [client EXCEPT !.bearer = request.token]
    /\ pc' = "perform"
    /\ UNCHANGED <<settings, request, strings, timeVars>>

\* The server answers 200.
Accepted ==
    /\ pc = "perform"
    /\ ~client.broken
    /\ \E d \in 0..SlowRequest : clock' = Later(clock, d)
    /\ stale' = 0
    /\ backoff' = 0
    /\ Return
    /\ UNCHANGED <<settings, client, strings, until>>

\* The server answers with another status: the transport is healthy, so the
\* handle stays and the cadence slows.
Refused ==
    /\ pc = "perform"
    /\ ~client.broken
    /\ \E d \in 0..SlowRequest : clock' = Later(clock, d)
    /\ stale' = 0
    /\ backoff' = NextBackoff
    /\ until' = Later(clock', backoff')
    /\ Return
    /\ UNCHANGED <<settings, client, strings>>

\* No answer: the handle is broken from here on.
Fails ==
    /\ pc = "perform"
    /\ \E d \in 0..SlowRequest : Passes(d)
    /\ client' = [client EXCEPT !.broken = TRUE]
    /\ pc' = "failed"
    /\ UNCHANGED <<settings, request, strings, backoff, until>>

\* destroy_post_client() after a failed request.
DropHandle ==
    /\ pc = "failed"
    /\ client' = None
    /\ strings' = NoStrings
    /\ Return
    /\ UNCHANGED <<settings, timeVars>>

PostTask ==
    \/ Delay
    \/ NotConnected
    \/ Connected
    \/ ReadToken
    \/ ReadHost
    \/ ReadPort
    \/ NoAddress
    \/ NothingToSend
    \/ DropWhileBackingOff
    \/ ReadSsl
    \/ CaPinned
    \/ ReadName
    \/ TransportUnavailable
    \/ ReadCa
    \/ Reuse
    \/ Create
    \/ CreateFails
    \/ SetHeaders
    \/ Accepted
    \/ Refused
    \/ Fails
    \/ DropHandle

Next == SettingsChange \/ PostTask

Spec == Init /\ [][Next]_vars

\* The POST task runs; advertisements keep arriving, so that a cycle that may
\* send does so time and again; and memory for a handle is found now and then.
FairSpec ==
    /\ Spec
    /\ WF_vars(PostTask)
    /\ SF_vars(ReadSsl)
    /\ SF_vars(Create)

-----------------------------------------------------------------------------
(* Properties.                                                             *)

\* Every variable has its type, and the back-off its ceiling.
TypeOK ==
    /\ settings \in Settings
    /\ pc \in Pcs
    /\ request \in Requests
    /\ client \in Handles \cup {None}
    /\ strings \in [url : Urls, anchor : Anchors]
    /\ backoff \in 0..BackoffCap
    /\ until \in 0..(ClockRange - 1)
    /\ clock \in 0..(ClockRange - 1)
    /\ stale \in 0..(BackoffCap + ClockRange)

\* What the handle was built from is what the gateway's strings still say:
\* esp_http_client keeps the pointers it is handed, so a string replaced
\* under a live handle is a certificate that changes under a live socket.
StringsOutliveHandle ==
    client # None => strings = [url |-> client.url, anchor |-> client.anchor]

\* However the settings changed since the handle was made, a request leaves
\* for the endpoint this cycle chose, checks the anchor this cycle chose and
\* carries the bearer this cycle read, or none; and a handle on which a
\* request has failed is never used again.
RequestIsCurrent ==
    pc = "perform" =>
        /\ client # None
        /\ client.url = request.url
        /\ client.anchor = request.anchor
        /\ client.bearer = request.token
        /\ ~client.broken

\* A TLS request is made against a pinned CA and a name to bind the
\* certificate to, whichever of the trust settings change between their
\* readings, as long as the pinned CA is not reset between has_tofu_ca() and
\* get_tofu_ca(); and a plaintext handle never carries an anchor over.
TlsIsVerified ==
    pc = "perform" =>
        IF client.url.tls
          THEN /\ client.anchor.cn # None
               /\ ~request.torn => client.anchor.ca # None
          ELSE client.anchor = NoAnchor

\* What the comparison of wrapping clock readings does, exactly, wherever the
\* clock wraps and however long no refusal renewed the deadline: it holds
\* back while the interval since the last refusal has not passed, and again
\* for the second half of each turn of the clock after it.
BackoffExact ==
    backoff > 0 =>
        (BackingOff <=> \/ stale < backoff
                        \/ (stale - backoff) % ClockRange >= ClockRange \div 2)

Reachable == settings.connected /\ settings.host # None /\ settings.port # None
TlsUsable == settings.ca # None /\ settings.san # None

\* The gateway never gives up for good: while the server can be reached and
\* verified, requests keep being made, however often it refuses and wherever
\* an old deadline leaves the clock.
KeepsTrying ==
    /\ <>[]Reachable
    /\ <>[]~settings.ssl \/ <>[]TlsUsable
    => []<>(pc = "perform")
=============================================================================
