--------------------------- MODULE PostChannelProofs ---------------------------
(***************************************************************************)
(* Proofs about PostChannel, for every set of addresses, anchors, names    *)
(* and tokens, every clock and every ceiling.                              *)
(*                                                                         *)
(* What a request leaves with is decided several steps earlier, while the  *)
(* settings go on changing.  The invariant follows the request through     *)
(* those steps: what it has chosen is well-formed, from the moment a       *)
(* handle is ensured the handle says the same, from the moment headers are *)
(* set it carries the token, and a broken handle does not outlive the      *)
(* cycle that broke it.                                                    *)
(***************************************************************************)
EXTENDS PostChannel, TLAPS

\* The variables that hold data.
DataOK ==
    /\ settings \in Settings
    /\ pc \in Pcs
    /\ request \in Requests
    /\ client \in Handles \cup {None}
    /\ strings \in [url : Urls, anchor : Anchors]

\* The variables that hold times.
TimeOK ==
    /\ backoff \in 0..BackoffCap
    /\ until \in 0..(ClockRange - 1)
    /\ clock \in 0..(ClockRange - 1)
    /\ stale \in 0..(BackoffCap + ClockRange)

\* What the readings of the trust settings have found so far, and what has
\* become of it since.
TrustSoFar ==
    /\ pc \notin {"anchor", "ensure", "headers", "perform", "failed"} =>
           request.anchor = NoAnchor
    /\ pc \in {"ca", "san", "anchor"} => request.url.tls
    /\ pc \in {"san", "anchor"} => request.torn \/ settings.ca # None
    /\ pc = "anchor" => request.anchor.cn # None

ChosenIsVerified ==
    pc \in {"ensure", "headers", "perform"} =>
        IF request.url.tls
          THEN /\ request.anchor.cn # None
               /\ ~request.torn => request.anchor.ca # None
          ELSE request.anchor = NoAnchor

HandleIsChosen ==
    pc \in {"headers", "perform"} =>
        /\ client # None
        /\ client.url = request.url
        /\ client.anchor = request.anchor

BearerIsChosen == pc = "perform" => client.bearer = request.token

BrokenIsDropped == client # None /\ pc # "failed" => ~client.broken

ChannelInv ==
    /\ StringsOutliveHandle
    /\ TrustSoFar
    /\ ChosenIsVerified
    /\ HandleIsChosen
    /\ BearerIsChosen
    /\ BrokenIsDropped

-----------------------------------------------------------------------------
(* Types.                                                                  *)

\* A reading of the clock stays one.
LEMMA LaterInRange ==
    ASSUME NEW t \in Nat, NEW d \in Nat
    PROVE  Later(t, d) \in 0..(ClockRange - 1)
BY ChannelAssumption DEF Later

\* Folding a turn away keeps the age within its range.
LEMMA AgedInRange ==
    ASSUME NEW t \in 0..(BackoffCap + ClockRange), NEW d \in 0..ClockRange
    PROVE  Aged(t + d) \in 0..(BackoffCap + ClockRange)
BY ChannelAssumption DEF Aged

\* The interval stays within its ceiling.
LEMMA NextBackoffInRange ==
    ASSUME backoff \in 0..BackoffCap
    PROVE  NextBackoff \in 0..BackoffCap
BY ChannelAssumption DEF NextBackoff

\* Time that passes stays a time.
LEMMA PassesInRange ==
    ASSUME TimeOK, NEW d \in 0..ClockRange, Passes(d)
    PROVE  /\ clock' \in 0..(ClockRange - 1)
           /\ stale' \in 0..(BackoffCap + ClockRange)
<1>1. clock \in Nat /\ d \in Nat
  BY ChannelAssumption DEF TimeOK
<1>2. clock' = Later(clock, d) /\ stale' = IF backoff = 0 THEN 0 ELSE Aged(stale + d)
  BY DEF Passes
<1>3. Aged(stale + d) \in 0..(BackoffCap + ClockRange)
  BY AgedInRange DEF TimeOK
<1>4. clock' \in 0..(ClockRange - 1)
  BY <1>1, <1>2, LaterInRange
<1>5. 0 \in 0..(BackoffCap + ClockRange)
  BY ChannelAssumption
<1>6. QED
  BY <1>2, <1>3, <1>4, <1>5

\* The steps that take no time.
TimelessStep ==
    \/ SettingsChange \/ NotConnected \/ Connected
    \/ ReadToken \/ ReadHost \/ ReadPort \/ NoAddress
    \/ NothingToSend \/ DropWhileBackingOff
    \/ ReadSsl \/ CaPinned \/ ReadName \/ TransportUnavailable \/ ReadCa
    \/ Reuse \/ Create \/ CreateFails \/ SetHeaders \/ DropHandle
    \/ UNCHANGED vars

LEMMA TimelessSteps ==
    ASSUME TimelessStep
    PROVE  UNCHANGED timeVars
<1>1. CASE SettingsChange \/ NotConnected \/ Connected \/ UNCHANGED vars
  BY <1>1 DEF SettingsChange, NotConnected, Connected, vars, timeVars
<1>2. CASE ReadToken \/ ReadHost \/ ReadPort \/ NoAddress
  BY <1>2 DEF ReadToken, ReadHost, ReadPort, NoAddress
<1>3. CASE NothingToSend \/ DropWhileBackingOff \/ ReadSsl \/ CaPinned
  BY <1>3 DEF NothingToSend, DropWhileBackingOff, ReadSsl, CaPinned
<1>4. CASE ReadName \/ TransportUnavailable \/ ReadCa \/ Reuse
  BY <1>4 DEF ReadName, TransportUnavailable, ReadCa, Reuse
<1>5. CASE Create \/ CreateFails \/ SetHeaders \/ DropHandle
  BY <1>5 DEF Create, CreateFails, SetHeaders, DropHandle
<1>6. QED
  BY <1>1, <1>2, <1>3, <1>4, <1>5 DEF TimelessStep

\* The others.
LEMMA TimedSteps ==
    ASSUME [Next]_vars, ~TimelessStep
    PROVE  Delay \/ Accepted \/ Refused \/ Fails
BY DEF Next, PostTask, TimelessStep

LEMMA TimeStep ==
    ASSUME TimeOK, [Next]_vars
    PROVE  TimeOK'
<1>0. SlowRequest \in Nat /\ SlowRequest < ClockRange /\ 1 \in 0..ClockRange
  BY ChannelAssumption
<1>1. CASE TimelessStep
  BY <1>1, TimelessSteps DEF TimeOK, timeVars
<1>2. CASE Delay
  <2>1. Passes(1) /\ UNCHANGED <<backoff, until>>
    BY <1>2 DEF Delay
  <2>2. QED
    BY <1>0, <2>1, PassesInRange DEF TimeOK
<1>3. CASE Accepted \/ Refused
  <2>1. PICK d \in 0..SlowRequest : clock' = Later(clock, d)
    BY <1>3 DEF Accepted, Refused
  <2>2. clock' \in 0..(ClockRange - 1) /\ clock' \in Nat
    BY <2>1, LaterInRange, ChannelAssumption DEF TimeOK
  <2>3. stale' = 0 /\ 0 \in 0..(BackoffCap + ClockRange)
    BY <1>3, ChannelAssumption DEF Accepted, Refused
  <2>4. CASE Accepted
    <3>1. backoff' = 0 /\ until' = until
      BY <2>4 DEF Accepted
    <3>2. QED
      BY <2>2, <2>3, <3>1, ChannelAssumption DEF TimeOK
  <2>5. CASE Refused
    <3>1. backoff' \in 0..BackoffCap
      BY <2>5, NextBackoffInRange DEF Refused, TimeOK
    <3>2. until' \in 0..(ClockRange - 1)
      BY <2>5, <2>2, <3>1, LaterInRange, ChannelAssumption DEF Refused
    <3>3. QED
      BY <2>2, <2>3, <3>1, <3>2 DEF TimeOK
  <2>6. QED
    BY <1>3, <2>4, <2>5
<1>4. CASE Fails
  <2>1. PICK d \in 0..SlowRequest : Passes(d)
    BY <1>4 DEF Fails
  <2>2. d \in 0..ClockRange
    BY <1>0, ChannelAssumption
  <2>3. UNCHANGED <<backoff, until>>
    BY <1>4 DEF Fails
  <2>4. QED
    BY <2>1, <2>2, <2>3, PassesInRange DEF TimeOK
<1>5. QED
  BY <1>1, <1>2, <1>3, <1>4, TimedSteps

-----------------------------------------------------------------------------
(* The data, and what a request leaves with.                               *)

DataInv == DataOK /\ ChannelInv

LEMMA DataInvStep ==
    ASSUME DataInv, [Next]_vars
    PROVE  DataInv'
<1> USE ChannelAssumption, HandleAssumption
<1> USE DEF DataInv, DataOK, ChannelInv, StringsOutliveHandle, TrustSoFar,
        ChosenIsVerified, HandleIsChosen, BearerIsChosen, BrokenIsDropped, Pcs
<1>0. /\ NoRequest \in Requests
      /\ NoRequest.anchor = NoAnchor
  BY DEF NoRequest, Requests, NoUrl, NoAnchor, Urls, Anchors
<1>1. CASE SettingsChange
  <2> DEFINE t == request.torn \/ (pc \in {"san", "anchor"} /\ settings'.ca = None)
  <2>1. /\ settings' \in Settings
        /\ request' = [request EXCEPT !.torn = t]
        /\ UNCHANGED <<pc, client, strings>>
    BY <1>1 DEF SettingsChange
  <2>2. /\ request' \in Requests
        /\ request'.torn = t
        /\ request'.token = request.token
        /\ request'.url = request.url
        /\ request'.anchor = request.anchor
    BY <2>1 DEF Requests
  <2>3. QED
    BY <2>1, <2>2
<1>2. CASE NotConnected \/ NoAddress \/ NothingToSend \/ DropWhileBackingOff
           \/ TransportUnavailable
  <2>1. pc' = "wait" /\ request' = NoRequest /\ UNCHANGED <<settings, client, strings>>
        /\ pc # "failed"
    BY <1>2 DEF NotConnected, NoAddress, NothingToSend, DropWhileBackingOff,
       TransportUnavailable, Return
  <2>2. QED
    BY <1>0, <2>1
<1>3. CASE Delay \/ Connected \/ CaPinned
  BY <1>3 DEF Delay, Connected, CaPinned
<1>4. CASE ReadToken \/ ReadHost \/ ReadPort
  <2>1. /\ settings.token \in Tokens \cup {None}
        /\ settings.host \in Hosts \cup {None}
        /\ settings.port \in Ports \cup {None}
    BY DEF Settings
  <2>2. request' \in Requests /\ request'.anchor = request.anchor
    BY <1>4, <2>1 DEF ReadToken, ReadHost, ReadPort, Requests, Urls
  <2>3. /\ pc \in {"token", "host", "port"} /\ pc' \in {"host", "port", "drained"}
        /\ UNCHANGED <<settings, client, strings>>
    BY <1>4 DEF ReadToken, ReadHost, ReadPort
  <2>4. QED
    BY <2>2, <2>3
<1>14. CASE ReadSsl
  <2>1. settings.ssl \in BOOLEAN
    BY DEF Settings
  <2>2. /\ request' \in Requests /\ request'.anchor = request.anchor
        /\ request'.url.tls = settings.ssl
    BY <1>14, <2>1 DEF ReadSsl, Requests, Urls
  <2>3. /\ pc = "drained" /\ pc' = (IF settings.ssl THEN "ca" ELSE "ensure")
        /\ UNCHANGED <<settings, client, strings>>
    BY <1>14 DEF ReadSsl
  <2>4. QED
    BY <2>1, <2>2, <2>3
<1>15. CASE ReadName \/ ReadCa
  <2>1. settings.san \in Names \cup {None} /\ settings.ca \in Cas \cup {None}
    BY DEF Settings
  <2>2. /\ request' \in Requests
        /\ request'.url = request.url /\ request'.torn = request.torn
    BY <1>15, <2>1 DEF ReadName, ReadCa, Requests, Anchors
  <2>3. UNCHANGED <<settings, client, strings>>
    BY <1>15 DEF ReadName, ReadCa
  <2>4. CASE ReadName
    <3>1. /\ pc = "san" /\ pc' = "anchor" /\ settings.san # None
          /\ request'.anchor.cn = settings.san
      BY <2>1, <2>4 DEF ReadName, HasName, Requests, Anchors
    <3>2. QED
      BY <2>2, <2>3, <3>1
  <2>5. CASE ReadCa
    <3>1. /\ pc = "anchor" /\ pc' = "ensure"
          /\ request'.anchor.cn = request.anchor.cn
          /\ request'.anchor.ca = settings.ca
      BY <2>1, <2>5 DEF ReadCa, Requests, Anchors
    <3>2. QED
      BY <2>2, <2>3, <3>1
  <2>6. QED
    BY <1>15, <2>4, <2>5
<1>5. CASE Reuse
  BY <1>5 DEF Reuse, HandleFits, Chosen
<1>6. CASE Create
  <2>1. client' = [url |-> request.url, anchor |-> request.anchor,
                   bearer |-> None, broken |-> FALSE]
    BY <1>6 DEF Create
  <2>2. client' \in Handles /\ client' # None
    <3>1. request.url \in Urls /\ request.anchor \in Anchors
      BY DEF Requests
    <3>2. client' \in Handles
      BY <2>1, <3>1, Zenon DEF Handles
    <3>3. QED
      BY <3>2, HandleAssumption
  <2>3. /\ client'.url = request.url
        /\ client'.anchor = request.anchor
        /\ ~client'.broken
    BY <2>1
  <2>4. strings' = [url |-> request.url, anchor |-> request.anchor]
    BY <1>6 DEF Create, Chosen
  <2>5. strings' = [url |-> client'.url, anchor |-> client'.anchor]
    BY <2>3, <2>4
  <2>6. strings' \in [url : Urls, anchor : Anchors]
    BY <2>4 DEF Requests
  <2>7. pc' = "headers" /\ UNCHANGED <<settings, request>> /\ pc = "ensure"
    BY <1>6 DEF Create
  <2>8. DataOK'
    BY <2>2, <2>6, <2>7
  <2>9. StringsOutliveHandle' /\ HandleIsChosen'
    BY <2>2, <2>3, <2>5, <2>7
  <2>10. ChosenIsVerified' /\ TrustSoFar'
    BY <2>7
  <2>11. BearerIsChosen' /\ BrokenIsDropped'
    BY <2>3, <2>7
  <2>12. QED
    BY <2>8, <2>9, <2>10, <2>11
<1>7. CASE CreateFails \/ DropHandle
  <2>1. /\ pc' = "wait" /\ request' = NoRequest /\ client' = None
        /\ strings' = NoStrings /\ UNCHANGED settings
    BY <1>7 DEF CreateFails, DropHandle, Return
  <2>2. NoStrings \in [url : Urls, anchor : Anchors]
    BY DEF NoStrings, NoUrl, NoAnchor, Urls, Anchors
  <2>3. QED
    BY <1>0, <2>1, <2>2
<1>8. CASE SetHeaders
  BY <1>8 DEF SetHeaders, Handles, Requests
<1>9. CASE Accepted \/ Refused
  BY <1>0, <1>9 DEF Accepted, Refused, Return
<1>10. CASE Fails
  BY <1>10 DEF Fails, Handles
<1>12. CASE UNCHANGED vars
  BY <1>12 DEF vars
<1>13. QED
  BY <1>1, <1>2, <1>3, <1>4, <1>5, <1>6, <1>7, <1>8, <1>9, <1>10, <1>12, <1>14,
     <1>15
  DEF Next, PostTask

LEMMA DataInvInit == ASSUME Init PROVE DataInv
BY DEF Init, DataInv, DataOK, ChannelInv, StringsOutliveHandle, TrustSoFar,
   ChosenIsVerified, HandleIsChosen, BearerIsChosen, BrokenIsDropped, Pcs,
   NoRequest, Requests, NoStrings, NoUrl, NoAnchor, Urls, Anchors

LEMMA DataInvAlways == Spec => []DataInv
<1>1. Init => DataInv
  BY DataInvInit
<1>2. DataInv /\ [Next]_vars => DataInv'
  BY DataInvStep
<1>3. QED
  BY <1>1, <1>2, PTL DEF Spec

-----------------------------------------------------------------------------
\* Every variable keeps its type, and the back-off its ceiling.
THEOREM TypeCorrect == Spec => []TypeOK
<1>1. Init => TimeOK
  BY ChannelAssumption DEF Init, TimeOK
<1>2. TimeOK /\ [Next]_vars => TimeOK'
  BY TimeStep
<1>3. DataInv /\ TimeOK => TypeOK
  BY DEF DataInv, DataOK, TimeOK, TypeOK
<1>4. QED
  BY <1>1, <1>2, <1>3, DataInvAlways, PTL DEF Spec

\* A string the handle points into is never replaced under it.
THEOREM StringsOutliveHandleAlways == Spec => []StringsOutliveHandle
<1>1. DataInv => StringsOutliveHandle
  BY DEF DataInv, ChannelInv
<1>2. QED
  BY <1>1, DataInvAlways, PTL

\* A request leaves for the endpoint, with the anchor and with the bearer its
\* own cycle chose, on a handle on which no request has failed.
THEOREM RequestIsCurrentAlways == Spec => []RequestIsCurrent
<1>1. DataInv => RequestIsCurrent
  BY DEF DataInv, ChannelInv, HandleIsChosen, BearerIsChosen, BrokenIsDropped,
     RequestIsCurrent
<1>2. QED
  BY <1>1, DataInvAlways, PTL

\* A TLS request is made against an anchor and a name, however the settings
\* change between the readings of them, unless the pinned CA is reset between
\* has_tofu_ca() and get_tofu_ca().
THEOREM TlsIsVerifiedAlways == Spec => []TlsIsVerified
<1>1. DataInv => TlsIsVerified
  BY DEF DataInv, ChannelInv, ChosenIsVerified, HandleIsChosen, TlsIsVerified
<1>2. QED
  BY <1>1, DataInvAlways, PTL

-----------------------------------------------------------------------------
(* The back-off.                                                           *)

\* The two readings of the clock differ by what is left of the interval, or
\* what has passed since, up to turns of the clock.
Turns(k) == clock - until = stale - backoff + k * ClockRange
InStep == backoff > 0 => \E k \in Int : Turns(k)

TimeInv == TimeOK /\ InStep

\* A remainder is what is left after some turns.
LEMMA Remainder ==
    ASSUME NEW a \in Int, NEW n \in Nat \ {0}
    PROVE  a % n \in 0..(n - 1) /\ \E q \in Int : a = q * n + (a % n)
<1>1. a % n \in 0..(n - 1)
  OBVIOUS
<1>2. a \div n \in Int /\ a = (a \div n) * n + (a % n)
  OBVIOUS
<1>3. QED
  BY <1>1, <1>2

LEMMA LaterTurns ==
    ASSUME NEW t \in Nat, NEW d \in Nat
    PROVE  \E q \in Int : Later(t, d) = t + d - q * ClockRange
<1> DEFINE sum == t + d
<1>1. ClockRange \in Nat \ {0} /\ sum \in Int
  BY ChannelAssumption
<1> HIDE DEF sum
<1>2. PICK q \in Int : sum = q * ClockRange + (sum % ClockRange)
  BY <1>1, Remainder
<1>3. q * ClockRange \in Int /\ sum % ClockRange \in Int
  BY <1>1
<1>4. sum % ClockRange = sum - q * ClockRange
  BY <1>1, <1>2, <1>3
<1>5. Later(t, d) = t + d - q * ClockRange
  BY <1>1, <1>3, <1>4 DEF Later, sum
<1>6. QED
  BY <1>5

\* Fewer than one turn is none.
LEMMA NoTurn ==
    ASSUME NEW k \in Int, NEW n \in Nat, -n < k * n, k * n < n
    PROVE  k * n = 0
<1>1. CASE k >= 1
  <2>1. (k - 1) * n >= 0
    BY <1>1
  <2>2. (k - 1) * n = k * n - n
    OBVIOUS
  <2>3. QED
    BY <2>1, <2>2
<1>2. CASE k <= -1
  <2>1. (-1 - k) * n >= 0
    BY <1>2
  <2>2. (-1 - k) * n = -n - k * n
    OBVIOUS
  <2>3. QED
    BY <2>1, <2>2
<1>3. CASE k = 0
  BY <1>3
<1>4. QED
  BY <1>1, <1>2, <1>3

\* Numbers that differ by whole turns have the same remainder.
LEMMA SameRemainder ==
    ASSUME NEW a \in Int, NEW b \in Int, NEW n \in Nat \ {0}, NEW k \in Int,
           a = b + k * n
    PROVE  a % n = b % n
<1>1. PICK p \in Int : a = p * n + (a % n)
  BY Remainder
<1>2. PICK q \in Int : b = q * n + (b % n)
  BY Remainder
<1>3. a % n \in 0..(n - 1) /\ b % n \in 0..(n - 1)
  BY Remainder
<1>4. k * n \in Int /\ p * n \in Int /\ q * n \in Int
  OBVIOUS
<1>5. (q + k - p) * n = q * n + k * n - p * n
  OBVIOUS
<1>6. (q + k - p) * n = (a % n) - (b % n)
  <2> DEFINE kn == k * n
             pn == p * n
             qn == q * n
  <2>1. kn \in Int /\ pn \in Int /\ qn \in Int /\ a % n \in Int /\ b % n \in Int
    BY <1>3, <1>4
  <2>2. a = pn + (a % n) /\ b = qn + (b % n) /\ a = b + kn
    BY <1>1, <1>2
  <2> DEFINE ra == a % n
             rb == b % n
  <2>3. ra \in Int /\ rb \in Int /\ a = pn + ra /\ b = qn + rb
    BY <2>1, <2>2
  <2>4. (q + k - p) * n = qn + kn - pn
    BY <1>5
  <2> HIDE DEF kn, pn, qn, ra, rb
  <2>5. qn + kn - pn = ra - rb
    BY <2>1, <2>2, <2>3
  <2>6. QED
    BY <2>4, <2>5 DEF ra, rb
<1>7. -n < (q + k - p) * n /\ (q + k - p) * n < n
  BY <1>3, <1>6
<1>8. (q + k - p) * n = 0
  BY <1>7, NoTurn
<1>9. QED
  BY <1>3, <1>6, <1>8

\* Time that passes changes both differences alike, up to turns.
LEMMA PassesInStep ==
    ASSUME TimeInv, NEW d \in Nat, Passes(d), UNCHANGED <<backoff, until>>
    PROVE  InStep'
<1>0. /\ backoff \in Nat /\ until \in Nat /\ clock \in Nat /\ stale \in Nat
      /\ ClockRange \in Nat \ {0}
  BY ChannelAssumption DEF TimeInv, TimeOK
<1> SUFFICES ASSUME backoff' > 0
             PROVE  \E k \in Int : clock' - until' = stale' - backoff' + k * ClockRange
  BY DEF InStep, Turns
<1>1. PICK k \in Int : clock - until = stale - backoff + k * ClockRange
  BY DEF TimeInv, InStep, Turns
<1>2. PICK q \in Int : clock' = clock + d - q * ClockRange
  BY <1>0, LaterTurns DEF Passes
<1>3. PICK f \in 0..1 : stale' = stale + d - f * ClockRange
  <2>1. stale' = stale + d \/ stale' = stale + d - ClockRange
    BY <1>0 DEF Passes, Aged
  <2>2. 0 * ClockRange = 0 /\ 1 * ClockRange = ClockRange
    BY <1>0
  <2>3. QED
    BY <1>0, <2>1, <2>2
<1>4. (k - q + f) * ClockRange = k * ClockRange - q * ClockRange + f * ClockRange
  BY <1>0
<1>5. /\ k * ClockRange \in Int /\ q * ClockRange \in Int /\ f * ClockRange \in Int
      /\ k - q + f \in Int
  BY <1>0
<1>6. clock' - until' = stale' - backoff' + (k - q + f) * ClockRange
  BY <1>0, <1>1, <1>2, <1>3, <1>4, <1>5
<1>7. QED
  BY <1>5, <1>6

\* A refusal starts both.
LEMMA InStepStep ==
    ASSUME TimeInv, [Next]_vars
    PROVE  InStep'
<1>0. ClockRange \in Nat \ {0} /\ SlowRequest \in Nat
  BY ChannelAssumption
<1>1. CASE TimelessStep
  BY <1>1, TimelessSteps DEF TimeInv, InStep, Turns, timeVars
<1>2. CASE Delay
  BY <1>2, PassesInStep DEF Delay
<1>3. CASE Fails
  <2>1. PICK d \in 0..SlowRequest : Passes(d)
    BY <1>3 DEF Fails
  <2>2. d \in Nat /\ UNCHANGED <<backoff, until>>
    BY <1>0, <1>3 DEF Fails
  <2>3. QED
    BY <2>1, <2>2, PassesInStep
<1>4. CASE Accepted
  BY <1>4 DEF Accepted, InStep
<1>5. CASE Refused
  <2>1. clock' \in Nat /\ backoff' \in Nat
    <3>1. TimeOK'
      BY TimeStep DEF TimeInv
    <3>2. QED
      BY <3>1, ChannelAssumption DEF TimeOK
  <2>2. stale' = 0 /\ until' = Later(clock', backoff')
    BY <1>5 DEF Refused
  <2>3. PICK q \in Int : until' = clock' + backoff' - q * ClockRange
    BY <2>1, <2>2, LaterTurns
  <2>4. q * ClockRange \in Int
    BY <1>0
  <2>5. clock' - until' = stale' - backoff' + q * ClockRange
    BY <2>1, <2>2, <2>3, <2>4
  <2>6. QED
    BY <2>5 DEF InStep, Turns
<1>6. QED
  BY <1>1, <1>2, <1>3, <1>4, <1>5, TimedSteps

LEMMA TimeInvAlways == Spec => []TimeInv
<1>1. Init => TimeInv
  BY ChannelAssumption DEF Init, TimeInv, TimeOK, InStep
<1>2. TimeInv /\ [Next]_vars => TimeInv'
  BY TimeStep, InStepStep DEF TimeInv
<1>3. QED
  BY <1>1, <1>2, PTL DEF Spec

\* The signed difference of the two readings is negative in the second half
\* of a turn, counted from the deadline.
LEMMA ExactInStep ==
    ASSUME TimeInv
    PROVE  BackoffExact
<1> DEFINE half == ClockRange \div 2
           diff == clock - until
           since == stale - backoff
<1>1. /\ backoff \in Nat /\ stale \in Nat /\ clock \in Nat /\ until \in Nat
      /\ half \in Nat /\ ClockRange = 2 * half
      /\ backoff < half /\ ClockRange \in Nat \ {0}
  BY ChannelAssumption DEF TimeInv, TimeOK
<1> SUFFICES ASSUME backoff > 0
             PROVE  AsLong(diff % ClockRange) < 0
                      <=> \/ stale < backoff
                          \/ since % ClockRange >= half
  BY DEF BackoffExact, BackingOff
<1>2. PICK k \in Int : diff = since + k * ClockRange
  BY DEF TimeInv, InStep, Turns
<1>3. diff \in Int /\ since \in Int
  BY <1>1
<1>4. diff % ClockRange = since % ClockRange
  <2> HIDE DEF diff, since
  <2>1. QED
    BY <1>1, <1>2, <1>3, SameRemainder
<1>5. since % ClockRange \in 0..(ClockRange - 1)
  <2> HIDE DEF since
  <2>1. QED
    BY <1>1, <1>3, Remainder
<1>6. AsLong(diff % ClockRange) < 0 <=> since % ClockRange >= half
  BY <1>1, <1>4, <1>5 DEF AsLong
<1>7. stale < backoff => since % ClockRange >= half
  <2> SUFFICES ASSUME stale < backoff
               PROVE  since % ClockRange >= half
    OBVIOUS
  <2>1. since + ClockRange \in 0..(ClockRange - 1) /\ since + ClockRange >= half
    BY <1>1
  <2>2. (since + ClockRange) % ClockRange = since % ClockRange
    <3> DEFINE next == since + ClockRange
    <3>1. next \in Int
      BY <1>1
    <3>2. PICK j \in Int : next = since + j * ClockRange
      BY <1>1
    <3> HIDE DEF since, next
    <3>3. next % ClockRange = since % ClockRange
      BY <1>1, <1>3, <3>1, <3>2, SameRemainder
    <3>4. QED
      BY <3>3 DEF next
  <2>3. (since + ClockRange) % ClockRange = since + ClockRange
    <3> DEFINE n == since + ClockRange
    <3>1. n \in 0..(ClockRange - 1)
      BY <2>1
    <3> HIDE DEF n
    <3>2. n % ClockRange = n
      BY <1>1, <3>1
    <3>3. QED
      BY <3>2 DEF n
  <2>4. QED
    BY <2>1, <2>2, <2>3
<1>8. QED
  BY <1>6, <1>7

\* For every clock, every ceiling and every behaviour, with no bound on the
\* time since the last refusal: a cycle holds back while the interval has not
\* passed, and in the second half of every turn of the clock after it.
THEOREM BackoffExactAlways == Spec => []BackoffExact
<1>1. TimeInv => BackoffExact
  BY ExactInStep
<1>2. QED
  BY <1>1, TimeInvAlways, PTL

\* So the interval is kept, neither more nor less, as long as the last refusal
\* lies no further back than it and half the range of the clock, which is
\* 24.8 days for the 32 bits of millis().
THEOREM IntervalIsKeptWhileYoung ==
    Spec => [](backoff > 0 /\ stale < backoff + ClockRange \div 2
                 => (BackingOff <=> stale < backoff))
<1>1. TimeInv => (backoff > 0 /\ stale < backoff + ClockRange \div 2
                    => (BackingOff <=> stale < backoff))
  <2> SUFFICES ASSUME TimeInv, backoff > 0, stale < backoff + ClockRange \div 2
               PROVE  BackingOff <=> stale < backoff
    OBVIOUS
  <2>0. BackingOff <=> \/ stale < backoff
                       \/ (stale - backoff) % ClockRange >= ClockRange \div 2
    BY ExactInStep DEF BackoffExact
  <2>4. CASE stale < backoff
    BY <2>0, <2>4
  <2> SUFFICES ASSUME ~(stale < backoff)
               PROVE  ~((stale - backoff) % ClockRange >= ClockRange \div 2)
    BY <2>0, <2>4
  <2> DEFINE since == stale - backoff
  <2>1. /\ since \in 0..(ClockRange - 1) /\ since < ClockRange \div 2
        /\ ClockRange \in Nat \ {0}
    BY ChannelAssumption DEF TimeInv, TimeOK
  <2> HIDE DEF since
  <2>2. since % ClockRange = since
    BY <2>1
  <2>3. ClockRange \div 2 \in Int
    BY ChannelAssumption
  <2>5. QED
    BY <2>1, <2>2, <2>3 DEF since
<1>2. QED
  BY <1>1, TimeInvAlways, PTL
=============================================================================
