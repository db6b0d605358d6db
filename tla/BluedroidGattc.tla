--------------------------- MODULE BluedroidGattc ---------------------------
(***************************************************************************)
(* BluedroidGATTC, the GATT client that the two Bluedroid provisioners are *)
(* composed with: pending_ and connections_, its calls, and what its event *)
(* handler does to them.  Below it is the Bluetooth host stack, which is   *)
(* not part of the repository: the opens it owes an OPEN_EVT for, and its  *)
(* links with what each is doing.                                          *)
(*                                                                         *)
(* The module has no specification of its own.  Its operators are steps of *)
(* the threads of GattSessions: a call is a step of whoever calls it, an   *)
(* event is a step of the host task, which then runs a callback.  A        *)
(* callback is known by the session id that its closure captured.          *)
(***************************************************************************)
EXTENDS Integers, Sequences, FiniteSetsExt

CONSTANTS
    Sids,           \* session ids
    Peers,          \* addresses of peripherals
    Chars,          \* UUIDs of characteristics
    ConnIds,        \* connection ids of the stack, which come in their order
    None,           \* no session, no connection, no link
    Offers,         \* the characteristics of each peripheral's service
    MaxConnections, \* kMaxConnections
    MaxOpens,       \* bound: opens under way to one peripheral
    MaxOwed         \* bound: requests the stack takes before it is congested

ASSUME ClientAssumption ==
    /\ ConnIds \subseteq Nat /\ IsFiniteSet(ConnIds)
    /\ Offers \in [Peers -> SUBSET Chars]
    /\ MaxConnections \in Nat
    /\ MaxOpens \in Nat
    /\ MaxOwed \in Nat
    /\ None \notin Sids \cup Peers \cup ConnIds
    /\ Peers \cap ConnIds = {}

VARIABLES
    pending,     \* pending_: per address, the session whose callbacks wait
    connections, \* connections_
    opening,     \* per address, the opens the stack owes an OPEN_EVT for
    links        \* the stack's links, and the requests each has to answer

clientVars == <<pending, connections>>
stackVars == <<opening, links>>

\* What a link is asked for: a write of an init sequence, another write (of
\* the server, a timer or a descriptor), or a read.
Requests == {"init", "write", "read"}
\* MTU exchange, service search, and ready or never taken up; or left, where
\* the stack refused the request for one of the first two.
Phases == {"mtu", "search", "up", "left"}

Connection == [peer : Peers, sid : Sids, chars : SUBSET Chars]
Link == [peer : Peers, phase : Phases, closing : BOOLEAN, owed : Seq(Requests)]

\* Neither is None.
ASSUME EntryAssumption == None \notin Connection \cup Link

ClientInit ==
    /\ pending = [p \in Peers |-> None]
    /\ connections = [c \in ConnIds |-> None]
    /\ opening = [p \in Peers |-> 0]
    /\ links = [c \in ConnIds |-> None]

Pending == {p \in Peers : pending[p] # None}
Connected == {c \in ConnIds : connections[c] # None}

-----------------------------------------------------------------------------
(* Calls.                                                                  *)

\* connections_.size() + pending_.size() < kMaxConnections
Room == Cardinality(Connected) + Cardinality(Pending) < MaxConnections

\* gatt_connect() returns a handle.
Connects(sid, p) ==
    /\ Room
    /\ opening[p] < MaxOpens
    /\ pending' = [pending EXCEPT ![p] = sid]
    /\ opening' = [opening EXCEPT ![p] = @ + 1]
    /\ UNCHANGED <<connections, links>>

\* gatt_connect() returns -1: no slot, no interface or no such address leave
\* all as it was; an open that the stack refuses takes the entry back.
ConnectFails(p) ==
    /\ pending' \in {pending, [pending EXCEPT ![p] = None]}
    /\ pending' # pending => Room
    /\ UNCHANGED <<connections, stackVars>>

\* The connections that know the characteristic, whoever they belong to: the
\* handle a caller passes is ignored.
Carriers(ch) == {c \in Connected : ch \in connections[c].chars}

Linked == {c \in ConnIds : links[c] # None}
Owed == UNION {{c} \X DOMAIN links[c].owed : c \in Linked}

\* The stack takes a request for the first of them.
Takes(ch) ==
    /\ Carriers(ch) # {}
    /\ Min(Carriers(ch)) \in Linked
    /\ Cardinality(Owed) < MaxOwed

\* gatt_write() and gatt_read(): the first connection that knows the
\* characteristic is asked; without one, or with a link that is gone or
\* congested, the call returns false.
Asks(ch, request) ==
    /\ links' = IF Takes(ch)
                  THEN [links EXCEPT ![Min(Carriers(ch))].owed = Append(@, request)]
                  ELSE links
    /\ UNCHANGED <<clientVars, opening>>

\* gatt_subscribe_notify(): the descriptor write is asked for like any other,
\* unless the stack refuses to register for notifications or knows no such
\* descriptor.
Subscribes(ch) == Asks(ch, "write") \/ UNCHANGED <<clientVars, stackVars>>

\* gatt_disconnect(): connections_.begin() is closed, whichever it is.
Disconnects ==
    /\ links' = IF Connected # {} /\ links[Min(Connected)] # None
                  THEN [links EXCEPT ![Min(Connected)].closing = TRUE]
                  ELSE links
    /\ UNCHANGED <<clientVars, opening>>

-----------------------------------------------------------------------------
(* Events, on the host task.                                               *)

\* The stack links each peripheral once: an open of a linked one answers with
\* the id that it has.
LinkIds(p) ==
    LET linked == {c \in ConnIds : links[c] # None /\ links[c].peer = p}
    IN  IF linked # {} THEN linked
        ELSE {c \in ConnIds : links[c] = None /\ connections[c] = None}

\* OPEN_EVT: the pending entry becomes a connection, or nobody wants it.  Here
\* and at the next event, that the stack refuses the request is not noticed.
OpenOk(p, c) ==
    /\ opening[p] > 0
    /\ opening' = [opening EXCEPT ![p] = @ - 1]
    /\ IF pending[p] = None
         THEN /\ links' = IF links[c] = None
                            THEN [links EXCEPT ![c] =
                                    [peer |-> p, phase |-> "up",
                                     closing |-> FALSE, owed |-> <<>>]]
                            ELSE links
              /\ UNCHANGED clientVars
         ELSE /\ \E phase \in {"mtu", "left"} :
                    links' = [links EXCEPT ![c] =
                       [peer |-> p, phase |-> phase, closing |-> FALSE,
                        owed |-> IF links[c] = None THEN <<>> ELSE links[c].owed]]
              /\ connections' = [connections EXCEPT ![c] =
                     [peer |-> p, sid |-> pending[p], chars |-> {}]]
              /\ pending' = [pending EXCEPT ![p] = None]

\* OPEN_EVT with a status: on_error() runs, then the entry is erased.
OpenFailed(p) ==
    /\ opening[p] > 0
    /\ opening' = [opening EXCEPT ![p] = @ - 1]
    /\ UNCHANGED <<clientVars, links>>

Unpend(p) ==
    /\ pending' = [pending EXCEPT ![p] = None]
    /\ UNCHANGED <<connections, stackVars>>

\* CFG_MTU_EVT, whatever its status: the service is searched for.
MtuEvent(c) ==
    /\ links[c] # None /\ links[c].phase = "mtu" /\ connections[c] # None
    /\ \E phase \in {"search", "left"} : links' = [links EXCEPT ![c].phase = phase]
    /\ UNCHANGED <<clientVars, opening>>

IsLeft(c) == links[c] # None /\ links[c].phase = "left"

\* SEARCH_RES_EVTs and SEARCH_CMPL_EVT, with discover_characteristics():
\* where no service matched, nothing but on_error() happens; an empty or
\* unreadable list of characteristics is as good as a full one.
SearchComplete(c, found) ==
    /\ links[c] # None /\ links[c].phase = "search" /\ connections[c] # None
    /\ links' = [links EXCEPT ![c].phase = "up"]
    /\ IF found
         THEN \E chars \in {{}, Offers[connections[c].peer]} :
                 connections' = [connections EXCEPT ![c].chars = chars]
         ELSE UNCHANGED connections
    /\ UNCHANGED <<pending, opening>>

\* The oldest request is answered: WRITE_CHAR_EVT, WRITE_DESCR_EVT (whatever
\* their status) or READ_CHAR_EVT.
Answers(c) ==
    /\ links[c] # None /\ links[c].owed # <<>> /\ connections[c] # None
    /\ links' = [links EXCEPT ![c].owed = Tail(@)]
    /\ UNCHANGED <<clientVars, opening>>

\* DISCONNECT_EVT: asked for, or the peripheral is out of reach.  Then
\* on_disconnected() runs, then the entry is erased.
LinkDown(c) ==
    /\ links[c] # None
    /\ links' = [links EXCEPT ![c] = None]
    /\ UNCHANGED <<clientVars, opening>>

Erase(c) ==
    /\ connections' = [connections EXCEPT ![c] = None]
    /\ UNCHANGED <<pending, stackVars>>

ClientTypeOK ==
    /\ pending \in [Peers -> Sids \cup {None}]
    /\ connections \in [ConnIds -> Connection \cup {None}]
    /\ opening \in [Peers -> 0..MaxOpens]
    /\ links \in [ConnIds -> Link \cup {None}]
    /\ Cardinality(Owed) <= MaxOwed
=============================================================================
