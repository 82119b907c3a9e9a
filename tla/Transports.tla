---------------------------- MODULE Transports ----------------------------
(***************************************************************************)
(* The runtime components of an application: the HTTP and gRPC servers of  *)
(* framework/runtimecomponent/http.go and grpc.go with their listeners,    *)
(* and other components, of which only Start and Shutdown are known.       *)
(* Components are numbers, in the order of their names.                    *)
(***************************************************************************)
EXTENDS Naturals, Sequences, FiniteSets

CONSTANTS
    Components,     \* 1..n
    Servers,        \* those that are an HTTP or gRPC server
    Requests        \* requests that may be in flight at once

ASSUME TransportAssumption ==
    /\ IsFiniteSet(Components) /\ Components = 1..Cardinality(Components)
    /\ Servers \subseteq Components /\ Servers # {}

\* The request is not in flight.
None == 0

VARIABLES
    started, stopping, exited,  \* sets of components: the runtime's flags
    listener,   \* [Servers -> {"none", "open", "closed"}]
    request,    \* [Requests -> Servers \cup {None}]: where it is in flight
    forced      \* whether a shutdown left requests in flight behind

serverVars == <<started, stopping, exited, listener, request, forced>>

ServerTypeOK ==
    /\ started \subseteq Components
    /\ stopping \subseteq Components
    /\ exited \subseteq started \cap Servers
    /\ listener \in [Servers -> {"none", "open", "closed"}]
    /\ request \in [Requests -> Servers \cup {None}]
    /\ forced \in BOOLEAN

ServerInit ==
    /\ started = {} /\ stopping = {} /\ exited = {}
    /\ listener = [s \in Servers |-> "none"]
    /\ request = [r \in Requests |-> None]
    /\ forced = FALSE

InFlight(s) == \E r \in Requests : request[r] = s

Serving(s) == s \in started \ (stopping \cup exited)

Arrive(r) ==
    /\ request[r] = None
    /\ \E s \in Servers :
        /\ Serving(s) /\ listener[s] = "open"
        /\ request' = [request EXCEPT ![r] = s]
    /\ UNCHANGED <<started, stopping, exited, listener, forced>>

Answer(r) ==
    /\ request[r] # None
    /\ request' = [request EXCEPT ![r] = None]
    /\ UNCHANGED <<started, stopping, exited, listener, forced>>

\* The goroutine around Serve ends when the listener is closed ...
ServeEnds(s) ==
    /\ s \in started \ exited
    /\ listener[s] = "closed"
    /\ exited' = exited \cup {s}
    /\ UNCHANGED <<started, stopping, listener, request, forced>>

\* ... or on its own, with an error of the listener, which it closes.
ServeFails(s) ==
    /\ Serving(s)
    /\ exited' = exited \cup {s}
    /\ listener' = [listener EXCEPT ![s] = "closed"]
    /\ UNCHANGED <<started, stopping, request, forced>>

\* start() of a component that was started before changes nothing.
ComponentStart(c) ==
    /\ c \in started \/ c \notin stopping
    /\ started' = started \cup {c}
    /\ UNCHANGED <<stopping, exited, listener, request, forced>>

\* A server refuses to start only after a shutdown; what stops another
\* component from starting is not known.
ComponentStartFails(c) ==
    /\ c \in Servers => c \in stopping \ started
    /\ UNCHANGED serverVars

\* The first shutdown() of c: no further connection is accepted.
ShutdownBegins(c) ==
    /\ c \notin stopping
    /\ stopping' = stopping \cup {c}
    /\ listener' = [s \in Servers |-> IF s = c THEN "closed" ELSE listener[s]]
    /\ UNCHANGED <<started, exited, request, forced>>

\* Mutant: shutdown closes the listener and does not wait for requests.
ShutdownEnds_NoDrain(c, expired) ==
    /\ c \in stopping
    /\ \/ c \notin started \cap Servers
       \/ c \in exited
       \/ expired
    /\ forced' = (forced \/ (expired /\ InFlight(c)))
    /\ UNCHANGED <<started, stopping, exited, listener, request>>

\* Mutant: shutdown waits for requests however long they take.
ShutdownEnds_NoDeadline(c, expired) ==
    /\ c \in stopping
    /\ c \in started \cap Servers => c \in exited /\ ~InFlight(c)
    /\ UNCHANGED serverVars

\* It returns when the requests are answered and Serve has ended, or with the
\* context's error, leaving the requests to themselves.
ShutdownEnds(c, expired) ==
    /\ c \in stopping
    /\ \/ c \notin started \cap Servers
       \/ c \in exited /\ ~InFlight(c)
       \/ expired
    /\ forced' = (forced \/ (expired /\ InFlight(c)))
    /\ UNCHANGED <<started, stopping, exited, listener, request>>

\* A later shutdown() waits for the end of Serve only.
ShutdownAgain(c, expired) ==
    /\ c \in stopping
    /\ c \in started \cap Servers => c \in exited \/ expired
    /\ UNCHANGED serverVars

\* health(): a server that ended without being told to is unhealthy.
Healthy(c) == c \in started /\ ~(c \in exited \ stopping)

CloseListeners ==
    listener' = [s \in Servers |->
                    IF listener[s] = "open" THEN "closed" ELSE listener[s]]
=============================================================================
