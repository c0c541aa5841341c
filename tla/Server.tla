------------------------------- MODULE Server -------------------------------
(***************************************************************************)
(* The life of the server process around the calls of Guardrail (run):     *)
(* a signal stops the listener, the requests in flight are drained for a   *)
(* limited time, then the store is closed and the process ends; it may     *)
(* also crash.  Whatever starts it again is external.  The mappings are in *)
(* Redis and outlive the process; a request in flight does not.            *)
(***************************************************************************)
EXTENDS Guardrail

CONSTANT MaxStops  \* bound on how often the process ends

ASSUME StopAssumption == MaxStops \in Nat /\ "store" \in Faults

VARIABLES
  server,   \* "up", "draining", "closed" (the store) or "down"
  stops,    \* how often it was stopped or crashed
  overran   \* whether the last drain ran into its timeout (history)

serverVars == <<server, stops, overran>>
vars == <<handlerVars, serverVars>>

\* Type invariant of the process and the calls it serves.
ServerTypeOK ==
  /\ TypeOK
  /\ server \in {"up", "draining", "closed", "down"}
  /\ stops \in 0..MaxStops
  /\ overran \in BOOLEAN

ServerInit ==
  /\ Init
  /\ server = "up"
  /\ stops = 0
  /\ overran = FALSE

-----------------------------------------------------------------------------
(* Serving. *)

InFlight(r) == pc[r] \in {"texts", "images", "reversing"}

\* The next step of a request reads or writes the store.
CallsStore(r) ==
  \/ InTexts(r) \/ InAnswer(r)
  \/ /\ pc[r] = "images"
     /\ \/ stage[r] = "load"
        \/ stage[r] = "assign" /\ todo[r] = {} /\ fresh[r] # Empty

\* A closed store fails every call.
FailsWithoutStore(r) ==
  \/ TextFails(r) \/ ReverseUnavailable(r)
  \/ pc[r] = "images" /\ StoreFails(r) /\ UNCHANGED callVars

Serve(r) ==
  /\ \/ server = "up" /\ Arrive(r)
     \/ server \in {"up", "draining"} /\ Work(r)
     \/ server = "closed" /\ CallsStore(r) /\ FailsWithoutStore(r)
     \/ server = "closed" /\ ~CallsStore(r) /\ Work(r)
  /\ UNCHANGED serverVars

\* The connections of some requests end without a response.
CutOff(requests) ==
  /\ reply' = [r \in Request |-> IF r \in requests THEN Error(0) ELSE reply[r]]
  /\ pc' = [r \in Request |-> IF r \notin requests THEN pc[r]
                              ELSE IF pc[r] \in {"answered", "reversing", "back"} THEN "back"
                              ELSE "replied"]
  /\ UNCHANGED <<imageVars, texts, sentTexts, sentImages, answer, got, aware, lapsed>>

\* The connection is refused while the process does not listen.
Unreachable(r) ==
  /\ server # "up"
  /\ \/ pc[r] = "new" /\ (Previous[r] = r \/ pc[Previous[r]] = "over")
     \/ pc[r] = "answered"
  /\ CutOff({r})
  /\ UNCHANGED serverVars

\* The write timeout of the server passed, or the gateway closed the
\* connection: the handler is done, its response is lost.
WriteTimesOut(r) ==
  /\ "caller" \in Faults
  /\ server \in {"up", "draining"}
  /\ pc[r] \in {"replied", "back"}
  /\ reply[r].status # 0
  /\ CutOff({r})
  /\ UNCHANGED serverVars

-----------------------------------------------------------------------------
(* The end of the process and its next start. *)

Signal ==
  /\ server = "up"
  /\ stops < MaxStops
  /\ server' = "draining"
  /\ stops' = stops + 1
  /\ UNCHANGED <<handlerVars, overran>>

\* Variant: Shutdown does not wait.
DrainedAtOnce ==
  /\ server = "draining"
  /\ server' = "closed"
  /\ UNCHANGED <<handlerVars, stops, overran>>

\* Shutdown returns when no request is left; run closes the store and returns.
Drained ==
  /\ server = "draining"
  /\ \A r \in Request : ~InFlight(r)
  /\ server' = "closed"
  /\ UNCHANGED <<handlerVars, stops, overran>>

\* The shutdown timeout: run returns the error, and the store is closed under
\* the requests that are left.
DrainTimesOut ==
  /\ server = "draining"
  /\ \E r \in Request : InFlight(r)
  /\ server' = "closed"
  /\ overran' = TRUE
  /\ UNCHANGED <<handlerVars, stops>>

Exit ==
  /\ server = "closed"
  /\ CutOff({r \in Request : InFlight(r)})
  /\ server' = "down"
  /\ UNCHANGED <<stops, overran>>

Crash ==
  /\ server \in {"up", "draining"}
  /\ stops < MaxStops \/ server = "draining"
  /\ CutOff({r \in Request : InFlight(r)})
  /\ server' = "down"
  /\ stops' = IF server = "up" THEN stops + 1 ELSE stops
  /\ UNCHANGED overran

Boot ==
  /\ server = "down"
  /\ server' = "up"
  /\ overran' = FALSE
  /\ UNCHANGED <<handlerVars, stops>>

Process == Signal \/ Drained \/ DrainTimesOut \/ Exit \/ Crash \/ Boot

Call(r) ==
  \/ Serve(r) \/ Unreachable(r) \/ WriteTimesOut(r)
  \/ Gateway(r) /\ UNCHANGED serverVars

AllOver == (\A r \in Request : pc[r] = "over") /\ UNCHANGED vars

ServerNext == (\E r \in Request : Call(r)) \/ Process \/ AllOver

ServerSpec == ServerInit /\ [][ServerNext]_vars

-----------------------------------------------------------------------------
\* A stop that stays within its timeout costs no request: each one that was
\* accepted before the signal gets its response, and from an open store
\* (SESSION_AND_STATE.md: drain first, then close the client).
StopsGracefully ==
  [][\A r \in Request :
       server = "closed" /\ ~overran /\ InFlight(r) => UNCHANGED <<pc[r], reply[r]>>]_vars
=============================================================================
