------------------------------ MODULE L4Verifier ------------------------------
(***************************************************************************)
(* The L4 verifier (scripts/fulgor/cloud): the controller's client and its  *)
(* Cloud Run transport, the worker process with its one inference slot, and *)
(* the llama.cpp runtime it spawns.  The controller verifies one candidate  *)
(* at a time.  Deadlines may run out at any moment once they are armed, so  *)
(* what holds here holds for every setting of the timeouts.                 *)
(***************************************************************************)
EXTENDS Naturals

CONSTANTS
    CallCount,      \* candidates the controller has verified, in this order
    MaxRestarts     \* bound on the containers Cloud Run starts afterwards

ASSUME L4Assumption == CallCount \in Nat /\ MaxRestarts \in Nat

Calls == 1..CallCount
Nobody == 0         \* no candidate

VARIABLES
    outcome,    \* how L4WorkerClient.verify ended for its caller
    verdictOf,  \* the candidate whose evidence the caller's verdict is about
    send,       \* where CloudRunIdTokenTransport.send is
    handler,    \* the worker's handler of the call
    reply,      \* what the worker wrote into the response
    replyOf,    \* the candidate whose evidence that response is about
    inFlight,   \* the worker's slot
    runtime,    \* chat completions the runtime has not finished
    aborted,    \* those whose fetch the worker has aborted
    main,       \* l4WorkerMain: its process and main()
    stopping,   \* shutdown() has begun
    child,      \* the runtime process
    signalled,  \* shutdown() has sent it SIGTERM
    late,       \* history: it was spawned when shutdown() had begun
    restarts

clientVars == <<outcome, verdictOf, send>>
serverVars == <<handler, reply, replyOf, inFlight>>
runtimeVars == <<runtime, aborted>>
processVars == <<main, stopping, child, signalled, late, restarts>>
vars == <<clientVars, serverVars, runtimeVars, processVars>>

Active(c) == handler[c] \in {"reading", "inferring"}
Abandoned == {"timeout", "lost"}
Answered == {"verdict", "busy", "refused"}

TypeOK ==
    /\ outcome \in [Calls -> {"none", "tooLarge"} \cup Abandoned \cup Answered]
    /\ verdictOf \in [Calls -> Calls \cup {Nobody}]
    /\ send \in [Calls -> {"idle", "token", "fetch", "over"}]
    /\ handler \in [Calls -> {"none", "reading", "inferring", "done"}]
    /\ reply \in [Calls -> {"none"} \cup Answered]
    /\ replyOf \in [Calls -> Calls \cup {Nobody}]
    /\ inFlight \in BOOLEAN
    /\ runtime \subseteq Calls /\ aborted \subseteq runtime
    /\ main \in {"hashing", "started", "exited"}
    /\ stopping \in BOOLEAN /\ signalled \in BOOLEAN /\ late \in BOOLEAN
    /\ child \in {"none", "loading", "up", "gone"}
    /\ restarts \in 0..MaxRestarts

Init ==
    /\ outcome = [c \in Calls |-> "none"]
    /\ verdictOf = [c \in Calls |-> Nobody]
    /\ send = [c \in Calls |-> "idle"]
    /\ handler = [c \in Calls |-> "none"]
    /\ reply = [c \in Calls |-> "none"]
    /\ replyOf = [c \in Calls |-> Nobody]
    /\ inFlight = FALSE
    /\ runtime = {} /\ aborted = {}
    /\ main = "hashing" /\ stopping = FALSE
    /\ child = "none" /\ signalled = FALSE /\ late = FALSE
    /\ restarts = 0

-----------------------------------------------------------------------------
(* The client and its transport.                                            *)

\* The caller learns an outcome once; a later one goes to nobody.
Settle(c, o) == outcome' = [outcome EXCEPT ![c] = IF @ = "none" THEN o ELSE @]

\* verify(): the controller's next candidate is parsed and bounded, the
\* caller's deadline is armed and the transport asks for an ID token.
Verify(c) ==
    /\ send[c] = "idle" /\ outcome[c] = "none"
    /\ \A d \in Calls : d < c => outcome[d] # "none"
    /\ \/ send' = [send EXCEPT ![c] = "token"] /\ UNCHANGED outcome
       \/ Settle(c, "tooLarge") /\ UNCHANGED send
    /\ UNCHANGED <<verdictOf, serverVars, runtimeVars, processVars>>

\* withTimeout: the caller is answered; the transport is not told.
CallerTimeout(c) ==
    /\ send[c] \in {"token", "fetch"} /\ outcome[c] = "none"
    /\ Settle(c, "timeout")
    /\ UNCHANGED <<verdictOf, send, serverVars, runtimeVars, processVars>>

EndSend(c, o) ==
    /\ send' = [send EXCEPT ![c] = "over"] /\ Settle(c, o)
    /\ UNCHANGED <<verdictOf, serverVars, runtimeVars, processVars>>

\* The token is there in time and the request goes out.
TokenArrives(c) ==
    /\ send[c] = "token"
    /\ send' = [send EXCEPT ![c] = "fetch"]
    /\ UNCHANGED <<outcome, verdictOf, serverVars, runtimeVars, processVars>>

\* The provider throws or gives a malformed token.
TokenFails(c) == send[c] = "token" /\ EndSend(c, "lost")

\* The token does not come before the deadline, or leaves no time.
TokenTimeout(c) == send[c] = "token" /\ EndSend(c, "timeout")

\* Mutant: the abort timer is only armed for a caller that still waits.
FetchAbort_ForCaller(c) ==
    send[c] = "fetch" /\ outcome[c] = "none" /\ EndSend(c, "timeout")

\* The abort timer for the time that is left.  The worker does not notice.
FetchAbort(c) == send[c] = "fetch" /\ EndSend(c, "timeout")

\* The connection breaks, or the platform answers in the worker's place.
FetchFails(c) == send[c] = "fetch" /\ EndSend(c, "lost")

\* The response is received and checked: status, model, blinded identity,
\* which the worker's envelope takes from the request of this connection.
Receive(c) ==
    /\ send[c] = "fetch" /\ reply[c] # "none"
    /\ send' = [send EXCEPT ![c] = "over"]
    /\ Settle(c, reply[c])
    /\ verdictOf' = IF outcome[c] = "none" /\ reply[c] = "verdict"
                    THEN [verdictOf EXCEPT ![c] = replyOf[c]] ELSE verdictOf
    /\ UNCHANGED <<serverVars, runtimeVars, processVars>>

-----------------------------------------------------------------------------
(* The worker's handler of POST /v1/verify.                                 *)

\* The handler writes its response and its finally block frees the slot.
Respond(c, o, about) ==
    /\ handler' = [handler EXCEPT ![c] = "done"]
    /\ reply' = [reply EXCEPT ![c] = o]
    /\ replyOf' = [replyOf EXCEPT ![c] = about]
    /\ inFlight' = FALSE

\* A request arrives: it takes the slot, or is told WORKER_BUSY.  Requests
\* delivered after their client aborted, and requests on a connection kept
\* open over the shutdown, are not modelled.
Accept(c) ==
    /\ send[c] = "fetch" /\ handler[c] = "none"
    /\ main # "exited" /\ ~stopping
    /\ IF inFlight
       THEN /\ handler' = [handler EXCEPT ![c] = "done"]
            /\ reply' = [reply EXCEPT ![c] = "busy"]
            /\ UNCHANGED inFlight
       ELSE /\ handler' = [handler EXCEPT ![c] = "reading"]
            /\ inFlight' = TRUE
            /\ UNCHANGED reply
    /\ UNCHANGED <<replyOf, clientVars, runtimeVars, processVars>>

\* Mutant: a refusal returns without freeing the slot.
Refuse_KeepSlot(c) ==
    /\ handler[c] = "reading"
    /\ handler' = [handler EXCEPT ![c] = "done"]
    /\ reply' = [reply EXCEPT ![c] = "refused"]
    /\ UNCHANGED <<replyOf, inFlight, clientVars, runtimeVars, processVars>>

\* Headers, size, envelope, model or request refused; or the prompt is too
\* large or the runtime does not serve.
Refuse(c) ==
    /\ handler[c] = "reading"
    /\ Respond(c, "refused", Nobody)
    /\ UNCHANGED <<clientVars, runtimeVars, processVars>>

\* Mutant: an error of the body's stream does not reach the finally block.
ReadFails_KeepSlot(c) ==
    /\ handler[c] = "reading"
    /\ handler' = [handler EXCEPT ![c] = "done"]
    /\ UNCHANGED <<reply, replyOf, inFlight, clientVars, runtimeVars, processVars>>

\* The body never ends: the connection closes or requestTimeout destroys it.
ReadFails(c) ==
    /\ handler[c] = "reading"
    /\ handler' = [handler EXCEPT ![c] = "done"]
    /\ inFlight' = FALSE
    /\ UNCHANGED <<reply, replyOf, clientVars, runtimeVars, processVars>>

\* The envelope is parsed and the adapter posts the completion.
StartInference(c) ==
    /\ handler[c] = "reading" /\ child = "up"
    /\ handler' = [handler EXCEPT ![c] = "inferring"]
    /\ runtime' = runtime \cup {c}
    /\ UNCHANGED <<reply, replyOf, inFlight, aborted, clientVars, processVars>>

\* Mutant: a completion goes to whoever holds the slot.
Listener_SlotHolder(c) == {d \in Calls : handler[d] = "inferring"}

\* The handler a finished completion is delivered to: the one whose fetch
\* asked for it, unless that was aborted.
Listener(c) == {c} \ aborted

\* The runtime finishes a completion, well formed or not.
RuntimeAnswers(c) ==
    /\ c \in runtime /\ child = "up"
    /\ runtime' = runtime \ {c} /\ aborted' = aborted \ {c}
    /\ IF Listener(c) = {} THEN UNCHANGED serverVars
       ELSE \E h \in Listener(c) :
                Respond(h, "verdict", c) \/ Respond(h, "refused", Nobody)
    /\ UNCHANGED <<clientVars, processVars>>

\* Mutant: the timer does not abort the fetch.
InferenceTimeout_KeepFetch(c) ==
    /\ handler[c] = "inferring"
    /\ Respond(c, "refused", Nobody)
    /\ UNCHANGED <<runtimeVars, clientVars, processVars>>

\* The timer answers 504 and aborts the fetch; the runtime may go on.
InferenceTimeout(c) ==
    /\ handler[c] = "inferring"
    /\ Respond(c, "refused", Nobody)
    /\ aborted' = aborted \cup ({c} \cap runtime)
    /\ UNCHANGED <<runtime, clientVars, processVars>>

\* The runtime is gone: the fetch fails with INFERENCE_UNAVAILABLE.
InferenceFails(c) ==
    /\ handler[c] = "inferring" /\ c \notin runtime
    /\ Respond(c, "refused", Nobody)
    /\ UNCHANGED <<clientVars, runtimeVars, processVars>>

-----------------------------------------------------------------------------
(* The worker's process and the runtime's.                                  *)

\* Mutant: the runtime is not signalled.
Shutdown_NoSignal ==
    /\ stopping' = TRUE
    /\ UNCHANGED signalled

\* shutdown(): once; the runtime, if there is one, is told to end.
Shutdown ==
    /\ stopping' = TRUE
    /\ signalled' = IF stopping THEN signalled ELSE child \in {"loading", "up"}

Sigterm ==
    /\ main # "exited" /\ Shutdown
    /\ UNCHANGED <<main, child, late, restarts, clientVars, serverVars, runtimeVars>>

\* verifyModelArtifact ends: the runtime is spawned, or the process stops.
\* Whether it is stopping already is not asked.
Launch ==
    /\ main = "hashing" /\ main' = "started"
    /\ \/ child' = "loading" /\ late' = stopping /\ UNCHANGED <<stopping, signalled>>
       \/ Shutdown /\ UNCHANGED <<child, late>>
    /\ UNCHANGED <<restarts, clientVars, serverVars, runtimeVars>>

ModelLoaded ==
    /\ child = "loading" /\ child' = "up"
    /\ UNCHANGED <<main, stopping, signalled, late, restarts, clientVars, serverVars, runtimeVars>>

\* The runtime crashes, cannot start or obeys the signal: its completions
\* fail, and unless the worker is stopping it shuts down.
RuntimeExits ==
    /\ child \in {"loading", "up"}
    /\ child' = "gone" /\ stopping' = TRUE
    /\ runtime' = {} /\ aborted' = {}
    /\ UNCHANGED <<main, signalled, late, restarts, clientVars, serverVars>>

\* The server is closed, its connections have ended and no child is left:
\* the event loop is empty.
Exit ==
    /\ stopping /\ main = "started" /\ child \in {"none", "gone"}
    /\ \A c \in Calls : ~Active(c)
    /\ main' = "exited"
    /\ UNCHANGED <<stopping, child, signalled, late, restarts, clientVars, serverVars, runtimeVars>>

\* The container is killed: process, runtime and connections disappear.
Kill ==
    /\ main # "exited" /\ main' = "exited"
    /\ handler' = [c \in Calls |-> IF Active(c) THEN "done" ELSE handler[c]]
    /\ inFlight' = FALSE /\ runtime' = {} /\ aborted' = {}
    /\ child' = "gone"
    /\ UNCHANGED <<stopping, signalled, late, restarts, reply, replyOf, clientVars>>

\* Cloud Run starts another container.
Restart ==
    /\ main = "exited" /\ restarts < MaxRestarts
    /\ restarts' = restarts + 1
    /\ main' = "hashing" /\ stopping' = FALSE
    /\ child' = "none" /\ signalled' = FALSE /\ late' = FALSE
    /\ UNCHANGED <<clientVars, serverVars, runtimeVars>>

-----------------------------------------------------------------------------
Client(c) ==
    \/ Verify(c) \/ CallerTimeout(c) \/ TokenArrives(c) \/ TokenFails(c)
    \/ TokenTimeout(c) \/ FetchAbort(c) \/ FetchFails(c) \/ Receive(c)

Worker(c) ==
    \/ Accept(c) \/ Refuse(c) \/ ReadFails(c) \/ StartInference(c)
    \/ RuntimeAnswers(c) \/ InferenceTimeout(c) \/ InferenceFails(c)

Process ==
    \/ Sigterm \/ Launch \/ ModelLoaded \/ RuntimeExits \/ Exit \/ Kill \/ Restart

Next == Process \/ \E c \in Calls : Client(c) \/ Worker(c)

Spec == Init /\ [][Next]_vars

\* Armed timers run out, a file is hashed to its end, a signalled runtime
\* ends and an empty event loop exits.  Nothing is assumed of the network,
\* the token provider, an unsignalled runtime or the controller.
Timers(c) ==
    /\ WF_vars(CallerTimeout(c)) /\ WF_vars(TokenTimeout(c)) /\ WF_vars(FetchAbort(c))
    /\ WF_vars(ReadFails(c)) /\ WF_vars(InferenceTimeout(c))

LiveSpec ==
    /\ Spec
    /\ \A c \in Calls : Timers(c)
    /\ WF_vars(Launch) /\ WF_vars(signalled /\ RuntimeExits) /\ WF_vars(Exit)

-----------------------------------------------------------------------------
(* Properties.                                                              *)

\* The runtime has one inference slot: at most one of its completions is
\* wanted by anybody, however many handlers gave up before.
OneLiveInference ==
    \A c, d \in runtime \ aborted : c = d

\* A verdict the controller acts on was computed from the evidence of the
\* candidate it asked about: never from an earlier candidate's completion
\* that ended late, which the blinded identity alone would not show.
VerdictIsForItsCandidate ==
    \A c \in Calls : outcome[c] = "verdict" => verdictOf[c] = c

\* A sequential controller meets WORKER_BUSY only behind an earlier call it
\* gave up on: no refusal, answer or failure leaves the slot taken.
BusyMeansAbandoned ==
    \A c \in Calls :
        outcome[c] = "busy" => \E d \in Calls : d < c /\ outcome[d] \in Abandoned

\* The slot is freed whatever the client, the body and the runtime do.
SlotIsFreed == inFlight ~> ~inFlight

\* A request that the transport began ends, even when its caller was
\* answered long before: no token, connection or response holds it.
EverySendEnds == \A c \in Calls : (send[c] # "idle") ~> (send[c] = "over")

\* shutdown() has left a runtime behind: it was spawned after the shutdown
\* had looked for one, and nobody will signal it.
Orphan == late /\ child \in {"loading", "up"}

\* A shutdown ends the process, whatever requests and inferences are under way,
\* unless the model was still being hashed when it began and the runtime was
\* spawned all the same: that case is named here, not excluded by the code.
ShutdownEnds == stopping ~> (main = "exited" \/ Orphan)

-----------------------------------------------------------------------------
(* The inductive invariant.                                                 *)

\* The slot is taken exactly while one handler runs.
SlotHeldByOne ==
    /\ inFlight <=> \E c \in Calls : Active(c)
    /\ \A c, d \in Calls : Active(c) /\ Active(d) => c = d

\* A completion was started by its handler, which waits for it or aborted it.
RuntimeServesHandlers ==
    \A c \in runtime :
        /\ handler[c] \in {"inferring", "done"}
        /\ c \in aborted <=> handler[c] = "done"

\* A response is about the evidence of its own request.
ReplyIsOwn == \A c \in Calls : reply[c] = "verdict" => replyOf[c] = c

\* A call is made when those before it have ended for their caller.
OneByOne ==
    \A c, d \in Calls : d < c /\ send[c] # "idle" => outcome[d] # "none"

\* A handler runs for a request that was sent, writes its response last and
\* is not running any more when its caller has been answered by it.
HandlersFollowSends ==
    \A c \in Calls :
        /\ send[c] \in {"idle", "token"} => handler[c] = "none"
        /\ reply[c] # "none" => handler[c] = "done"
        /\ outcome[c] \in Answered => handler[c] = "done"
        /\ outcome[c] = "tooLarge" => send[c] = "idle"

\* Behind a busy response is a call that its caller gave up.
BusyReply ==
    \A c \in Calls :
        reply[c] = "busy" =>
            \/ outcome[c] \in Abandoned
            \/ \E d \in Calls : d < c /\ outcome[d] \in Abandoned

Inv ==
    /\ TypeOK /\ SlotHeldByOne /\ RuntimeServesHandlers /\ ReplyIsOwn
    /\ OneByOne /\ HandlersFollowSends /\ BusyReply
    /\ OneLiveInference /\ VerdictIsForItsCandidate /\ BusyMeansAbandoned
===============================================================================
