--------------------------- MODULE L4Verifier_proofs ---------------------------
(***************************************************************************)
(* Proofs about L4Verifier for any number of candidates and restarts.       *)
(***************************************************************************)
EXTENDS L4Verifier, TLAPS

USE DEF L4Assumption

LEMMA InitInv == Init => Inv
<1> SUFFICES ASSUME Init PROVE Inv
  OBVIOUS
<1>1. TypeOK
  <2>1. restarts \in 0..MaxRestarts
    BY L4Assumption DEF Init
  <2> QED
    BY <2>1 DEF Init, TypeOK
<1>2. SlotHeldByOne /\ RuntimeServesHandlers /\ OneLiveInference
  BY DEF Init, SlotHeldByOne, RuntimeServesHandlers, OneLiveInference, Active
<1>3. ReplyIsOwn /\ OneByOne /\ HandlersFollowSends /\ BusyReply
  BY DEF Init, ReplyIsOwn, OneByOne, HandlersFollowSends, BusyReply, Answered
<1>4. VerdictIsForItsCandidate /\ BusyMeansAbandoned
  BY DEF Init, VerdictIsForItsCandidate, BusyMeansAbandoned
<1> QED
  BY <1>1, <1>2, <1>3, <1>4 DEF Inv

\* The part of the invariant that is about the slot and the runtime.
WorkerInv == SlotHeldByOne /\ RuntimeServesHandlers

\* The part that is about what callers are told.
CallerInv ==
    /\ ReplyIsOwn /\ OneByOne /\ HandlersFollowSends /\ BusyReply
    /\ VerdictIsForItsCandidate /\ BusyMeansAbandoned

\* Two wanted completions would have two running handlers.
LEMMA WantedOnce == TypeOK /\ WorkerInv => OneLiveInference
BY DEF TypeOK, WorkerInv, SlotHeldByOne, RuntimeServesHandlers, OneLiveInference, Active

LEMMA Parts == Inv <=> TypeOK /\ WorkerInv /\ CallerInv /\ OneLiveInference
BY DEF Inv, WorkerInv, CallerInv

LEMMA NobodyOutside == Nobody \notin Calls
BY DEF Nobody, Calls

\* Calls are ordered.
LEMMA Order == \A c, d \in Calls : c = d \/ c < d \/ d < c
BY DEF Calls

-----------------------------------------------------------------------------
(* A step of a call leaves the worker alone or follows its protocol.        *)

LEMMA ClientKeepsType ==
    ASSUME TypeOK, NEW c \in Calls, Client(c)
    PROVE  TypeOK'
BY DEF TypeOK, Client, Verify, CallerTimeout, TokenArrives, TokenFails, TokenTimeout,
   FetchAbort, FetchFails, Receive, EndSend, Settle, Abandoned, Answered,
   serverVars, runtimeVars, processVars

LEMMA ClientKeepsWorker ==
    ASSUME WorkerInv, NEW c \in Calls, Client(c)
    PROVE  WorkerInv'
<1>1. UNCHANGED <<handler, inFlight, runtime, aborted>>
  BY DEF Client, Verify, CallerTimeout, TokenArrives, TokenFails, TokenTimeout,
     FetchAbort, FetchFails, Receive, EndSend, serverVars, runtimeVars
<1> QED
  BY <1>1 DEF WorkerInv, SlotHeldByOne, RuntimeServesHandlers, Active

LEMMA ClientKeepsCaller ==
    ASSUME TypeOK, CallerInv, NEW c \in Calls, Client(c)
    PROVE  CallerInv'
<1> USE DEF TypeOK, CallerInv, ReplyIsOwn, OneByOne, HandlersFollowSends, BusyReply,
        VerdictIsForItsCandidate, BusyMeansAbandoned, Settle, EndSend, Abandoned, Answered,
        serverVars
<1>1. CASE Verify(c)
  BY <1>1 DEF Verify
<1>2. CASE CallerTimeout(c)
  BY <1>2 DEF CallerTimeout
<1>3. CASE TokenArrives(c)
  BY <1>3 DEF TokenArrives
<1>4. CASE TokenFails(c)
  BY <1>4 DEF TokenFails
<1>5. CASE TokenTimeout(c)
  BY <1>5 DEF TokenTimeout
<1>6. CASE FetchAbort(c)
  BY <1>6 DEF FetchAbort
<1>7. CASE FetchFails(c)
  BY <1>7 DEF FetchFails
<1>8. CASE Receive(c)
  BY <1>8 DEF Receive
<1> QED
  BY <1>1, <1>2, <1>3, <1>4, <1>5, <1>6, <1>7, <1>8 DEF Client

LEMMA AcceptKeeps ==
    ASSUME TypeOK, WorkerInv, CallerInv, NEW c \in Calls, Accept(c)
    PROVE  TypeOK' /\ WorkerInv' /\ CallerInv'
<1> USE DEF Active
<1>1. TypeOK'
  BY DEF Accept, TypeOK, clientVars, runtimeVars, processVars, Answered
<1>2. WorkerInv'
  BY DEF Accept, TypeOK, WorkerInv, SlotHeldByOne, RuntimeServesHandlers, runtimeVars
<1>3. ReplyIsOwn' /\ OneByOne' /\ VerdictIsForItsCandidate' /\ BusyMeansAbandoned'
  BY DEF Accept, TypeOK, CallerInv, ReplyIsOwn, OneByOne, VerdictIsForItsCandidate,
     BusyMeansAbandoned, clientVars
<1>4. HandlersFollowSends'
  BY DEF Accept, TypeOK, CallerInv, HandlersFollowSends, Answered, clientVars
<1>5. CASE inFlight
  <2>1. PICK d \in Calls : Active(d)
    BY <1>5 DEF WorkerInv, SlotHeldByOne
  <2>2. d # c /\ send[d] # "idle" /\ outcome[d] \in {"none"} \cup Abandoned
    BY <2>1 DEF Accept, TypeOK, CallerInv, HandlersFollowSends
  <2>3. outcome[c] \in {"none"} \cup Abandoned
    BY DEF Accept, TypeOK, CallerInv, HandlersFollowSends
  <2>4. d < c => outcome[d] # "none"
    BY DEF Accept, CallerInv, OneByOne
  <2>5. c < d => outcome[c] # "none"
    BY <2>2 DEF CallerInv, OneByOne
  <2>6. \/ outcome[c] \in Abandoned
        \/ d < c /\ outcome[d] \in Abandoned
    BY <2>2, <2>3, <2>4, <2>5, Order
  <2>7. BusyReply'
    BY <2>6 DEF Accept, TypeOK, CallerInv, BusyReply, clientVars
  <2> QED
    BY <1>1, <1>2, <1>3, <1>4, <2>7 DEF CallerInv
<1>6. CASE ~inFlight
  <2>1. BusyReply'
    BY <1>6 DEF Accept, CallerInv, BusyReply, clientVars
  <2> QED
    BY <1>1, <1>2, <1>3, <1>4, <2>1 DEF CallerInv
<1> QED
  BY <1>5, <1>6

\* A response of the handler that holds the slot, which was not a verdict or
\* was one about its own candidate.
LEMMA RespondKeeps ==
    ASSUME TypeOK, WorkerInv, CallerInv, NEW c \in Calls, Active(c),
           NEW o \in {"verdict", "refused"}, NEW a \in {c, Nobody},
           o = "verdict" => a = c, Respond(c, o, a),
           UNCHANGED clientVars, UNCHANGED processVars,
           \/ UNCHANGED runtimeVars
           \/ runtime' = runtime \ {c} /\ aborted' = aborted \ {c}
           \/ UNCHANGED runtime /\ aborted' = aborted \cup ({c} \cap runtime),
           c \in runtime' => c \in aborted'
    PROVE  TypeOK' /\ WorkerInv' /\ CallerInv'
<1>1. TypeOK'
  BY DEF Respond, TypeOK, clientVars, runtimeVars, processVars, Answered
<1>2. SlotHeldByOne'
  BY DEF Respond, TypeOK, WorkerInv, SlotHeldByOne, Active
<1>3. RuntimeServesHandlers'
  BY DEF Respond, TypeOK, WorkerInv, RuntimeServesHandlers, runtimeVars
<1>4. OneByOne' /\ VerdictIsForItsCandidate' /\ BusyMeansAbandoned'
  BY DEF CallerInv, OneByOne, VerdictIsForItsCandidate, BusyMeansAbandoned, clientVars
<1>5. ReplyIsOwn' /\ HandlersFollowSends' /\ BusyReply'
  BY DEF Respond, TypeOK, CallerInv, ReplyIsOwn, HandlersFollowSends, BusyReply,
     Active, clientVars
<1> QED
  BY <1>1, <1>2, <1>3, <1>4, <1>5 DEF WorkerInv, CallerInv

LEMMA WorkerKeeps ==
    ASSUME TypeOK, WorkerInv, CallerInv, NEW c \in Calls, Worker(c)
    PROVE  TypeOK' /\ WorkerInv' /\ CallerInv'
<1>1. CASE Accept(c)
  BY <1>1, AcceptKeeps
<1>2. CASE Refuse(c)
  <2>1. c \notin runtime
    BY <1>2 DEF Refuse, WorkerInv, RuntimeServesHandlers
  <2> QED
    BY <1>2, <2>1, RespondKeeps DEF Refuse, Active, runtimeVars
<1>3. CASE ReadFails(c)
  <2>1. TypeOK' /\ WorkerInv'
    BY <1>3 DEF ReadFails, TypeOK, WorkerInv, SlotHeldByOne, RuntimeServesHandlers, Active,
       clientVars, runtimeVars, processVars
  <2>2. CallerInv'
    BY <1>3 DEF ReadFails, TypeOK, CallerInv, ReplyIsOwn, OneByOne, HandlersFollowSends,
       BusyReply, VerdictIsForItsCandidate, BusyMeansAbandoned, clientVars
  <2> QED
    BY <2>1, <2>2
<1>4. CASE StartInference(c)
  <2>1. TypeOK' /\ WorkerInv'
    BY <1>4 DEF StartInference, TypeOK, WorkerInv, SlotHeldByOne, RuntimeServesHandlers,
       Active, clientVars, processVars
  <2>2. CallerInv'
    BY <1>4 DEF StartInference, TypeOK, CallerInv, ReplyIsOwn, OneByOne,
       HandlersFollowSends, BusyReply, VerdictIsForItsCandidate, BusyMeansAbandoned,
       clientVars
  <2> QED
    BY <2>1, <2>2
<1>5. CASE RuntimeAnswers(c)
  <2>1. CASE Listener(c) = {}
    <3>1. TypeOK' /\ WorkerInv'
      BY <1>5, <2>1 DEF RuntimeAnswers, TypeOK, WorkerInv, SlotHeldByOne,
         RuntimeServesHandlers, Active, clientVars, serverVars, processVars
    <3>2. CallerInv'
      BY <1>5, <2>1 DEF RuntimeAnswers, CallerInv, ReplyIsOwn, OneByOne,
         HandlersFollowSends, BusyReply, VerdictIsForItsCandidate, BusyMeansAbandoned,
         clientVars, serverVars
    <3> QED
      BY <3>1, <3>2
  <2>2. CASE Listener(c) # {}
    <3>1. Listener(c) = {c} /\ c \notin aborted
      BY <2>2 DEF Listener
    <3>2. Active(c)
      BY <1>5, <3>1 DEF RuntimeAnswers, WorkerInv, RuntimeServesHandlers, Active
    <3>3. Respond(c, "verdict", c) \/ Respond(c, "refused", Nobody)
      BY <1>5, <2>2, <3>1 DEF RuntimeAnswers
    <3>4. /\ runtime' = runtime \ {c} /\ aborted' = aborted \ {c}
          /\ UNCHANGED clientVars /\ UNCHANGED processVars
      BY <1>5 DEF RuntimeAnswers
    <3>5. CASE Respond(c, "verdict", c)
      BY <3>2, <3>4, <3>5, RespondKeeps
    <3>6. CASE Respond(c, "refused", Nobody)
      BY <3>2, <3>4, <3>6, RespondKeeps
    <3> QED
      BY <3>3, <3>5, <3>6
  <2> QED
    BY <2>1, <2>2
<1>6. CASE InferenceTimeout(c)
  BY <1>6, RespondKeeps DEF InferenceTimeout, Active
<1>7. CASE InferenceFails(c)
  BY <1>7, RespondKeeps DEF InferenceFails, Active, runtimeVars
<1> QED
  BY <1>1, <1>2, <1>3, <1>4, <1>5, <1>6, <1>7 DEF Worker

-----------------------------------------------------------------------------
(* The processes only take away completions and handlers.                   *)

LEMMA ProcessKeeps ==
    ASSUME TypeOK, WorkerInv, CallerInv, Process
    PROVE  TypeOK' /\ WorkerInv' /\ CallerInv'
<1> USE DEF WorkerInv, CallerInv, SlotHeldByOne, RuntimeServesHandlers, Active
<1>1. CASE Sigterm \/ Launch \/ ModelLoaded \/ RuntimeExits \/ Exit \/ Restart
  <2>1. UNCHANGED <<clientVars, serverVars>>
    BY <1>1 DEF Sigterm, Launch, ModelLoaded, RuntimeExits, Exit, Restart
  <2>2. UNCHANGED runtimeVars \/ (runtime' = {} /\ aborted' = {})
    <3>1. CASE RuntimeExits
      BY <3>1 DEF RuntimeExits
    <3>2. CASE Sigterm
      BY <3>2 DEF Sigterm
    <3>3. CASE Launch
      BY <3>3 DEF Launch
    <3>4. CASE ModelLoaded \/ Exit
      BY <3>4 DEF ModelLoaded, Exit
    <3>5. CASE Restart
      BY <3>5 DEF Restart
    <3> QED
      BY <1>1, <3>1, <3>2, <3>3, <3>4, <3>5
  <2>3. /\ main' \in {"hashing", "started", "exited"} /\ stopping' \in BOOLEAN
        /\ signalled' \in BOOLEAN /\ late' \in BOOLEAN
        /\ child' \in {"none", "loading", "up", "gone"} /\ restarts' \in 0..MaxRestarts
    <3>. DEFINE alive == child \in {"loading", "up"}
    <3>5. Shutdown => stopping' \in BOOLEAN /\ signalled' \in BOOLEAN
      <4>1. signalled \in BOOLEAN /\ alive \in BOOLEAN
        BY DEF TypeOK
      <4>2. Shutdown => stopping' = TRUE /\ (signalled' = signalled \/ signalled' = alive)
        BY Zenon DEF Shutdown
      <4> QED
        BY <4>1, <4>2, Zenon
    <3>1. CASE Sigterm
      BY <3>1, <3>5 DEF Sigterm, TypeOK
    <3>2. CASE Launch
      BY <3>2, <3>5 DEF Launch, TypeOK
    <3>3. CASE ModelLoaded \/ RuntimeExits \/ Exit
      BY <3>3 DEF ModelLoaded, RuntimeExits, Exit, TypeOK
    <3>4. CASE Restart
      <4>1. restarts \in 0..MaxRestarts /\ restarts < MaxRestarts /\ restarts' = restarts + 1
        BY <3>4 DEF Restart, TypeOK
      <4>2. restarts' \in 0..MaxRestarts
        BY <4>1, L4Assumption
      <4>3. /\ main' = "hashing" /\ stopping' = FALSE /\ signalled' = FALSE
            /\ late' = FALSE /\ child' = "none"
        BY <3>4 DEF Restart
      <4> QED
        BY <4>2, <4>3
    <3> QED
      BY <1>1, <3>1, <3>2, <3>3, <3>4
  <2>4. TypeOK'
    BY <2>1, <2>2, <2>3 DEF TypeOK, clientVars, serverVars, runtimeVars
  <2>5. WorkerInv'
    BY <2>1, <2>2 DEF serverVars, runtimeVars
  <2>6. CallerInv'
    BY <2>1 DEF ReplyIsOwn, OneByOne, HandlersFollowSends, BusyReply,
       VerdictIsForItsCandidate, BusyMeansAbandoned, clientVars, serverVars
  <2> QED
    BY <2>4, <2>5, <2>6
<1>2. CASE Kill
  <2>1. TypeOK'
    BY <1>2 DEF Kill, TypeOK, clientVars
  <2>2. WorkerInv'
    BY <1>2 DEF Kill, TypeOK
  <2>3. CallerInv'
    BY <1>2 DEF Kill, TypeOK, ReplyIsOwn, OneByOne, HandlersFollowSends, BusyReply,
       VerdictIsForItsCandidate, BusyMeansAbandoned, clientVars
  <2> QED
    BY <2>1, <2>2, <2>3
<1> QED
  BY <1>1, <1>2 DEF Process

LEMMA NextInv == Inv /\ [Next]_vars => Inv'
<1> SUFFICES ASSUME Inv, [Next]_vars PROVE TypeOK' /\ WorkerInv' /\ CallerInv'
  BY WantedOnce, Parts, PTL
<1>1. TypeOK /\ WorkerInv /\ CallerInv
  BY Parts
<1>2. CASE Process
  BY <1>1, <1>2, ProcessKeeps
<1>3. ASSUME NEW c \in Calls, Client(c) \/ Worker(c)
      PROVE  TypeOK' /\ WorkerInv' /\ CallerInv'
  BY <1>1, <1>3, ClientKeepsType, ClientKeepsWorker, ClientKeepsCaller, WorkerKeeps
<1>4. CASE UNCHANGED vars
  BY <1>1, <1>4 DEF vars, clientVars, serverVars, runtimeVars, processVars, TypeOK,
     WorkerInv, CallerInv, SlotHeldByOne, RuntimeServesHandlers, ReplyIsOwn, OneByOne,
     HandlersFollowSends, BusyReply, VerdictIsForItsCandidate, BusyMeansAbandoned, Active
<1> QED
  BY <1>2, <1>3, <1>4 DEF Next

\* The whole inductive invariant, with the types: one handler holds the slot
\* (l4WorkerServer's inFlight), responses are about their own requests.
THEOREM L4Invariance == Spec => []Inv
<1>1. Init => Inv
  BY InitInv
<1>2. Inv /\ [Next]_vars => Inv'
  BY NextInv
<1> QED
  BY <1>1, <1>2, PTL DEF Spec

\* runInferenceWithTimeout never leaves two wanted completions in the
\* runtime, which has one inference slot.
THEOREM SingleInference == Spec => []OneLiveInference
<1>1. Inv => OneLiveInference
  BY DEF Inv
<1> QED
  BY <1>1, L4Invariance, PTL

\* The verdict that L4WorkerClient.verify returns was computed from the
\* evidence it was called with.
THEOREM OwnVerdict == Spec => []VerdictIsForItsCandidate
<1>1. Inv => VerdictIsForItsCandidate
  BY DEF Inv
<1> QED
  BY <1>1, L4Invariance, PTL

\* WORKER_BUSY means that the controller gave up on an earlier call.
THEOREM BusyExplained == Spec => []BusyMeansAbandoned
<1>1. Inv => BusyMeansAbandoned
  BY DEF Inv
<1> QED
  BY <1>1, L4Invariance, PTL
===============================================================================
