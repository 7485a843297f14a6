----------------------------- MODULE JobServer -----------------------------
(***************************************************************************)
(* The synthesis server of src/engine/server.js: POST /v1/synthesize, the  *)
(* job it starts, the race of `Prefer: respond-sync` against a timer, and  *)
(* the event streams of GET /v1/jobs/{id}/stream.                          *)
(*                                                                         *)
(* The server is one JavaScript thread.  A step of the model is one turn:  *)
(* code between two awaits.  Continuations of resolved promises are        *)
(* microtasks and run before the event loop takes another task (a timer, a *)
(* network request).  The search never waits for anything but resolved     *)
(* promises, so a job that runs always has a microtask queued.             *)
(*                                                                         *)
(* Each client posts once; its job carries its name.                       *)
(***************************************************************************)
EXTENDS Integers, Sequences, SequencesExt

CONSTANTS
  Client,      \* POST requests
  Reader,      \* stream requests
  MaxScore,    \* bound on the scores a search may reach
  NoScore,     \* before the first improvement
  NoClient,    \* a reader that reads no job yet
  Embedded     \* the handler is called by code of its own process, whose calls
               \* are microtasks too, rather than by the network

ASSUME ScoreAssumption == MaxScore \in Nat /\ NoScore \notin Int
ASSUME EmbeddedAssumption == Embedded \in BOOLEAN
ASSUME NoClientAssumption == NoClient \notin Client

VARIABLES
  request,     \* where the handler of each POST is
  sync,        \* does it prefer a synchronous answer
  answer,      \* what it answered
  status,      \* job.status; "absent" until the job is in the jobs map
  partials,    \* job.partials: the scores of the programs pushed
  subscribers, \* job.subscribers
  timer,       \* the delay() of the race
  race,        \* what the race settled to
  stream,      \* each reader's stream: the job it reads and how it stands
  sent,        \* the events enqueued on it
  overrun      \* history: search steps taken after the window closed on a waiting client

jobVars    == <<status, partials, subscribers>>
postVars   == <<request, sync, answer, timer, race>>
streamVars == <<stream, sent>>
vars       == <<jobVars, postVars, streamVars, overrun>>

Finished(c) == status[c] \in {"complete", "error"}

Partial(s)  == <<"partial", s>>
Terminal(e) == <<e, 0>>

Events(ps) == [k \in DOMAIN ps |-> Partial(ps[k])]

LastScore(c) == IF partials[c] = <<>> THEN 0 ELSE Last(partials[c])

---------------------------------------------------------------------------
(* The event loop.                                                         *)

Settles(c) == request[c] = "racing" /\ race[c] = "none" /\ Finished(c)

Wakes(c) == request[c] = "racing" /\ race[c] # "none"

QueueEmpty == \A c \in Client : status[c] # "pending" /\ ~Settles(c) /\ ~Wakes(c)

(* When a caller's request may start a turn.                               *)
CallerTurn == Embedded \/ QueueEmpty

---------------------------------------------------------------------------

Init ==
  /\ request = [c \in Client |-> "idle"]
  /\ sync = [c \in Client |-> FALSE]
  /\ answer = [c \in Client |-> "none"]
  /\ status = [c \in Client |-> "absent"]
  /\ partials = [c \in Client |-> <<>>]
  /\ subscribers = [c \in Client |-> {}]
  /\ timer = [c \in Client |-> "off"]
  /\ race = [c \in Client |-> "none"]
  /\ stream = [r \in Reader |-> [job |-> NoClient, state |-> "idle"]]
  /\ sent = [r \in Reader |-> <<>>]
  /\ overrun = [c \in Client |-> 0]

Reply(c, a) ==
  /\ request' = [request EXCEPT ![c] = "answered"]
  /\ answer' = [answer EXCEPT ![c] = a]

(* doSynthesize up to its first real wait: a bad body is a 400.            *)
Post(c, prefersSync) ==
  /\ CallerTurn
  /\ request[c] = "idle"
  /\ request' = [request EXCEPT ![c] = "loading"]
  /\ sync' = [sync EXCEPT ![c] = prefersSync]
  /\ UNCHANGED <<answer, timer, race, jobVars, streamVars, overrun>>

PostInvalid(c) ==
  /\ CallerTurn
  /\ request[c] = "idle"
  /\ Reply(c, "rejected")
  /\ UNCHANGED <<sync, timer, race, jobVars, streamVars, overrun>>

(* registry.load rejects: a 404 and no job.                                *)
LoadFails(c) ==
  /\ request[c] = "loading"
  /\ Reply(c, "rejected")
  /\ UNCHANGED <<sync, timer, race, jobVars, streamVars, overrun>>

(* registry.load resolves: the job enters the map and starts; the handler  *)
(* waits only for a client that prefers to.  Requests for one library      *)
(* share its module's import and may be resumed in one turn, so this is not*)
(* held back by a running job.                                             *)
StartJob(c) ==
  /\ request[c] = "loading"
  /\ status' = [status EXCEPT ![c] = "pending"]
  /\ \/ /\ sync[c]
        /\ request' = [request EXCEPT ![c] = "racing"]
        /\ timer' = [timer EXCEPT ![c] = "armed"]
        /\ UNCHANGED answer
     \/ /\ ~sync[c]
        /\ Reply(c, "pending")
        /\ UNCHANGED timer
  /\ UNCHANGED <<sync, race, partials, subscribers, streamVars, overrun>>

---------------------------------------------------------------------------
(* runJob.                                                                 *)

(* Every subscriber of the job gets the event; the terminal ones also      *)
(* unsubscribe and close their stream.                                     *)
Notify(c, event) ==
  sent' = [r \in Reader |-> IF r \in subscribers[c] THEN Append(sent[r], event) ELSE sent[r]]

(* Faulty variant: the terminal event leaves its streams open.             *)
LeaveStreams(c) ==
  /\ subscribers' = [subscribers EXCEPT ![c] = {}]
  /\ UNCHANGED stream

CloseStreams(c) ==
  /\ stream' = [r \in Reader |->
       IF r \in subscribers[c] THEN [stream[r] EXCEPT !.state = "closed"] ELSE stream[r]]
  /\ subscribers' = [subscribers EXCEPT ![c] = {}]

CountOverrun(c) ==
  overrun' = [overrun EXCEPT ![c] =
    IF request[c] = "racing" /\ timer[c] = "due" THEN @ + 1 ELSE @]

(* Faulty variant: every step of the search is pushed, improved or not.    *)
ImproveOrNot(c) ==
  /\ status[c] = "pending"
  /\ \E s \in 1 .. MaxScore :
       /\ partials' = [partials EXCEPT ![c] = Append(@, s)]
       /\ Notify(c, Partial(s))
  /\ CountOverrun(c)
  /\ UNCHANGED <<status, subscribers, postVars, stream>>

(* A step of the search that improved.                                     *)
Improve(c) ==
  /\ status[c] = "pending"
  /\ \E s \in LastScore(c) + 1 .. MaxScore :
       /\ partials' = [partials EXCEPT ![c] = Append(@, s)]
       /\ Notify(c, Partial(s))
  /\ CountOverrun(c)
  /\ UNCHANGED <<status, subscribers, postVars, stream>>

End(c, how) ==
  /\ status[c] = "pending"
  /\ status' = [status EXCEPT ![c] = how]
  /\ Notify(c, Terminal(how))
  /\ CloseStreams(c)
  /\ UNCHANGED <<partials, postVars, overrun>>

(* The terminal step: the solution is built and the job completes.         *)
Complete(c) == End(c, "complete")

(* The search or buildSolution threw.                                      *)
Fail(c) == End(c, "error")

RunJob(c) == Improve(c) \/ Complete(c) \/ Fail(c)

---------------------------------------------------------------------------
(* The race of respond-sync.                                               *)

(* job.promise resolved: its reaction settles the race.                    *)
SettleDone(c) ==
  /\ Settles(c)
  /\ race' = [race EXCEPT ![c] = "done"]
  /\ UNCHANGED <<request, sync, answer, timer, jobVars, streamVars, overrun>>

(* Time passes, whatever the thread is doing.                              *)
WindowCloses(c) ==
  /\ timer[c] = "armed"
  /\ timer' = [timer EXCEPT ![c] = "due"]
  /\ UNCHANGED <<request, sync, answer, race, jobVars, streamVars, overrun>>

(* The timer's callback is a task of the loop; a settled race ignores it.  *)
TimerFires(c) ==
  /\ QueueEmpty
  /\ timer[c] = "due"
  /\ timer' = [timer EXCEPT ![c] = "fired"]
  /\ race' = [race EXCEPT ![c] = IF @ = "none" THEN "timeout" ELSE @]
  /\ UNCHANGED <<request, sync, answer, jobVars, streamVars, overrun>>

(* Faulty variant: answers with the outcome of the race.                   *)
RespondOutcome(c) ==
  /\ Wakes(c)
  /\ Reply(c, race[c])
  /\ UNCHANGED <<sync, timer, race, jobVars, streamVars, overrun>>

(* Faulty variant: a job that is done is taken for one that completed.     *)
RespondComplete(c) ==
  /\ Wakes(c)
  /\ Reply(c, IF race[c] = "done" THEN "complete" ELSE "pending")
  /\ UNCHANGED <<sync, timer, race, jobVars, streamVars, overrun>>

(* Faulty variant: a job that failed leaves its client without an answer.  *)
RespondUnlessFailed(c) ==
  /\ Wakes(c)
  /\ status[c] # "error"
  /\ Reply(c, IF race[c] = "done" THEN status[c] ELSE "pending")
  /\ UNCHANGED <<sync, timer, race, jobVars, streamVars, overrun>>

(* The handler resumes after the race.                                     *)
Respond(c) ==
  /\ Wakes(c)
  /\ Reply(c, IF race[c] = "done" THEN status[c] ELSE "pending")
  /\ UNCHANGED <<sync, timer, race, jobVars, streamVars, overrun>>

---------------------------------------------------------------------------
(* Streams.                                                                *)

(* Faulty variant: a live job's stream starts without the replay.          *)
OpenStreamLate(r, c) ==
  /\ CallerTurn
  /\ stream[r].state = "idle"
  /\ status[c] = "pending"
  /\ stream' = [stream EXCEPT ![r] = [job |-> c, state |-> "open"]]
  /\ subscribers' = [subscribers EXCEPT ![c] = @ \cup {r}]
  /\ UNCHANGED <<status, partials, postVars, sent, overrun>>

(* The stream's start callback replays what the job has recorded, then     *)
(* ends the stream or subscribes it, all in one turn.                      *)
OpenStream(r, c) ==
  /\ CallerTurn
  /\ stream[r].state = "idle"
  /\ status[c] # "absent"
  /\ \/ /\ Finished(c)
        /\ sent' = [sent EXCEPT ![r] = Append(Events(partials[c]), Terminal(status[c]))]
        /\ stream' = [stream EXCEPT ![r] = [job |-> c, state |-> "closed"]]
        /\ UNCHANGED subscribers
     \/ /\ ~Finished(c)
        /\ sent' = [sent EXCEPT ![r] = Events(partials[c])]
        /\ stream' = [stream EXCEPT ![r] = [job |-> c, state |-> "open"]]
        /\ subscribers' = [subscribers EXCEPT ![c] = @ \cup {r}]
  /\ UNCHANGED <<status, partials, postVars, overrun>>

(* Faulty variant: the subscription outlives its client.                   *)
HangUpSubscribed(r) ==
  /\ CallerTurn
  /\ stream[r].state = "open"
  /\ stream' = [stream EXCEPT ![r].state = "cancelled"]
  /\ UNCHANGED <<subscribers, status, partials, postVars, sent, overrun>>

(* The client hangs up: cancel() unsubscribes, the job runs on.            *)
HangUp(r) ==
  /\ CallerTurn
  /\ stream[r].state = "open"
  /\ stream' = [stream EXCEPT ![r].state = "cancelled"]
  /\ subscribers' = [subscribers EXCEPT ![stream[r].job] = @ \ {r}]
  /\ UNCHANGED <<status, partials, postVars, sent, overrun>>

---------------------------------------------------------------------------

HandlePost(c) == (\E s \in BOOLEAN : Post(c, s)) \/ PostInvalid(c)

Resume(c) == LoadFails(c) \/ StartJob(c) \/ SettleDone(c) \/ Respond(c)

Timer(c) == WindowCloses(c) \/ TimerFires(c)

Next ==
  \/ \E c \in Client : HandlePost(c) \/ Resume(c) \/ RunJob(c) \/ Timer(c)
  \/ \E r \in Reader : (\E c \in Client : OpenStream(r, c)) \/ HangUp(r)

Spec == Init /\ [][Next]_vars

(* The event loop starves no microtask, a library load settles, a timer    *)
(* runs out; a search ends (Search!Terminates), here because its scores are*)
(* bounded.  Nobody has to post, subscribe or hang up.                     *)
FairSpec ==
  /\ Spec
  /\ \A c \in Client : WF_vars(Resume(c)) /\ WF_vars(RunJob(c)) /\ WF_vars(Timer(c))

---------------------------------------------------------------------------
(* Properties.                                                             *)

TypeOK ==
  /\ request \in [Client -> {"idle", "loading", "racing", "answered"}]
  /\ sync \in [Client -> BOOLEAN]
  /\ answer \in [Client -> {"none", "rejected", "pending", "complete", "error"}]
  /\ status \in [Client -> {"absent", "pending", "complete", "error"}]
  /\ partials \in [Client -> Seq(1 .. MaxScore)]
  /\ subscribers \in [Client -> SUBSET Reader]
  /\ timer \in [Client -> {"off", "armed", "due", "fired"}]
  /\ race \in [Client -> {"none", "done", "timeout"}]
  /\ stream \in [Reader -> [job : Client \cup {NoClient},
                            state : {"idle", "open", "closed", "cancelled"}]]
  /\ sent \in [Reader -> Seq({"partial", "complete", "error"} \X (0 .. MaxScore))]
  /\ overrun \in [Client -> Nat]

(* A stream shows its job's events without a gap or a repetition, whenever *)
(* it was opened: the recorded partials while it is open, those and the    *)
(* terminal event when it closed, a prefix when its client hung up.        *)
Transcript(c) ==
  IF Finished(c) THEN Append(Events(partials[c]), Terminal(status[c])) ELSE Events(partials[c])

StreamsAreExact ==
  \A r \in Reader :
    LET c == stream[r].job IN
      /\ stream[r].state \in {"open", "closed"} => sent[r] = Transcript(c)
      /\ stream[r].state = "cancelled" => IsPrefix(sent[r], Transcript(c))
      /\ stream[r].state = "closed" => Finished(c)

(* A job's subscribers are the streams that are open on it: none is leaked *)
(* by a hang-up or a finished job, none is forgotten while the job runs.   *)
SubscribersAreOpen ==
  \A c \in Client : subscribers[c] =
    {r \in Reader : stream[r].job = c /\ stream[r].state = "open"}

(* What a POST was told stays true: an inline answer is the job's outcome, *)
(* a handle names a job that exists, and a rejected request left none.     *)
AnswersAgree ==
  \A c \in Client :
    /\ answer[c] \in {"complete", "error"} => status[c] = answer[c] /\ sync[c]
    /\ answer[c] = "pending" => status[c] # "absent"
    /\ answer[c] = "rejected" => status[c] = "absent"

(* Each job is an anytime stream to whoever reads it.                      *)
JobStatus(c) ==
  IF status[c] \in {"absent", "pending"} THEN "open"
  ELSE IF status[c] = "complete" THEN "done" ELSE "failed"

JobBest(c) == IF partials[c] = <<>> THEN NoScore ELSE Last(partials[c])

JobStream(c) == INSTANCE AnytimeStream WITH status <- JobStatus(c), best <- JobBest(c)

JobsAreStreams ==
  /\ \A c \in Client : JobStream(c)!Init
  /\ [][\A c \in Client : JobStream(c)!Next \/ UNCHANGED <<JobStatus(c), JobBest(c)>>]_vars

(* Every request is answered, with or without a wait.                      *)
EveryPostIsAnswered ==
  \A c \in Client : request[c] = "loading" ~> request[c] = "answered"

(* No open stream is left hanging: it closes with its job or is hung up.   *)
EveryStreamEnds ==
  \A r \in Reader : stream[r].state = "open" ~> stream[r].state \in {"closed", "cancelled"}

(* docs/server.md: respond-sync "waits up to a short window"; "if not, the *)
(* server falls back to the job handle and the search keeps running".  At  *)
(* most the step under way delays the fallback.                            *)
WindowIsRespected == \A c \in Client : overrun[c] <= 1

=============================================================================
