-------------------------- MODULE JobServerProofs --------------------------
(***************************************************************************)
(* Theorems about JobServer, for any number of clients and readers, every  *)
(* bound on scores, and callers inside or outside the process.             *)
(***************************************************************************)
EXTENDS JobServer, SequenceTheorems, TLAPS

Event == {"partial", "complete", "error"} \X (0 .. MaxScore)

---------------------------------------------------------------------------
(* Sequences of events.                                                    *)

LEMMA PartialIsEvent ==
  ASSUME NEW s \in 1 .. MaxScore
  PROVE  Partial(s) \in Event
  BY ScoreAssumption DEF Partial, Event

LEMMA TerminalIsEvent ==
  ASSUME NEW e \in {"complete", "error"}
  PROVE  Terminal(e) \in Event
  BY ScoreAssumption DEF Terminal, Event

LEMMA EventsType ==
  ASSUME NEW ps \in Seq(1 .. MaxScore)
  PROVE  /\ Events(ps) \in Seq(Event)
         /\ Len(Events(ps)) = Len(ps)
         /\ \A k \in 1 .. Len(ps) : Events(ps)[k] = Partial(ps[k])
<1>1. Len(ps) \in Nat /\ DOMAIN ps = 1 .. Len(ps) /\ \A k \in 1 .. Len(ps) : ps[k] \in 1 .. MaxScore
  BY LenProperties, ElementOfSeq
<1>2. \A k \in 1 .. Len(ps) : Partial(ps[k]) \in Event
  BY <1>1, PartialIsEvent
<1>3. Events(ps) \in [1 .. Len(ps) -> Event]
  BY <1>1, <1>2 DEF Events
<1>4. QED
  BY <1>1, <1>3 DEF Events

(* One more program recorded is one more event to replay.                  *)
LEMMA EventsAppend ==
  ASSUME NEW ps \in Seq(1 .. MaxScore), NEW s \in 1 .. MaxScore
  PROVE  Events(Append(ps, s)) = Append(Events(ps), Partial(s))
<1> DEFINE n == Len(ps)
           qs == Append(ps, s)
<1>1. qs \in Seq(1 .. MaxScore) /\ n \in Nat /\ Len(qs) = n + 1 /\ qs[n + 1] = s
      /\ \A k \in 1 .. n : qs[k] = ps[k]
  OBVIOUS
<1>2. /\ Events(ps) \in Seq(Event) /\ Len(Events(ps)) = n
      /\ \A k \in 1 .. n : Events(ps)[k] = Partial(ps[k])
  BY EventsType
<1>3. /\ Events(qs) \in Seq(Event) /\ Len(Events(qs)) = n + 1
      /\ \A k \in 1 .. n + 1 : Events(qs)[k] = Partial(qs[k])
  BY <1>1, EventsType
<1>4. Partial(s) \in Event
  BY PartialIsEvent
<1> HIDE DEF n, qs
<1>5. /\ Append(Events(ps), Partial(s)) \in Seq(Event)
      /\ Len(Append(Events(ps), Partial(s))) = n + 1
      /\ \A k \in 1 .. n : Append(Events(ps), Partial(s))[k] = Events(ps)[k]
      /\ Append(Events(ps), Partial(s))[n + 1] = Partial(s)
  BY <1>2, <1>4, AppendProperties
<1>6. \A k \in 1 .. n + 1 : Events(qs)[k] = Append(Events(ps), Partial(s))[k]
  BY <1>1, <1>2, <1>3, <1>5
<1>7. Events(qs) = Append(Events(ps), Partial(s))
  BY <1>3, <1>5, <1>6, SeqEqual
<1>8. QED
  BY <1>7 DEF qs

LEMMA PrefixReflexive ==
  ASSUME NEW s \in Seq(Event)
  PROVE  IsPrefix(s, s)
  BY DEF IsPrefix

LEMMA PrefixAppend ==
  ASSUME NEW s \in Seq(Event), NEW t \in Seq(Event), NEW e \in Event, IsPrefix(s, t)
  PROVE  IsPrefix(s, Append(t, e))
<1>1. /\ Len(s) \in Nat /\ Len(t) \in Nat /\ Len(s) <= Len(t)
      /\ SubSeq(s, 1, Len(s)) = SubSeq(t, 1, Len(s))
  BY DEF IsPrefix
<1>2. /\ Len(Append(t, e)) = Len(t) + 1
      /\ \A k \in 1 .. Len(s) : Append(t, e)[k] = t[k] /\ t[k] \in Event
  BY <1>1, AppendProperties
<1>3. SubSeq(Append(t, e), 1, Len(s)) = SubSeq(t, 1, Len(s))
  BY <1>1, <1>2 DEF SubSeq
<1>4. QED
  BY <1>1, <1>2, <1>3 DEF IsPrefix

---------------------------------------------------------------------------
(* Requests.  A job enters the map once, after its request was loading; a  *)
(* race that was decided by the job was decided by its end; and who still  *)
(* waits for the race asked to.                                            *)

PostInv ==
  /\ AnswersAgree
  /\ \A c \in Client :
       /\ request[c] \in {"idle", "loading"} => status[c] = "absent" /\ answer[c] = "none"
       /\ request[c] = "racing" => status[c] # "absent" /\ sync[c]
       /\ race[c] = "done" => Finished(c)

LEMMA InitPostInv == Init => TypeOK /\ PostInv
  BY EmptySeq DEF Init, TypeOK, PostInv, AnswersAgree

(* The event of a step reaches streams that hold events.                   *)
LEMMA NotifyType ==
  ASSUME TypeOK, NEW c \in Client, NEW e \in Event, Notify(c, e)
  PROVE  sent' \in [Reader -> Seq(Event)]
<1>1. \A r \in Reader : sent[r] \in Seq(Event)
  BY DEF TypeOK, Event
<1>2. \A r \in Reader : Append(sent[r], e) \in Seq(Event)
  BY <1>1, AppendProperties
<1>3. QED
  BY <1>1, <1>2, Zenon DEF Notify

LEMMA LastScoreType ==
  ASSUME TypeOK, NEW c \in Client
  PROVE  /\ LastScore(c) \in Nat
         /\ partials[c] # <<>> => Last(partials[c]) \in Nat /\ LastScore(c) = Last(partials[c])
<1>1. partials[c] \in Seq(1 .. MaxScore)
  BY DEF TypeOK
<1>2. CASE partials[c] = <<>>
  BY <1>2 DEF LastScore
<1>3. CASE partials[c] # <<>>
  <2>1. Len(partials[c]) \in 1 .. Len(partials[c])
    BY <1>1, <1>3, EmptySeq
  <2>2. partials[c][Len(partials[c])] \in 1 .. MaxScore
    BY <1>1, <2>1, ElementOfSeq
  <2>3. QED
    BY <1>3, <2>2 DEF LastScore, Last
<1>4. QED
  BY <1>2, <1>3

(* A step of the search that improved pushes a larger score.               *)
LEMMA ImproveScore ==
  ASSUME TypeOK, NEW c \in Client, Improve(c)
  PROVE  \E s \in 1 .. MaxScore :
           /\ s > LastScore(c)
           /\ partials' = [partials EXCEPT ![c] = Append(@, s)]
           /\ Notify(c, Partial(s))
<1>1. PICK s \in LastScore(c) + 1 .. MaxScore :
        /\ partials' = [partials EXCEPT ![c] = Append(@, s)]
        /\ Notify(c, Partial(s))
  BY Zenon DEF Improve
<1>2. s \in 1 .. MaxScore /\ s > LastScore(c)
  BY <1>1, LastScoreType, ScoreAssumption
<1>3. QED
  BY <1>1, <1>2

LEMMA ImproveType ==
  ASSUME TypeOK, NEW c \in Client, Improve(c)
  PROVE  TypeOK'
<1>1. PICK s \in 1 .. MaxScore :
        /\ partials' = [partials EXCEPT ![c] = Append(@, s)]
        /\ Notify(c, Partial(s))
  BY ImproveScore
<1>2. sent' \in [Reader -> Seq(Event)]
  BY <1>1, PartialIsEvent, NotifyType
<1>3. partials' \in [Client -> Seq(1 .. MaxScore)]
  <2>1. Append(partials[c], s) \in Seq(1 .. MaxScore)
    BY AppendProperties DEF TypeOK
  <2>2. QED
    BY <1>1, <2>1 DEF TypeOK
<1>4. overrun' \in [Client -> Nat]
  BY DEF Improve, CountOverrun, TypeOK
<1>5. UNCHANGED <<request, sync, answer, timer, race, status, subscribers, stream>>
  BY DEF Improve, postVars
<1>6. QED
  BY <1>2, <1>3, <1>4, <1>5 DEF TypeOK, Event

LEMMA EndType ==
  ASSUME TypeOK, NEW c \in Client, NEW how \in {"complete", "error"}, End(c, how)
  PROVE  TypeOK'
<1>1. sent' \in [Reader -> Seq(Event)]
  BY TerminalIsEvent, NotifyType DEF End
<1>2. QED
  BY <1>1 DEF TypeOK, End, CloseStreams, postVars, Event

LEMMA OpenStreamType ==
  ASSUME TypeOK, NEW r \in Reader, NEW c \in Client, OpenStream(r, c)
  PROVE  TypeOK'
<1>1. Events(partials[c]) \in Seq(Event)
  BY EventsType DEF TypeOK
<1>2. Finished(c) => Append(Events(partials[c]), Terminal(status[c])) \in Seq(Event)
  BY <1>1, TerminalIsEvent, AppendProperties DEF Finished
<1>3. sent' \in [Reader -> Seq(Event)]
  BY <1>1, <1>2 DEF TypeOK, OpenStream, Event
<1>4. /\ stream' \in [Reader -> [job : Client \cup {NoClient},
                                 state : {"idle", "open", "closed", "cancelled"}]]
      /\ subscribers' \in [Client -> SUBSET Reader]
  <2> DEFINE StreamType == [job : Client \cup {NoClient},
                            state : {"idle", "open", "closed", "cancelled"}]
  <2>1. \E new \in StreamType : stream' = [stream EXCEPT ![r] = new]
    BY DEF OpenStream
  <2>2. \/ subscribers' = subscribers
        \/ subscribers' = [subscribers EXCEPT ![c] = @ \cup {r}]
    BY DEF OpenStream
  <2>3. stream \in [Reader -> StreamType] /\ subscribers \in [Client -> SUBSET Reader]
    BY DEF TypeOK
  <2> HIDE DEF StreamType
  <2>4. stream' \in [Reader -> StreamType] /\ subscribers' \in [Client -> SUBSET Reader]
    BY <2>1, <2>2, <2>3
  <2>5. QED
    BY <2>4 DEF StreamType
<1>5. UNCHANGED <<request, sync, answer, timer, race, status, partials, overrun>>
  BY DEF OpenStream, postVars
<1>6. QED
  BY <1>3, <1>4, <1>5 DEF TypeOK, Event

LEMMA StepTypeOK == TypeOK /\ PostInv /\ [Next]_vars => TypeOK'
<1> SUFFICES ASSUME TypeOK, PostInv, [Next]_vars PROVE TypeOK'
  OBVIOUS
<1> USE DEF jobVars, postVars, streamVars
<1>1. CASE UNCHANGED vars
  BY <1>1 DEF TypeOK, vars
<1>2. ASSUME NEW c \in Client, HandlePost(c) PROVE TypeOK'
  BY <1>2 DEF TypeOK, HandlePost, Post, PostInvalid, Reply
<1>3. ASSUME NEW c \in Client, Resume(c) PROVE TypeOK'
  <2>1. CASE LoadFails(c)
    BY <2>1 DEF TypeOK, LoadFails, Reply
  <2>2. CASE StartJob(c)
    BY <2>2 DEF TypeOK, StartJob, Reply
  <2>3. CASE SettleDone(c)
    BY <2>3 DEF TypeOK, SettleDone
  <2>4. CASE Respond(c)
    BY <2>4 DEF TypeOK, PostInv, Respond, Reply, Wakes, Finished
  <2>5. QED
    BY <1>3, <2>1, <2>2, <2>3, <2>4 DEF Resume
<1>4. ASSUME NEW c \in Client, RunJob(c) PROVE TypeOK'
  BY <1>4, ImproveType, EndType DEF RunJob, Complete, Fail
<1>5. ASSUME NEW c \in Client, Timer(c) PROVE TypeOK'
  BY <1>5 DEF TypeOK, Timer, WindowCloses, TimerFires
<1>6. ASSUME NEW r \in Reader, NEW c \in Client, OpenStream(r, c) PROVE TypeOK'
  BY <1>6, OpenStreamType
<1>7. ASSUME NEW r \in Reader, HangUp(r) PROVE TypeOK'
  BY <1>7 DEF TypeOK, HangUp
<1>8. QED
  BY <1>1, <1>2, <1>3, <1>4, <1>5, <1>6, <1>7 DEF Next

(* The actions that change a request or a job, the others by what they     *)
(* leave alone.                                                            *)
LEMMA StepPostInv == TypeOK /\ PostInv /\ [Next]_vars => PostInv'
<1> SUFFICES ASSUME TypeOK, PostInv, [Next]_vars PROVE PostInv'
  OBVIOUS
<1> USE DEF PostInv, AnswersAgree, Finished
<1>1. CASE UNCHANGED <<request, sync, answer, status, race>>
  BY <1>1
<1>2. ASSUME NEW c \in Client, HandlePost(c) PROVE PostInv'
  <2>1. ASSUME NEW s \in BOOLEAN, Post(c, s) PROVE PostInv'
    BY <2>1 DEF TypeOK, Post, jobVars
  <2>2. CASE PostInvalid(c)
    BY <2>2 DEF TypeOK, PostInvalid, Reply, jobVars
  <2>3. QED
    BY <1>2, <2>1, <2>2 DEF HandlePost
<1>3. ASSUME NEW c \in Client, LoadFails(c) \/ StartJob(c) PROVE PostInv'
  <2>1. CASE LoadFails(c)
    BY <2>1 DEF TypeOK, LoadFails, Reply, jobVars
  <2>2. CASE StartJob(c) /\ sync[c]
    BY <2>2 DEF TypeOK, StartJob
  <2>3. CASE StartJob(c) /\ ~sync[c]
    BY <2>3 DEF TypeOK, StartJob, Reply
  <2>4. QED
    BY <1>3, <2>1, <2>2, <2>3
<1>4. ASSUME NEW c \in Client, SettleDone(c) PROVE PostInv'
  BY <1>4 DEF TypeOK, SettleDone, Settles, jobVars
<1>5. ASSUME NEW c \in Client, Respond(c) PROVE PostInv'
  BY <1>5 DEF TypeOK, Respond, Wakes, Reply, jobVars
<1>6. ASSUME NEW c \in Client, NEW how \in {"complete", "error"}, End(c, how) PROVE PostInv'
  BY <1>6 DEF TypeOK, End, postVars
<1>7. ASSUME NEW c \in Client, TimerFires(c) PROVE PostInv'
  BY <1>7 DEF TypeOK, TimerFires, jobVars
<1>8. QED
  BY <1>1, <1>2, <1>3, <1>4, <1>5, <1>6, <1>7
  DEF Next, Resume, RunJob, Improve, Complete, Fail, Timer, WindowCloses, OpenStream, HangUp,
      vars, jobVars, postVars

LEMMA PostInvHolds == Spec => [](TypeOK /\ PostInv)
<1>1. (TypeOK /\ PostInv) /\ [Next]_vars => (TypeOK /\ PostInv)'
  BY StepTypeOK, StepPostInv
<1>2. QED
  BY <1>1, InitPostInv, PTL DEF Spec

(* Every state of the server is well typed; an answer is one of the few    *)
(* that a handler gives, because a race is only won by a job that ended.   *)
THEOREM TypeCorrect == Spec => []TypeOK
<1>1. TypeOK /\ PostInv => TypeOK
  OBVIOUS
<1>2. QED
  BY <1>1, PostInvHolds, PTL

(* Whatever a POST was told stays true while its job runs on.              *)
THEOREM AnswersAgreeHolds == Spec => []AnswersAgree
<1>1. TypeOK /\ PostInv => AnswersAgree
  BY DEF PostInv
<1>2. QED
  BY <1>1, PostInvHolds, PTL

---------------------------------------------------------------------------
(* Streams.  Whoever is subscribed has an open stream on the job, so the   *)
(* next event reaches exactly the readers whose transcript it extends.     *)

StreamInv ==
  /\ \A r \in Reader : stream[r].state # "idle" => stream[r].job \in Client
  /\ SubscribersAreOpen
  /\ StreamsAreExact

(* The transcript of a job with these programs and this status.            *)
Shown(ps, st) ==
  IF st \in {"complete", "error"} THEN Append(Events(ps), Terminal(st)) ELSE Events(ps)

ShownTo(state, events, ps, st) ==
  /\ state \in {"open", "closed"} => events = Shown(ps, st)
  /\ state = "cancelled" => IsPrefix(events, Shown(ps, st))
  /\ state = "closed" => st \in {"complete", "error"}

LEMMA ShownType ==
  ASSUME TypeOK, NEW c \in Client
  PROVE  /\ Events(partials[c]) \in Seq(Event)
         /\ Shown(partials[c], status[c]) \in Seq(Event)
<1>1. Events(partials[c]) \in Seq(Event)
  BY EventsType DEF TypeOK
<1>2. Finished(c) => Append(Events(partials[c]), Terminal(status[c])) \in Seq(Event)
  BY <1>1, TerminalIsEvent, AppendProperties DEF Finished
<1>3. QED
  BY <1>1, <1>2 DEF Shown, Finished

LEMMA StreamsShown ==
  ASSUME StreamsAreExact, NEW r \in Reader
  PROVE  ShownTo(stream[r].state, sent[r], partials[stream[r].job], status[stream[r].job])
  BY Zenon DEF StreamsAreExact, Transcript, Finished, Shown, ShownTo

LEMMA StreamsShownNext ==
  ASSUME \A r \in Reader : ShownTo(stream'[r].state, sent'[r], partials'[stream'[r].job],
                                   status'[stream'[r].job])
  PROVE  StreamsAreExact'
  BY Zenon DEF StreamsAreExact, Transcript, Finished, Shown, ShownTo

(* An event of a job that still runs, sent to its subscribers.             *)
LEMMA NotifyExact ==
  ASSUME TypeOK, StreamInv, NEW c \in Client, NEW e \in Event, Notify(c, e),
         status[c] = "pending",
         Shown(partials'[c], status'[c]) = Append(Shown(partials[c], status[c]), e),
         \A d \in Client \ {c} : partials'[d] = partials[d] /\ status'[d] = status[d],
         \A r \in Reader : stream'[r].job = stream[r].job,
         \A r \in Reader \ subscribers[c] : stream'[r] = stream[r],
         \A r \in subscribers[c] :
           stream'[r].state = "open" \/
           (stream'[r].state = "closed" /\ status'[c] \in {"complete", "error"})
  PROVE  StreamsAreExact'
<1> SUFFICES ASSUME NEW r \in Reader
             PROVE  ShownTo(stream'[r].state, sent'[r], partials'[stream'[r].job],
                            status'[stream'[r].job])
  BY StreamsShownNext
<1> DEFINE d == stream[r].job
<1>1. stream'[r].job = d
  OBVIOUS
<1>2. r \in subscribers[c] <=> d = c /\ stream[r].state = "open"
  BY DEF StreamInv, SubscribersAreOpen
<1>3. sent'[r] = IF r \in subscribers[c] THEN Append(sent[r], e) ELSE sent[r]
  BY Zenon DEF Notify
<1>4. ShownTo(stream[r].state, sent[r], partials[d], status[d])
  BY StreamsShown, Zenon DEF StreamInv
<1>5. stream[r].state # "idle" => d \in Client
  BY DEF StreamInv
<1> HIDE DEF d
<1>6. CASE r \in subscribers[c]
  <2>1. d = c /\ sent'[r] = Append(Shown(partials[c], status[c]), e)
    BY <1>2, <1>3, <1>4, <1>6 DEF ShownTo
  <2>2. stream'[r].state = "open" \/
        (stream'[r].state = "closed" /\ status'[c] \in {"complete", "error"})
    BY <1>6
  <2>3. QED
    BY <1>1, <2>1, <2>2 DEF ShownTo
<1>7. CASE r \notin subscribers[c] /\ d = c
  <2>1. sent'[r] = sent[r] /\ stream'[r] = stream[r] /\ stream[r].state # "open"
    BY <1>2, <1>3, <1>7
  <2>2. stream[r].state # "closed"
    BY <1>4, <1>7 DEF ShownTo
  <2>3. stream[r].state = "cancelled" => IsPrefix(sent[r], Append(Shown(partials[c], status[c]), e))
    <3>1. sent[r] \in Seq(Event) /\ Shown(partials[c], status[c]) \in Seq(Event)
      BY ShownType DEF TypeOK, Event
    <3>2. QED
      BY <1>4, <1>7, <3>1, PrefixAppend DEF ShownTo
  <2>4. QED
    BY <1>1, <1>7, <2>1, <2>2, <2>3 DEF ShownTo
<1>8. CASE d # c
  <2>1. sent'[r] = sent[r] /\ stream'[r] = stream[r]
    BY <1>2, <1>3, <1>8
  <2>2. stream[r].state # "idle" => partials'[d] = partials[d] /\ status'[d] = status[d]
    BY <1>5, <1>8
  <2>3. QED
    BY <1>1, <1>4, <2>1, <2>2 DEF ShownTo
<1>9. QED
  BY <1>6, <1>7, <1>8

(* A turn that leaves the transcripts alone.                               *)
LEMMA SameTranscripts ==
  ASSUME StreamInv, UNCHANGED <<stream, sent>>,
         \A c \in Client : Shown(partials'[c], status'[c]) = Shown(partials[c], status[c]),
         \A c \in Client : status[c] \in {"complete", "error"} => status'[c] = status[c]
  PROVE  StreamsAreExact'
<1> SUFFICES ASSUME NEW r \in Reader
             PROVE  ShownTo(stream'[r].state, sent'[r], partials'[stream'[r].job],
                            status'[stream'[r].job])
  BY StreamsShownNext
<1>1. ShownTo(stream[r].state, sent[r], partials[stream[r].job], status[stream[r].job])
  BY StreamsShown, Zenon DEF StreamInv
<1>2. stream[r].state # "idle" => stream[r].job \in Client
  BY DEF StreamInv
<1>3. QED
  BY <1>1, <1>2 DEF ShownTo

LEMMA ImproveStreamInv ==
  ASSUME TypeOK, StreamInv, NEW c \in Client, Improve(c)
  PROVE  StreamInv'
<1>1. PICK s \in 1 .. MaxScore :
        /\ partials' = [partials EXCEPT ![c] = Append(@, s)]
        /\ Notify(c, Partial(s))
  BY ImproveScore
<1>2. status[c] = "pending" /\ UNCHANGED <<status, stream, subscribers>>
  BY DEF Improve
<1>3. partials[c] \in Seq(1 .. MaxScore) /\ partials'[c] = Append(partials[c], s)
  BY <1>1 DEF TypeOK
<1>4. Events(partials'[c]) = Append(Events(partials[c]), Partial(s))
  BY <1>3, EventsAppend
<1>5. Shown(partials'[c], status'[c]) = Append(Shown(partials[c], status[c]), Partial(s))
  BY <1>2, <1>4 DEF Shown
<1>6. \A d \in Client \ {c} : partials'[d] = partials[d] /\ status'[d] = status[d]
  BY <1>1, <1>2 DEF TypeOK
<1>7. \A r \in subscribers[c] : r \in Reader /\ stream'[r].state = "open"
  BY <1>2 DEF StreamInv, SubscribersAreOpen
<1>8. Partial(s) \in Event
  BY PartialIsEvent
<1>9. StreamsAreExact'
  BY <1>1, <1>2, <1>5, <1>6, <1>7, <1>8, NotifyExact
<1>10. QED
  BY <1>2, <1>9 DEF StreamInv, SubscribersAreOpen

LEMMA EndStreamInv ==
  ASSUME TypeOK, StreamInv, NEW c \in Client, NEW how \in {"complete", "error"}, End(c, how)
  PROVE  StreamInv'
<1>1. /\ status[c] = "pending" /\ status' = [status EXCEPT ![c] = how]
      /\ Notify(c, Terminal(how)) /\ CloseStreams(c) /\ partials' = partials
  BY Zenon DEF End
<1>2. status'[c] = how /\ \A d \in Client \ {c} : status'[d] = status[d]
  BY <1>1 DEF TypeOK
<1>3. Shown(partials'[c], status'[c]) = Append(Shown(partials[c], status[c]), Terminal(how))
  BY <1>1, <1>2 DEF Shown
<1>4. /\ \A r \in Reader : stream'[r].job = stream[r].job
      /\ \A r \in Reader \ subscribers[c] : stream'[r] = stream[r]
      /\ \A r \in Reader \cap subscribers[c] : stream'[r].state = "closed"
  BY <1>1 DEF CloseStreams, TypeOK
<1>5. /\ subscribers'[c] = {} /\ \A d \in Client \ {c} : subscribers'[d] = subscribers[d]
      /\ \A d \in Client : subscribers[d] \subseteq Reader
  BY <1>1 DEF CloseStreams, TypeOK
<1>6. StreamsAreExact'
  BY <1>1, <1>2, <1>3, <1>4, <1>5, TerminalIsEvent, NotifyExact
<1>7. ASSUME NEW d \in Client
      PROVE  subscribers'[d] = {r \in Reader : stream'[r].job = d /\ stream'[r].state = "open"}
  <2>1. subscribers[d] = {r \in Reader : stream[r].job = d /\ stream[r].state = "open"}
        /\ subscribers[c] = {r \in Reader : stream[r].job = c /\ stream[r].state = "open"}
    BY DEF StreamInv, SubscribersAreOpen
  <2>2. CASE d = c
    BY <1>4, <1>5, <2>1, <2>2
  <2>3. CASE d # c
    BY <1>4, <1>5, <2>1, <2>3
  <2>4. QED
    BY <2>2, <2>3
<1>8. ASSUME NEW r \in Reader, stream'[r].state # "idle" PROVE stream'[r].job \in Client
  <2>1. stream[r].state # "idle"
    BY <1>4, <1>5, <1>8 DEF StreamInv, SubscribersAreOpen
  <2>2. QED
    BY <1>4, <2>1 DEF StreamInv
<1>9. QED
  BY <1>6, <1>7, <1>8 DEF StreamInv, SubscribersAreOpen

(* A stream that opens is given all there is, and subscribed at once.      *)
LEMMA OpenStreamInv ==
  ASSUME TypeOK, StreamInv, NEW r \in Reader, NEW c \in Client, OpenStream(r, c)
  PROVE  StreamInv'
<1>1. stream[r].state = "idle" /\ UNCHANGED <<status, partials>>
  BY DEF OpenStream
<1> DEFINE state == IF Finished(c) THEN "closed" ELSE "open"
<1>2. /\ stream' = [stream EXCEPT ![r] = [job |-> c, state |-> state]]
      /\ sent' = [sent EXCEPT ![r] = Shown(partials[c], status[c])]
      /\ subscribers' = IF Finished(c) THEN subscribers ELSE [subscribers EXCEPT ![c] = @ \cup {r}]
  BY Zenon DEF OpenStream, Finished, Shown
<1>3. /\ stream'[r] = [job |-> c, state |-> state] /\ sent'[r] = Shown(partials[c], status[c])
      /\ \A x \in Reader \ {r} : stream'[x] = stream[x] /\ sent'[x] = sent[x]
  <2> HIDE DEF state
  <2>1. DOMAIN stream = Reader /\ DOMAIN sent = Reader
    BY DEF TypeOK
  <2>2. QED
    BY <1>2, <2>1
<1>4. ASSUME NEW x \in Reader
      PROVE  ShownTo(stream'[x].state, sent'[x], partials'[stream'[x].job], status'[stream'[x].job])
  <2>1. CASE x = r
    <3>1. /\ stream'[x].job = c /\ stream'[x].state = state
          /\ sent'[x] = Shown(partials'[c], status'[c])
      BY <1>1, <1>3, <2>1
    <3>2. status'[c] = status[c]
      BY <1>1
    <3>3. QED
      BY <3>1, <3>2 DEF ShownTo, Finished
  <2>2. CASE x # r
    <3>1. ShownTo(stream[x].state, sent[x], partials[stream[x].job], status[stream[x].job])
      BY StreamsShown, Zenon DEF StreamInv
    <3>2. QED
      BY <1>1, <1>3, <2>2, <3>1
  <2>3. QED
    BY <2>1, <2>2
<1>5. StreamsAreExact'
  BY <1>4, StreamsShownNext
<1>6. \A x \in Reader : stream'[x].state # "idle" => stream'[x].job \in Client
  BY <1>3 DEF StreamInv
<1>7. ASSUME NEW d \in Client
      PROVE  subscribers'[d] = {x \in Reader : stream'[x].job = d /\ stream'[x].state = "open"}
  <2>1. subscribers[d] = {x \in Reader : stream[x].job = d /\ stream[x].state = "open"}
    BY DEF StreamInv, SubscribersAreOpen
  <2>2. r \notin subscribers[d]
    BY <1>1, <2>1
  <2>3. subscribers'[d] = IF ~Finished(c) /\ d = c THEN subscribers[d] \cup {r} ELSE subscribers[d]
    BY <1>2 DEF TypeOK
  <2>4. stream'[r].job = c /\ (stream'[r].state = "open" <=> ~Finished(c))
    BY <1>3
  <2>5. QED
    BY <1>3, <2>1, <2>2, <2>3, <2>4
<1>8. QED
  BY <1>5, <1>6, <1>7 DEF StreamInv, SubscribersAreOpen

(* Hanging up takes the reader out of the set it is in.                    *)
LEMMA HangUpStreamInv ==
  ASSUME TypeOK, StreamInv, NEW r \in Reader, HangUp(r)
  PROVE  StreamInv'
<1> DEFINE c == stream[r].job
<1>1. /\ stream[r].state = "open" /\ UNCHANGED <<status, partials, sent>>
      /\ stream' = [stream EXCEPT ![r].state = "cancelled"]
      /\ subscribers' = [subscribers EXCEPT ![c] = @ \ {r}]
  BY DEF HangUp
<1>2. c \in Client
  BY <1>1 DEF StreamInv
<1>3. /\ stream'[r].job = c /\ stream'[r].state = "cancelled"
      /\ \A x \in Reader \ {r} : stream'[x] = stream[x]
  BY <1>1 DEF TypeOK
<1>4. ASSUME NEW x \in Reader
      PROVE  ShownTo(stream'[x].state, sent'[x], partials'[stream'[x].job], status'[stream'[x].job])
  <2>1. ShownTo(stream[x].state, sent[x], partials[stream[x].job], status[stream[x].job])
    BY StreamsShown, Zenon DEF StreamInv
  <2>2. CASE x = r
    <3>1. sent[x] = Shown(partials[c], status[c])
      BY <1>1, <2>1, <2>2 DEF ShownTo
    <3>2. IsPrefix(sent[x], Shown(partials[c], status[c]))
      BY <1>2, <3>1, ShownType, PrefixReflexive
    <3>3. QED
      BY <1>1, <1>3, <2>2, <3>2 DEF ShownTo
  <2>3. CASE x # r
    BY <1>1, <1>3, <2>1, <2>3
  <2>4. QED
    BY <2>2, <2>3
<1>5. StreamsAreExact'
  BY <1>4, StreamsShownNext
<1>6. ASSUME NEW d \in Client
      PROVE  subscribers'[d] = {x \in Reader : stream'[x].job = d /\ stream'[x].state = "open"}
  <2>1. subscribers[d] = {x \in Reader : stream[x].job = d /\ stream[x].state = "open"}
    BY DEF StreamInv, SubscribersAreOpen
  <2>2. subscribers'[d] = IF d = c THEN subscribers[d] \ {r} ELSE subscribers[d]
    BY <1>1 DEF TypeOK
  <2>3. QED
    BY <1>3, <2>1, <2>2
<1>7. QED
  BY <1>2, <1>3, <1>5, <1>6 DEF StreamInv, SubscribersAreOpen

LEMMA StepStreamInv == TypeOK /\ PostInv /\ StreamInv /\ [Next]_vars => StreamInv'
<1> SUFFICES ASSUME TypeOK, PostInv, StreamInv, [Next]_vars PROVE StreamInv'
  OBVIOUS
<1>1. ASSUME UNCHANGED <<stream, sent, subscribers, partials>>,
             \A c \in Client : status'[c] = status[c] \/ (status[c] = "absent" /\ status'[c] = "pending")
      PROVE  StreamInv'
  <2>1. \A c \in Client : Shown(partials'[c], status'[c]) = Shown(partials[c], status[c])
    BY <1>1 DEF Shown
  <2>2. StreamsAreExact'
    BY <1>1, <2>1, SameTranscripts
  <2>3. QED
    BY <1>1, <2>2 DEF StreamInv, SubscribersAreOpen
<1>2. ASSUME NEW c \in Client, StartJob(c) PROVE StreamInv'
  <2>1. status[c] = "absent" /\ status' = [status EXCEPT ![c] = "pending"]
    BY <1>2 DEF StartJob, PostInv
  <2>2. QED
    BY <1>1, <1>2, <2>1 DEF StartJob, streamVars, TypeOK
<1>3. CASE UNCHANGED <<stream, sent, subscribers, partials, status>>
  BY <1>1, <1>3
<1>4. QED
  BY <1>2, <1>3, ImproveStreamInv, EndStreamInv, OpenStreamInv, HangUpStreamInv
  DEF Next, HandlePost, Post, PostInvalid, Resume, LoadFails, SettleDone, Respond, RunJob,
      Complete, Fail, Timer, WindowCloses, TimerFires, vars, jobVars, streamVars

LEMMA StreamInvHolds == Spec => []StreamInv
<1>1. Init => StreamInv
  BY DEF Init, StreamInv, SubscribersAreOpen, StreamsAreExact
<1>2. TypeOK /\ PostInv /\ StreamInv /\ [Next]_vars => StreamInv'
  BY StepStreamInv
<1>3. QED
  BY <1>1, <1>2, PostInvHolds, PTL DEF Spec

(* No event is lost or repeated for a reader, whenever its stream opened.  *)
THEOREM StreamsAreExactHolds == Spec => []StreamsAreExact
<1>1. StreamInv => StreamsAreExact
  BY DEF StreamInv
<1>2. QED
  BY <1>1, StreamInvHolds, PTL

(* No subscription is leaked and none is forgotten.                        *)
THEOREM SubscribersAreOpenHolds == Spec => []SubscribersAreOpen
<1>1. StreamInv => SubscribersAreOpen
  BY DEF StreamInv
<1>2. QED
  BY <1>1, StreamInvHolds, PTL

---------------------------------------------------------------------------
(* Jobs as anytime streams.                                                *)

JobStep(c) == JobStream(c)!Next \/ UNCHANGED <<JobStatus(c), JobBest(c)>>

(* A job that is not touched, or that starts, is a stutter.                *)
LEMMA JobStutters ==
  ASSUME NEW c \in Client, partials'[c] = partials[c],
         status'[c] = status[c] \/ (status[c] = "absent" /\ status'[c] = "pending")
  PROVE  JobStep(c)
  BY DEF JobStep, JobStatus, JobBest

LEMMA ImproveImproves ==
  ASSUME TypeOK, NEW c \in Client, Improve(c)
  PROVE  JobStream(c)!Improve
<1>1. PICK s \in 1 .. MaxScore :
        s > LastScore(c) /\ partials' = [partials EXCEPT ![c] = Append(@, s)]
  BY ImproveScore
<1>2. partials[c] \in Seq(1 .. MaxScore) /\ partials'[c] = Append(partials[c], s)
  BY <1>1 DEF TypeOK
<1>3. partials'[c] # <<>> /\ Last(partials'[c]) = s
  <2>1. /\ Len(partials'[c]) = Len(partials[c]) + 1
        /\ partials'[c][Len(partials[c]) + 1] = s /\ Len(partials[c]) \in Nat
    BY <1>2, AppendProperties
  <2>2. QED
    BY <2>1, EmptySeq DEF Last
<1>4. JobBest(c)' = s /\ s \in Int
  BY <1>3 DEF JobBest
<1>5. JobBest(c) \in Int => s > JobBest(c)
  BY <1>1, LastScoreType, ScoreAssumption DEF JobBest
<1>6. JobStatus(c) = "open" /\ JobStatus(c)' = "open"
  BY DEF Improve, JobStatus
<1>7. QED
  BY <1>4, <1>5, <1>6 DEF JobStream!Improve, JobStream!Better

LEMMA EndEnds ==
  ASSUME TypeOK, NEW c \in Client, NEW how \in {"complete", "error"}, End(c, how)
  PROVE  JobStream(c)!Finish \/ JobStream(c)!Abandon
<1>1. status[c] = "pending" /\ status'[c] = how /\ partials' = partials
  BY DEF End, TypeOK
<1>2. /\ JobStatus(c) = "open"
      /\ JobStatus(c)' = IF how = "complete" THEN "done" ELSE "failed"
      /\ JobBest(c)' = JobBest(c)
  BY <1>1 DEF JobStatus, JobBest
<1>3. QED
  BY <1>2 DEF JobStream!Finish, JobStream!Abandon

LEMMA StepJobStream ==
  ASSUME TypeOK, PostInv, [Next]_vars, NEW c \in Client
  PROVE  JobStep(c)
<1>1. CASE UNCHANGED <<status, partials>>
  BY <1>1, JobStutters
<1>2. ASSUME NEW d \in Client, StartJob(d) PROVE JobStep(c)
  <2>1. /\ status[d] = "absent" /\ status' = [status EXCEPT ![d] = "pending"]
        /\ partials' = partials
    BY <1>2 DEF StartJob, PostInv
  <2>2. QED
    BY <2>1, JobStutters DEF TypeOK
<1>3. ASSUME NEW d \in Client, Improve(d) PROVE JobStep(c)
  <2>1. CASE c = d
    BY <1>3, <2>1, ImproveImproves DEF JobStep, JobStream!Next
  <2>2. CASE c # d
    <3>1. status' = status /\ partials'[c] = partials[c]
      BY <1>3, <2>2 DEF Improve, TypeOK
    <3>2. QED
      BY <3>1, JobStutters
  <2>3. QED
    BY <2>1, <2>2
<1>4. ASSUME NEW d \in Client, NEW how \in {"complete", "error"}, End(d, how) PROVE JobStep(c)
  <2>1. CASE c = d
    BY <1>4, <2>1, EndEnds DEF JobStep, JobStream!Next
  <2>2. CASE c # d
    <3>1. status'[c] = status[c] /\ partials' = partials
      BY <1>4, <2>2 DEF End, TypeOK
    <3>2. QED
      BY <3>1, JobStutters
  <2>3. QED
    BY <2>1, <2>2
<1>5. QED
  BY <1>1, <1>2, <1>3, <1>4
  DEF Next, HandlePost, Post, PostInvalid, Resume, LoadFails, SettleDone, Respond, RunJob,
      Complete, Fail, Timer, WindowCloses, TimerFires, OpenStream, HangUp, vars, jobVars

(* Every job implements the stream that its search promises, from outside: *)
(* scores only rise, and nothing follows the end.                          *)
THEOREM JobsAreStreamsHolds == Spec => JobsAreStreams
<1>1. Init => \A c \in Client : JobStream(c)!Init
  BY DEF Init, JobStream!Init, JobStatus, JobBest
<1>2. TypeOK /\ PostInv /\ [Next]_vars =>
        [\A c \in Client : JobStream(c)!Next \/ UNCHANGED <<JobStatus(c), JobBest(c)>>]_vars
  BY StepJobStream DEF JobStep
<1>3. QED
  BY <1>1, <1>2, PostInvHolds, PTL DEF Spec, JobsAreStreams

=============================================================================
