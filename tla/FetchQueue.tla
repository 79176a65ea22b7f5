----------------------------- MODULE FetchQueue -----------------------------
(***************************************************************************)
(* One FetcherThread: the main thread gives it batches of ladders of three *)
(* kinds, it takes ladders from them in turn, fetches them from Battle.net,*)
(* pushes the good responses on the fetched queue, slows down when answers *)
(* are bad or the main thread falls behind, and ends when told to stop.    *)
(* What becomes of the responses is in LadderUpdates.                      *)
(***************************************************************************)
EXTENDS Naturals, Sequences, FiniteSets

CONSTANTS Ladders, KindOf,   \* the ladders of the region, and the kind of each
          NoLadder,          \* stands for "no ladder"
          QueueLimit,        \* the thread slows down above it (20 in the code)
          DelayMax,          \* longest wait in seconds (256 in the code)
          MaxQueued          \* bound: length of the fetched queue

Kinds == <<"gm", "plat", "rest">>     \* in the order interleave serves them
KindSet == {Kinds[i] : i \in 1..Len(Kinds)}

ASSUME FetchQueueAssumption ==
  /\ IsFiniteSet(Ladders)
  /\ KindOf \in [Ladders -> KindSet]
  /\ NoLadder \notin Ladders
  /\ QueueLimit \in Nat
  /\ DelayMax \in Nat \ {0}
  /\ MaxQueued \in Nat /\ MaxQueued > QueueLimit

VARIABLES
  batches,   \* per kind the batches not yet done, the one to be served first
  pc,        \* where the thread is
  turn,      \* the queue that interleave looks at
  ladder,    \* the ladder interleave has yielded last
  answer,    \* what Battle.net answered for it
  delay,     \* of do_run
  left,      \* seconds the thread still has to wait
  queued,    \* len(self.fetched_queue)
  stopped,   \* stop() has been called
  ahead      \* per ladder how much more often it was taken than the least of its kind

vars == <<batches, pc, turn, ladder, answer, delay, left, queued, stopped, ahead>>

OfKind(k) == {l \in Ladders : KindOf[l] = k}
Answers == {"ladder", "other_code", "unparsable", "error", "no_response"}
Delays == 1..(DelayMax + 1)

\* What every variable holds; no queue ever has more than two batches.
TypeOK ==
  /\ batches \in [KindSet -> Seq(Seq(Ladders))]
  /\ \A k \in KindSet : Len(batches[k]) <= 2
  /\ pc \in {"outer", "any", "look", "drop", "yielded", "fetching", "answered",
             "waiting", "ended"}
  /\ turn \in 1..Len(Kinds)
  /\ ladder \in Ladders \cup {NoLadder}
  /\ answer \in Answers
  /\ delay \in Delays
  /\ left \in 0..DelayMax
  /\ queued \in 0..MaxQueued
  /\ stopped \in BOOLEAN
  /\ ahead \in [Ladders -> Nat]

Init ==
  /\ batches = [k \in KindSet |-> <<>>]
  /\ pc = "outer"
  /\ turn = 1
  /\ ladder = NoLadder
  /\ answer = "no_response"
  /\ delay = 1
  /\ left = 0
  /\ queued = 0
  /\ stopped = FALSE
  /\ ahead = [l \in Ladders |-> 0]

-----------------------------------------------------------------------------
(* The main thread. *)

\* The members of S in some order, each once; the code's, by `updated`, is left open.
Orders(S) ==
  {s \in [1..Cardinality(S) -> S] :
     \A l \in S : \E i \in DOMAIN s : s[i] = l /\ \A j \in DOMAIN s : s[j] = l => j = i}

BacklogOfThree(k) == Len(batches[k]) > 2                             \* mutant
Backlog(k) == Len(batches[k]) > 1

AddedOnTheRight(k, batch) == <<batch>> \o batches[k]                 \* mutant
Added(k, batch) == Append(batches[k], batch)

\* start_gm, start_plat or start_rest; how often they come is left open.
Add(k) ==
  /\ ~stopped
  /\ ~Backlog(k)
  /\ \E batch \in Orders(OfKind(k)) : batches' = [batches EXCEPT ![k] = Added(k, batch)]
  /\ UNCHANGED <<pc, turn, ladder, answer, delay, left, queued, stopped, ahead>>

\* The main thread merges a response.
Pop ==
  /\ ~stopped
  /\ queued > 0
  /\ queued' = queued - 1
  /\ UNCHANGED <<batches, pc, turn, ladder, answer, delay, left, stopped, ahead>>

\* The main thread leaves its loop, or has failed in it; in the first case it joins.
Stop ==
  /\ ~stopped
  /\ stopped' = TRUE
  /\ UNCHANGED <<batches, pc, turn, ladder, answer, delay, left, queued, ahead>>

-----------------------------------------------------------------------------
(* interleave *)

Go(label) == pc' = label /\ UNCHANGED turn

RestartTurns == pc' = "any" /\ turn' = 1                             \* mutant
\* On to the next queue; after the last one any(queues) is asked again.
NextTurn ==
  IF turn < Len(Kinds) THEN pc' = "look" /\ turn' = turn + 1
                       ELSE pc' = "any" /\ turn' = 1

\* The generator ends when no queue holds a batch.
AnyQueue ==
  /\ pc = "any"
  /\ Go(IF \E k \in KindSet : batches[k] # <<>> THEN "look" ELSE "outer")
  /\ UNCHANGED <<batches, ladder, answer, delay, left, queued, stopped, ahead>>

Queue == batches[Kinds[turn]]

SkipQueue ==
  /\ pc = "look"
  /\ Queue = <<>>
  /\ NextTurn
  /\ UNCHANGED <<batches, ladder, answer, delay, left, queued, stopped, ahead>>

\* One more for l; counted from the least of its kind.
Counted(l) ==
  LET more == [ahead EXCEPT ![l] = @ + 1]
      kin == OfKind(KindOf[l])
  IN  [m \in Ladders |-> IF m \in kin /\ \A n \in kin : more[n] > 0
                         THEN more[m] - 1 ELSE more[m]]

Yield ==
  /\ pc = "look"
  /\ Queue # <<>>
  /\ Head(Queue) # <<>>
  /\ LET l == Head(Head(Queue)) IN
       /\ ladder' = l
       /\ ahead' = Counted(l)
  /\ batches' = [batches EXCEPT ![Kinds[turn]][1] = Tail(@)]
  /\ Go("yielded")
  /\ UNCHANGED <<answer, delay, left, queued, stopped>>

\* batch.pop() has found the batch empty; the queue is popped in a step of its own,
\* while the main thread may add another.
FindExhausted ==
  /\ pc = "look"
  /\ Queue # <<>>
  /\ Head(Queue) = <<>>
  /\ Go("drop")
  /\ UNCHANGED <<batches, ladder, answer, delay, left, queued, stopped, ahead>>

DropBatch ==
  /\ pc = "drop"
  /\ batches' = [batches EXCEPT ![Kinds[turn]] = Tail(Queue)]
  /\ NextTurn
  /\ UNCHANGED <<ladder, answer, delay, left, queued, stopped, ahead>>

-----------------------------------------------------------------------------
(* do_run *)

LoopForever == FALSE                                                 \* mutant
LoopStopped == stopped

\* while not self.check_stop(throw=False): begin a new generator.
Outer ==
  /\ pc = "outer"
  /\ Go(IF LoopStopped THEN "ended" ELSE "any")
  /\ UNCHANGED <<batches, ladder, answer, delay, left, queued, stopped, ahead>>

\* self.check_stop() raises Stop, then the ladder taken is not fetched.  (The bound
\* on the queue holds the thread up until the main thread has popped.)
CheckStop ==
  /\ pc = "yielded"
  /\ stopped \/ queued < MaxQueued
  /\ Go(IF stopped THEN "ended" ELSE "fetching")
  /\ UNCHANGED <<batches, ladder, answer, delay, left, queued, stopped, ahead>>

\* Battle.net answers, or not within the timeout.
Fetch ==
  /\ pc = "fetching"
  /\ answer' \in Answers
  /\ Go("answered")
  /\ UNCHANGED <<batches, ladder, delay, left, queued, stopped, ahead>>

\* The fetch raises something that http_get does not turn into a status: the thread
\* ends, and nobody looks after it.
Raise ==
  /\ pc = "fetching"
  /\ Go("ended")
  /\ UNCHANGED <<batches, ladder, answer, delay, left, queued, stopped, ahead>>

\* http_get_json: of the answers with status 200 those that say another code in
\* their JSON have that status, and those that are not JSON keep the 200.
Status200(a) == a \in {"ladder", "unparsable"}

BadOrBehind(q) == ~Status200(answer) \/ q > QueueLimit
Smaller(a, b) == IF a < b THEN a ELSE b

\* Push a good response, then wait if it was not good or the queue is too long.
Push ==
  /\ pc = "answered"
  /\ queued' = IF Status200(answer) THEN queued + 1 ELSE queued
  /\ IF BadOrBehind(queued')
     THEN /\ delay' = Smaller(DelayMax + 1, delay * 2)
          /\ left' = Smaller(DelayMax, delay')
          /\ Go("waiting")
     ELSE /\ delay' = 1
          /\ UNCHANGED left
          /\ NextTurn
  /\ answer' = "no_response"
  /\ UNCHANGED <<batches, ladder, stopped, ahead>>

\* One second after the other, looking at the stop flag before each.
Wait ==
  /\ pc = "waiting"
  /\ CASE left = 0 -> NextTurn /\ UNCHANGED left
       [] left > 0 /\ stopped -> Go("ended") /\ UNCHANGED left
       [] left > 0 /\ ~stopped -> left' = left - 1 /\ Go("waiting")
  /\ UNCHANGED <<batches, ladder, answer, delay, queued, stopped, ahead>>

Thread ==
  \/ AnyQueue
  \/ SkipQueue
  \/ Yield
  \/ FindExhausted
  \/ DropBatch
  \/ Outer
  \/ CheckStop
  \/ Fetch
  \/ Raise
  \/ Push
  \/ Wait

Next == (\E k \in KindSet : Add(k)) \/ Pop \/ Stop \/ Thread

\* The thread goes on until it ends (a fetch has a timeout), the main thread pops
\* while it is in its loop: needed for the bound on the queue only.  Nothing is
\* assumed of the batches it adds.
Spec == Init /\ [][Next]_vars /\ WF_vars(Thread) /\ WF_vars(Pop)

-----------------------------------------------------------------------------
\* Ladders of a kind are fetched in turn, none gets more than one turn ahead of
\* another: batches are whole, and one is finished before the next begins, though
\* the ladders fetched last are first in each (as long as the kind keeps its ladders).
EvenlyFetched == \A l \in Ladders : ahead[l] <= 1

\* What interleave is about to drop is the batch that it found empty, never one that
\* the main thread has added in between.
OnlyExhaustedDropped == pc = "drop" => Queue # <<>> /\ Head(Queue) = <<>>

Waiting(l) == \E i \in 1..Len(batches[KindOf[l]]) :
                \E j \in 1..Len(batches[KindOf[l]][i]) : batches[KindOf[l]][i][j] = l

\* No ladder starves: one in a batch gets its turn, whatever is added to the other
\* queues and whatever Battle.net answers, unless the thread is stopped or dies.
EveryLadderGetsATurn ==
  \A l \in Ladders :
    Waiting(l) ~> ((pc = "yielded" /\ ladder = l) \/ stopped \/ pc = "ended")

\* join() returns: a thread that is told to stop ends, also from within its waits.
StopEnds == stopped ~> pc = "ended"

\* "If 200 and unparsable json, it will return <605, ...>" (battle_net.py), a status
\* with which the response is not pushed.
UnparsableIsDropped ==
  [][pc = "answered" /\ answer = "unparsable" => queued' <= queued]_vars

=============================================================================
